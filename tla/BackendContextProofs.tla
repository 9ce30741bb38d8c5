------------------------ MODULE BackendContextProofs ------------------------
(***************************************************************************)
(* The wrappers of Boolector, Bitwuzla, cvc5, MathSAT and Z3, for every set *)
(* of formulas and any number of levels: their counters are right, a core  *)
(* is one, and while client and solver are in step they all implement      *)
(* AssertionStack.                                                         *)
(***************************************************************************)
EXTENDS BackendContext, TLAPS, SequenceTheorems

Trails == Seq(SUBSET Models)
ClauseStacks == Seq(SUBSET Formulas)

(* The level counter is at least the client's levels; Boolector holds no   *)
(* more levels than its wrapper counts, and one.                           *)
CounterOK ==
  /\ base_context_1 \in BOOLEAN
  /\ base_context_1 => backend = "btor"
  /\ Counted => context_level >= depth + IF base_context_1 THEN 1 ELSE 0
  /\ IsMsat => drift \subseteq {"stale_base"}
  /\ backend = "btor" => Len(trail) <= context_level + 1

(* What a reset or a sweep goes back to: nothing is asserted below         *)
(* Boolector's base context, and MathSAT's level 0 is what its wrapper has *)
(* kept.                                                                   *)
BaseOK ==
  /\ base_assertions_ \in SUBSET Models
  /\ base_context_1 /\ "late_option" \notin drift /\ Len(trail) = context_level + 1
       => trail[1] = Models
  /\ backend = "msat" /\ "stale_base" \notin drift => trail[1] = base_assertions_

StackInv ==
  /\ trail \in Trails /\ Len(trail) > 0
  /\ clauses \in ClauseStacks
  /\ IsMsat => Len(clauses) = Len(trail)
  /\ context_level \in 0 .. MaxLevel
  /\ depth \in 0 .. MaxDepth
  /\ "late_option" \notin drift => depth < Len(trail)
  /\ CounterOK /\ BaseOK /\ LevelRight

(* What the solver assumed was asked for in the query, which is remembered.*)
QueryInv ==
  /\ native \subseteq Formulas
  /\ last_query_assuming \in BOOLEAN
  /\ answer \in {"none", "sat", "unsat", "unknown"}
  /\ core.kind \in {"none", "threw", "core"} /\ core.of \subseteq Formulas
  /\ query # Nothing => native \subseteq query.of
  /\ query.kind = "vector" /\ backend \in {"msat", "z3"} => last_query_assuming
  /\ CoreRight /\ InterpolantsIndependent

IInv == StackInv /\ QueryInv

-----------------------------------------------------------------------------
(* Sequences of levels *)

(* n more levels: those below stay,                                       *)
LEMMA OpenedLevels ==
  ASSUME NEW S, NEW s \in Seq(S), NEW e \in S, NEW n \in Nat
  PROVE  /\ Opened(n, s, e) \in Seq(S)
         /\ Len(Opened(n, s, e)) = Len(s) + n
         /\ \A i \in 1 .. Len(s) : Opened(n, s, e)[i] = s[i]
<1> DEFINE r == [i \in 1 .. n |-> e]
<1>1. r \in Seq(S) /\ Len(r) = n /\ \A i \in 1 .. n : r[i] = e
  OBVIOUS
<1>2. Len(s) \in Nat
  OBVIOUS
<1>3. Opened(n, s, e) = s \o r
  BY DEF Opened
<1> HIDE DEF r
<1>4. /\ s \o r \in Seq(S)
      /\ Len(s \o r) = Len(s) + Len(r)
      /\ \A i \in 1 .. Len(s) + Len(r) : (s \o r)[i] = IF i <= Len(s) THEN s[i] ELSE r[i - Len(s)]
  BY <1>1, ConcatProperties
<1> QED BY <1>1, <1>2, <1>3, <1>4

(* and the new ones all hold e.                                            *)
LEMMA OpenedNew ==
  ASSUME NEW S, NEW s \in Seq(S), NEW e \in S, NEW n \in Nat
  PROVE  \A i \in Len(s) + 1 .. Len(s) + n : Opened(n, s, e)[i] = e
<1> DEFINE r == [i \in 1 .. n |-> e]
<1>1. r \in Seq(S) /\ Len(r) = n /\ \A i \in 1 .. n : r[i] = e
  OBVIOUS
<1>2. Len(s) \in Nat
  OBVIOUS
<1>3. Opened(n, s, e) = s \o r
  BY DEF Opened
<1> HIDE DEF r
<1>4. /\ s \o r \in Seq(S)
      /\ Len(s \o r) = Len(s) + Len(r)
      /\ \A i \in 1 .. Len(s) + Len(r) : (s \o r)[i] = IF i <= Len(s) THEN s[i] ELSE r[i - Len(s)]
  BY <1>1, ConcatProperties
<1> QED BY <1>1, <1>2, <1>3, <1>4

(* The levels left when the upper n are closed.                            *)
LEMMA ClosedLevels ==
  ASSUME NEW S, NEW s \in Seq(S), NEW n \in Nat, n < Len(s)
  PROVE  /\ Closed(n, s) \in Seq(S)
         /\ Len(Closed(n, s)) = Len(s) - n
         /\ \A i \in 1 .. Len(s) - n : Closed(n, s)[i] = s[i]
<1>1. Len(s) \in Nat /\ Len(s) - n \in Int /\ 1 \in Int /\ 1 <= Len(s) - n
  OBVIOUS
<1>2. \A i \in 1 .. Len(s) - n : s[i] \in S
  BY <1>1
<1> QED BY <1>1, <1>2, SubSeqProperties DEF Closed

(* The trail, its top, and the constants.                                  *)
LEMMA Basics ==
  ASSUME StackInv
  PROVE  /\ trail \in Trails /\ Len(trail) \in Nat /\ Len(trail) > 0
         /\ DOMAIN trail = 1 .. Len(trail)
         /\ Top \in SUBSET Models
         /\ trail[1] \in SUBSET Models
         /\ context_level \in Nat /\ depth \in Nat
         /\ MaxLevel \in Nat /\ MaxDepth \in Nat
<1>1. MaxLevel \in Nat /\ MaxDepth \in Nat
  BY BackendAssumption DEF BackendAssumption
<1>2. context_level \in Nat /\ depth \in Nat
  BY <1>1 DEF StackInv
<1>3. /\ trail \in Seq(SUBSET Models) /\ Len(trail) > 0
      /\ trail \in Trails
  BY DEF StackInv, Trails
<1>4. Len(trail) \in Nat /\ DOMAIN trail = 1 .. Len(trail)
  BY <1>3, LenProperties
<1>5. trail[1] \in SUBSET Models /\ trail[Len(trail)] \in SUBSET Models
  BY <1>3, <1>4, ElementOfSeq
<1> QED BY <1>1, <1>2, <1>3, <1>4, <1>5 DEF Top

-----------------------------------------------------------------------------
(* The stack, one lemma per kind of call *)

(* A new solver, whatever its back end.                                     *)
LEMMA InitStack == Init => StackInv
<1> SUFFICES ASSUME Init PROVE StackInv
  OBVIOUS
<1>1. trail = <<Models>> /\ clauses = <<{}>>
  BY DEF Init
<1>2. /\ <<Models>> \in Trails /\ Len(<<Models>>) = 1 /\ <<Models>>[1] = Models
      /\ <<{}>> \in ClauseStacks /\ Len(<<{}>>) = 1
  BY DEF Trails, ClauseStacks
<1>3. MaxLevel \in Nat /\ MaxDepth \in Nat
  BY BackendAssumption DEF BackendAssumption
<1>4. /\ context_level = 0 /\ ~base_context_1 /\ base_assertions_ = Models
      /\ depth = 0 /\ drift = {}
  BY DEF Init
<1>7. base_context_1 \in BOOLEAN
  BY DEF Init
<1>8. Len(trail) <= context_level + 1
  BY <1>1, <1>2, <1>4
<1>5. CounterOK /\ LevelRight
  BY <1>4, <1>7, <1>8 DEF CounterOK, LevelRight
<1>6. BaseOK
  BY <1>1, <1>2, <1>4 DEF BaseOK
<1> QED BY <1>1, <1>2, <1>3, <1>4, <1>5, <1>6 DEF StackInv

(* An assertion changes the top level only.                                *)
LEMMA TopShrinks ==
  ASSUME StackInv, NEW f \in Formulas,
         trail' = [trail EXCEPT ![Len(trail)] = @ \cap f]
  PROVE  /\ trail' \in Trails /\ Len(trail') = Len(trail)
         /\ trail'[Len(trail)] = Top \cap f
         /\ \A i \in 1 .. Len(trail) - 1 : trail'[i] = trail[i]
<1>1. Len(trail) \in 1 .. Len(trail) /\ Top \cap f \in SUBSET Models /\ Len(trail) \in Nat
  BY Basics
<1>2. trail' = [trail EXCEPT ![Len(trail)] = Top \cap f]
  BY DEF Top
<1>3. trail \in Seq(SUBSET Models)
  BY Basics DEF Trails
<1>6. \A i \in 1 .. Len(trail) - 1 : i \in 1 .. Len(trail) /\ i # Len(trail)
  BY <1>1
<1> DEFINE top == Top \cap f
           u == [trail EXCEPT ![Len(trail)] = top]
<1> HIDE DEF top
<1>4. /\ u \in Seq(SUBSET Models) /\ Len(u) = Len(trail)
      /\ \A j \in 1 .. Len(trail) : u[j] = IF j = Len(trail) THEN top ELSE trail[j]
  BY <1>1, <1>3, ExceptSeq DEF top
<1>5. trail' = u
  BY <1>2 DEF top
<1> HIDE DEF u
<1> QED BY <1>1, <1>4, <1>5, <1>6 DEF Trails, top

(* An assertion leaves the levels below the top, and MathSAT's wrapper      *)
(* keeps its own copy of level 0.                                           *)
LEMMA AssertStack ==
  ASSUME StackInv, NEW f \in Formulas, assert_formula(f) \/ msat_assert_formula(f)
  PROVE  StackInv'
<1>1. /\ trail' \in Trails /\ Len(trail') = Len(trail)
      /\ trail'[Len(trail)] = Top \cap f
      /\ \A i \in 1 .. Len(trail) - 1 : trail'[i] = trail[i]
  BY TopShrinks DEF assert_formula, msat_assert_formula
<1>2. Len(trail) \in Nat /\ Len(trail) > 0 /\ context_level \in Nat /\ depth \in Nat
  BY Basics
<1>3. UNCHANGED <<backend, context_level, base_context_1, clauses, depth, drift>>
  BY DEF assert_formula, msat_assert_formula, counters, msat
<1>4. /\ base_assertions_' \in SUBSET Models
      /\ Counted => UNCHANGED base_assertions_
  BY DEF assert_formula, msat_assert_formula, msat, StackInv, BaseOK, Counted
<1>5. CounterOK' /\ LevelRight'
  BY <1>1, <1>3 DEF StackInv, CounterOK, LevelRight, Counted, IsMsat
<1>6. base_context_1 /\ Len(trail) = context_level + 1 => trail'[1] = trail[1]
  BY <1>1, <1>2 DEF StackInv, CounterOK, Counted
<1>7. backend = "msat" /\ trail[1] = base_assertions_ => trail'[1] = base_assertions_'
  <2> SUFFICES ASSUME backend = "msat", trail[1] = base_assertions_
               PROVE  trail'[1] = base_assertions_'
    OBVIOUS
  <2>1. base_assertions_' = IF Len(trail) = 1 THEN base_assertions_ \cap f ELSE base_assertions_
    BY DEF assert_formula, msat_assert_formula, Counted
  <2>2. CASE Len(trail) = 1
    BY <1>1, <2>1, <2>2 DEF Top
  <2>3. CASE Len(trail) # 1
    <3>1. 1 \in 1 .. Len(trail) - 1
      BY <1>2, <2>3
    <3> QED BY <1>1, <2>1, <2>3, <3>1
  <2> QED BY <2>2, <2>3
<1>8. BaseOK'
  BY <1>1, <1>3, <1>4, <1>6, <1>7 DEF StackInv, BaseOK
<1> QED BY <1>1, <1>3, <1>5, <1>8 DEF StackInv, IsMsat

(* Levels, clauses and counter go up together,                              *)
LEMMA PushStack ==
  ASSUME StackInv, NEW n \in 1 .. MaxDepth, push(n) \/ msat_push(n)
  PROVE  StackInv'
<1>1. n \in Nat /\ n > 0 /\ depth \in Nat /\ context_level \in Nat /\ Len(trail) \in Nat
      /\ MaxDepth \in Nat /\ MaxLevel \in Nat /\ Len(trail) > 0
  BY Basics
<1>2. trail' = Opened(n, trail, Top) /\ depth' = depth + n /\ depth + n <= MaxDepth
      /\ UNCHANGED <<backend, base_context_1, base_assertions_, drift>>
  BY DEF push, msat_push, Room, msat, counters
<1>3. /\ trail' \in Trails
      /\ Len(trail') = Len(trail) + n
      /\ \A i \in 1 .. Len(trail) : trail'[i] = trail[i]
  <2> DEFINE S == SUBSET Models
             u == Opened(n, trail, Top)
  <2>1. trail \in Seq(S) /\ Top \in S /\ n \in Nat
    BY <1>1, Basics DEF Trails
  <2> HIDE DEF S
  <2>2. /\ u \in Seq(S) /\ Len(u) = Len(trail) + n
        /\ \A i \in 1 .. Len(trail) : u[i] = trail[i]
    BY <2>1, OpenedLevels, Zenon
  <2> HIDE DEF u
  <2> QED BY <1>2, <2>2 DEF S, u, Trails
<1>4. trail'[1] = trail[1]
  BY <1>1, <1>3
<1>5. /\ clauses' \in ClauseStacks
      /\ IsMsat => Len(clauses') = Len(clauses) + n
  <2>1. CASE IsMsat
    <3>1. clauses' = Opened(n, clauses, {})
      BY <2>1 DEF push, msat_push, Counted, IsMsat
    <3> DEFINE S == SUBSET Formulas
    <3>2. clauses \in Seq(S) /\ {} \in S /\ n \in Nat
      BY <1>1 DEF StackInv, ClauseStacks
    <3> HIDE DEF S
    <3> DEFINE u == Opened(n, clauses, {})
    <3>3. u \in Seq(S) /\ Len(u) = Len(clauses) + n
      BY <3>2, OpenedLevels, Zenon
    <3> HIDE DEF u
    <3> QED BY <3>1, <3>3 DEF S, u, ClauseStacks
  <2>2. CASE ~IsMsat
    BY <2>2 DEF push, msat_push, StackInv, msat
  <2> QED BY <2>1, <2>2
<1>6. /\ Counted => context_level' = context_level + n /\ context_level + n <= MaxLevel
      /\ ~Counted => context_level' = context_level
  BY DEF push, msat_push, Counted, IsMsat, counters, Room
<1>7. context_level' \in 0 .. MaxLevel /\ depth' \in 0 .. MaxDepth
  BY <1>1, <1>2, <1>6 DEF StackInv
<1>8. CounterOK'
  BY <1>1, <1>2, <1>3, <1>6 DEF StackInv, CounterOK, Counted, IsMsat
<1>9. LevelRight'
  BY <1>1, <1>2, <1>6 DEF StackInv, LevelRight, Counted
<1>10. BaseOK'
  BY <1>1, <1>2, <1>3, <1>4, <1>6 DEF StackInv, BaseOK, CounterOK, Counted
<1> QED BY <1>1, <1>2, <1>3, <1>5, <1>7, <1>8, <1>9, <1>10 DEF StackInv, IsMsat

(* and down together; MathSAT has what the client pops.                     *)
LEMMA PopStack ==
  ASSUME StackInv, NEW n \in 1 .. MaxDepth, pop(n) \/ msat_pop(n)
  PROVE  StackInv'
<1>1. n \in Nat /\ n > 0 /\ depth \in Nat /\ context_level \in Nat /\ Len(trail) \in Nat
      /\ MaxDepth \in Nat /\ MaxLevel \in Nat /\ Len(trail) > 0
  BY Basics
<1>2. trail' = Closed(n, trail) /\ depth' = depth - n /\ n <= depth
      /\ UNCHANGED <<backend, base_context_1, base_assertions_, drift>>
  BY DEF pop, msat_pop, msat, counters
<1>3. n < Len(trail)
  <2>1. CASE IsMsat
    <3>1. depth < Len(trail)
      BY <2>1 DEF StackInv, CounterOK
    <3> QED BY <1>1, <1>2, <3>1
  <2>2. CASE ~IsMsat
    BY <2>2 DEF pop, msat_pop
  <2> QED BY <2>1, <2>2
<1>4. /\ trail' \in Trails
      /\ Len(trail') = Len(trail) - n
      /\ \A i \in 1 .. Len(trail) - n : trail'[i] = trail[i]
  BY <1>1, <1>2, <1>3, ClosedLevels, Basics DEF Trails
<1>5. trail'[1] = trail[1]
  BY <1>1, <1>3, <1>4
<1>6. /\ clauses' \in ClauseStacks
      /\ IsMsat => Len(clauses') = Len(clauses) - n
  <2>1. CASE IsMsat
    <3>1. clauses' = Closed(n, clauses)
      BY <2>1 DEF pop, msat_pop, Counted, IsMsat
    <3>2. clauses \in Seq(SUBSET Formulas) /\ Len(clauses) = Len(trail)
      BY <2>1 DEF StackInv, ClauseStacks
    <3> QED BY <1>1, <1>3, <3>1, <3>2, ClosedLevels DEF ClauseStacks
  <2>2. CASE ~IsMsat
    BY <2>2 DEF pop, msat_pop, StackInv, msat
  <2> QED BY <2>1, <2>2
<1>7. /\ Counted => context_level' = context_level - n
      /\ ~Counted => context_level' = context_level
  BY DEF pop, msat_pop, Counted, IsMsat, counters
<1>8. context_level' \in 0 .. MaxLevel /\ depth' \in 0 .. MaxDepth
  BY <1>1, <1>2, <1>7 DEF StackInv, CounterOK
<1>9. CounterOK'
  BY <1>1, <1>2, <1>4, <1>7 DEF StackInv, CounterOK, Counted, IsMsat
<1>10. LevelRight'
  BY <1>1, <1>2, <1>7 DEF StackInv, LevelRight, Counted
<1>11. BaseOK'
  BY <1>1, <1>2, <1>4, <1>5, <1>7 DEF StackInv, BaseOK, CounterOK, Counted
<1> QED BY <1>1, <1>2, <1>3, <1>4, <1>6, <1>8, <1>9, <1>10, <1>11 DEF StackInv, IsMsat

(* Queries of the back ends with a counter, and the core of one.           *)
LEMMA SameStack ==
  ASSUME StackInv,
         UNCHANGED <<backend, trail, context_level, base_context_1, clauses,
                     base_assertions_, depth, drift>>
  PROVE  StackInv'
BY DEF StackInv, CounterOK, BaseOK, LevelRight, Counted, IsMsat

(* One level without assertions: the resets and set_logic.                 *)
LEMMA EmptyStack ==
  /\ <<Models>> \in Trails /\ Len(<<Models>>) = 1 /\ <<Models>>[1] = Models
  /\ <<{}>> \in ClauseStacks /\ Len(<<{}>>) = 1
BY DEF Trails, ClauseStacks

(* A reset above level 0 and set_logic leave the counter behind, and say so *)
(* in drift.                                                                *)
LEMMA ResetStack ==
  ASSUME StackInv, btor_reset \/ cvc5_reset_assertions \/ z3_reset \/ z3_set_logic
  PROVE  StackInv'
<1>1. /\ trail' = <<Models>>
      /\ UNCHANGED <<backend, context_level, base_context_1, clauses, base_assertions_>>
      /\ backend \in {"btor", "cvc5", "z3"}
      /\ drift \subseteq drift'
  BY DEF btor_reset, cvc5_reset_assertions, z3_reset, z3_set_logic, counters, msat
<1>2. context_level \in Nat /\ depth \in Nat /\ MaxDepth \in Nat
  BY Basics
<1>3. CASE z3_set_logic
  <2>1. depth' = depth /\ ("late_option" \notin drift' => trail = <<Models>>)
        /\ backend = "z3"
    BY <1>3 DEF z3_set_logic
  <2>2. "late_option" \notin drift' => depth' < 1
    BY <1>1, <2>1, EmptyStack DEF StackInv
  <2>3. LevelRight'
    BY <1>1, <2>1 DEF StackInv, LevelRight, Counted
  <2>4. CounterOK'
    BY <1>1, <2>1 DEF StackInv, CounterOK, Counted, IsMsat
  <2>5. BaseOK'
    BY <1>1, <2>1, EmptyStack DEF StackInv, BaseOK
  <2> QED BY <1>1, <2>1, <2>2, <2>3, <2>4, <2>5, EmptyStack DEF StackInv, IsMsat
<1>4. CASE ~z3_set_logic
  <2>1. depth' = 0 /\ (context_level > 0 => "level" \in drift')
        /\ drift' \subseteq drift \cup {"level"}
    BY <1>4 DEF btor_reset, cvc5_reset_assertions, z3_reset
  <2>2. LevelRight'
    <3> SUFFICES ASSUME drift' = {}
                 PROVE  context_level = 0 + IF base_context_1 THEN 1 ELSE 0
      BY <1>1, <2>1 DEF LevelRight
    <3>1. context_level = 0
      BY <1>2, <2>1
    <3>2. ~base_context_1
      BY <1>1, <1>2, <3>1 DEF StackInv, CounterOK, Counted
    <3> QED BY <3>1, <3>2
  <2>3. CounterOK'
    BY <1>1, <1>2, <2>1, EmptyStack DEF StackInv, CounterOK, Counted, IsMsat
  <2>4. BaseOK'
    BY <1>1, <2>1, EmptyStack DEF StackInv, BaseOK
  <2> QED BY <1>1, <1>2, <2>1, <2>2, <2>3, <2>4, EmptyStack DEF StackInv, IsMsat
<1> QED BY <1>3, <1>4

(* Boolector's base context is one level more, on the count too.            *)
LEMMA SetOptStack ==
  ASSUME StackInv, btor_set_opt
  PROVE  StackInv'
<1>1. /\ backend = "btor" /\ context_level < MaxLevel
      /\ base_context_1' = TRUE
      /\ trail' = Append(trail, Top)
      /\ context_level' = context_level + 1
      /\ UNCHANGED <<backend, clauses, base_assertions_, depth>>
      /\ drift \subseteq drift'
      /\ "late_option" \notin drift' => trail = <<Models>> /\ "late_option" \notin drift
      /\ drift' = {} => ~base_context_1
  BY DEF btor_set_opt, msat
<1>2. /\ context_level \in Nat /\ depth \in Nat /\ MaxLevel \in Nat
      /\ Len(trail) \in Nat /\ Len(trail) > 0
  BY Basics
<1>3. /\ trail' \in Trails /\ Len(trail') = Len(trail) + 1
      /\ trail'[1] = trail[1]
  <2>1. 1 \in 1 .. Len(trail)
    BY <1>2
  <2> QED BY <1>1, <2>1, AppendProperties, Basics DEF Trails
<1>4. LevelRight'
  <2> SUFFICES ASSUME drift' = {} PROVE context_level' = depth + 1
    BY <1>1 DEF LevelRight
  <2>1. drift = {} /\ ~base_context_1
    BY <1>1
  <2> QED BY <1>1, <1>2, <2>1 DEF StackInv, LevelRight, Counted
<1>5. CounterOK'
  BY <1>1, <1>2, <1>3 DEF StackInv, CounterOK, Counted, IsMsat
<1>6. BaseOK'
  BY <1>1, <1>2, <1>3, EmptyStack DEF StackInv, BaseOK
<1> QED BY <1>1, <1>2, <1>3, <1>4, <1>5, <1>6 DEF StackInv, IsMsat

(* Sweeping the assumption clauses leaves a stack of the same height, and  *)
(* the trail as it was unless MathSAT was reset with assertions.           *)
LEMMA Swept ==
  ASSUME StackInv, IsMsat
  PROVE  /\ clear_assumption_clauses.trail \in Trails
         /\ Len(clear_assumption_clauses.trail) = Len(trail)
         /\ clear_assumption_clauses.clauses \in ClauseStacks
         /\ Len(clear_assumption_clauses.clauses) = Len(trail)
         /\ backend = "msat" /\ "stale_base" \notin drift
              => clear_assumption_clauses.trail = trail
<1>1. /\ trail \in Trails /\ clauses \in ClauseStacks /\ Len(clauses) = Len(trail)
      /\ base_assertions_ \in SUBSET Models
      /\ backend = "msat" /\ "stale_base" \notin drift => trail[1] = base_assertions_
  BY DEF StackInv, BaseOK
<1>2. CASE Sweep
  <2>1. /\ clear_assumption_clauses.trail = <<base_assertions_>>
        /\ clear_assumption_clauses.clauses = <<{}>>
    BY <1>2 DEF clear_assumption_clauses
  <2>2. Len(trail) = 1
    BY <1>2 DEF Sweep
  <2>3. /\ <<base_assertions_>> \in Trails /\ Len(<<base_assertions_>>) = 1
        /\ <<base_assertions_>>[1] = base_assertions_
    BY <1>1 DEF Trails
  <2>4. trail[1] = base_assertions_ => trail = <<base_assertions_>>
    <3> SUFFICES ASSUME trail[1] = base_assertions_
                 PROVE  trail = <<base_assertions_>>
      OBVIOUS
    <3> DEFINE u == <<base_assertions_>>
    <3>1. u \in Seq(SUBSET Models) /\ Len(u) = 1 /\ u[1] = base_assertions_
      BY <2>3 DEF Trails
    <3> HIDE DEF u
    <3>2. \A i \in 1 .. Len(trail) : trail[i] = u[i]
      BY <2>2, <3>1
    <3>3. trail \in Seq(SUBSET Models)
      BY <1>1 DEF Trails
    <3>4. trail = u
      BY <2>2, <3>1, <3>2, <3>3, SeqEqual
    <3> QED BY <3>4 DEF u
  <2> QED BY <1>1, <2>1, <2>2, <2>3, <2>4, EmptyStack
<1>3. CASE ~Sweep
  <2>1. /\ clear_assumption_clauses.trail = trail
        /\ clear_assumption_clauses.clauses = clauses
    BY <1>3 DEF clear_assumption_clauses
  <2> QED BY <1>1, <2>1
<1> QED BY <1>2, <1>3

(* A call of MathSAT's wrapper that starts with a sweep.                    *)
LEMMA SweptStack ==
  ASSUME StackInv, IsMsat,
         trail' = clear_assumption_clauses.trail,
         clauses' \in ClauseStacks, Len(clauses') = Len(trail),
         UNCHANGED <<backend, counters, base_assertions_, depth, drift>>
  PROVE  StackInv'
<1>1. /\ trail' \in Trails /\ Len(trail') = Len(trail)
      /\ backend = "msat" /\ "stale_base" \notin drift => trail' = trail
  BY Swept
<1>2. UNCHANGED <<context_level, base_context_1>> /\ ~base_context_1 /\ ~Counted
  BY DEF counters, StackInv, CounterOK, IsMsat, Counted
<1>3. CounterOK' /\ LevelRight'
  BY <1>1, <1>2 DEF StackInv, CounterOK, LevelRight, Counted, IsMsat
<1>4. BaseOK'
  BY <1>1, <1>2 DEF StackInv, BaseOK
<1> QED BY <1>1, <1>2, <1>3, <1>4 DEF StackInv, IsMsat

(* An assumption's clause goes to the top level.                           *)
LEMMA HeldClauses ==
  ASSUME StackInv, IsMsat, NEW A \in Assumptions
  PROVE  LET c == clear_assumption_clauses.clauses
             top == Len(clear_assumption_clauses.trail)
             held == [c EXCEPT ![top] = @ \cup A]
         IN  /\ held \in ClauseStacks /\ Len(held) = Len(trail)
             /\ top \in 1 .. top /\ A \subseteq held[top]
<1> DEFINE c == clear_assumption_clauses.clauses
           top == Len(clear_assumption_clauses.trail)
           new == c[top] \cup A
           S == SUBSET Formulas
<1>1. /\ c \in Seq(S) /\ Len(c) = Len(trail) /\ top = Len(trail)
  BY Swept DEF ClauseStacks
<1>2. Len(trail) \in Nat /\ Len(trail) > 0
  BY Basics
<1> HIDE DEF c, top
<1>3. top \in 1 .. Len(c) /\ top \in 1 .. top
  BY <1>1, <1>2
<1>4. new \in S
  <2>1. c[top] \in S
    BY <1>1, <1>3, ElementOfSeq
  <2>2. A \subseteq Formulas
    BY BackendAssumption DEF BackendAssumption
  <2> QED BY <2>1, <2>2
<1> HIDE DEF new, S
<1> DEFINE held == [c EXCEPT ![top] = new]
<1>5. held \in Seq(S) /\ Len(held) = Len(c) /\ held[top] = new
  BY <1>1, <1>3, <1>4, ExceptSeq
<1> QED BY <1>1, <1>3, <1>5 DEF c, top, new, S, ClauseStacks

(* Its queries with assumptions,                                            *)
LEMMA MsatQueryStack ==
  ASSUME StackInv, NEW A \in Assumptions,
         msat_check_sat_assuming(A) \/ msat_check_sat_assuming_list(A)
  PROVE  StackInv'
<1>1. IsMsat /\ check_sat_assuming_msatvec(clear_assumption_clauses, A)
  BY DEF msat_check_sat_assuming, msat_check_sat_assuming_list, IsMsat
<1>2. /\ trail' = clear_assumption_clauses.trail
      /\ UNCHANGED <<backend, counters, base_assertions_, depth, drift>>
      /\ clauses' = [clear_assumption_clauses.clauses EXCEPT
                        ![Len(clear_assumption_clauses.trail)] = @ \cup A]
  BY <1>1 DEF check_sat_assuming_msatvec
<1>3. clauses' \in ClauseStacks /\ Len(clauses') = Len(trail)
  BY <1>1, <1>2, HeldClauses
<1> QED BY <1>1, <1>2, <1>3, SweptStack

(* those without, and those it refuses after the sweep.                     *)
LEMMA MsatSweepStack ==
  ASSUME StackInv, msat_check_sat \/ \E A \in Assumptions : msat_refuse_list(A)
  PROVE  StackInv'
<1>1. /\ IsMsat
      /\ trail' = clear_assumption_clauses.trail
      /\ clauses' = clear_assumption_clauses.clauses
      /\ UNCHANGED <<backend, counters, base_assertions_, depth, drift>>
  BY DEF msat_check_sat, msat_refuse_list, IsMsat
<1>2. clauses' \in ClauseStacks /\ Len(clauses') = Len(trail)
  BY <1>1, Swept
<1> QED BY <1>1, <1>2, SweptStack

(* A new environment has one level; only reset keeps base assertions that   *)
(* it no longer has.                                                        *)
LEMMA MsatResetStack ==
  ASSUME StackInv,
         \/ msat_reset_assertions \/ msat_reset
         \/ \E A, B \in Formulas : get_interpolant(A, B)
  PROVE  StackInv'
<1>1. /\ IsMsat
      /\ clauses' = <<{}>> /\ depth' = 0
      /\ UNCHANGED <<backend, context_level, base_context_1>>
      /\ drift' \subseteq drift \cup {"stale_base"} /\ drift \subseteq drift'
  BY DEF msat_reset_assertions, msat_reset, get_interpolant, counters, IsMsat
<1>2. /\ Len(trail') = 1 /\ trail' \in Trails
      /\ base_assertions_' \in SUBSET Models
      /\ backend = "msat" /\ "stale_base" \notin drift' => trail'[1] = base_assertions_'
  <2>1. CASE msat_reset_assertions
    BY <2>1, EmptyStack DEF msat_reset_assertions
  <2>2. CASE msat_reset
    BY <2>2, EmptyStack DEF msat_reset, StackInv, BaseOK
  <2>3. CASE \E A, B \in Formulas : get_interpolant(A, B)
    <3>1. PICK A \in Formulas, B \in Formulas : get_interpolant(A, B)
      BY <2>3
    <3>2. A \cap B \in SUBSET Models
      BY BackendAssumption DEF BackendAssumption
    <3>3. <<A \cap B>> \in Trails /\ Len(<<A \cap B>>) = 1
      BY <3>2 DEF Trails
    <3> QED BY <3>1, <3>3 DEF get_interpolant, StackInv, BaseOK
  <2> QED BY <2>1, <2>2, <2>3
<1>3. MaxDepth \in Nat /\ ~Counted /\ ~base_context_1
  BY <1>1, Basics DEF StackInv, CounterOK, IsMsat, Counted
<1>4. CounterOK' /\ LevelRight'
  BY <1>1, <1>2, <1>3 DEF StackInv, CounterOK, LevelRight, Counted, IsMsat
<1>5. BaseOK'
  BY <1>1, <1>2, <1>3 DEF BaseOK
<1> QED BY <1>1, <1>2, <1>3, <1>4, <1>5, EmptyStack DEF StackInv, IsMsat

(* Boolector's reset_assertions comes back to its base context, which is   *)
(* where the wrapper's count says it is.                                   *)
LEMMA BaseContext ==
  ASSUME StackInv, btor_reset_assertions
  PROVE  /\ trail' \in Trails /\ Len(trail') = 2
         /\ trail'[1] = trail[1] /\ trail'[2] = trail[1]
         /\ Len(trail) = context_level + 1 /\ context_level >= 1
<1> DEFINE below == Closed(context_level, trail)
<1>1. /\ backend = "btor" /\ base_context_1 /\ context_level < Len(trail)
      /\ trail' = Append(below, below[Len(below)])
  BY DEF btor_reset_assertions
<1>2. /\ context_level \in Nat /\ depth \in Nat /\ Len(trail) \in Nat
      /\ trail \in Trails /\ trail[1] \in SUBSET Models
  BY Basics
<1>3. Len(trail) = context_level + 1 /\ context_level >= 1
  BY <1>1, <1>2 DEF StackInv, CounterOK, Counted
<1>4. /\ below \in Seq(SUBSET Models) /\ Len(below) = 1
      /\ below[1] = trail[1]
  <2>1. /\ Closed(context_level, trail) \in Seq(SUBSET Models)
        /\ Len(Closed(context_level, trail)) = Len(trail) - context_level
        /\ \A i \in 1 .. Len(trail) - context_level : Closed(context_level, trail)[i] = trail[i]
    BY <1>1, <1>2, ClosedLevels DEF Trails
  <2> QED BY <1>2, <1>3, <2>1
<1> HIDE DEF below
<1> DEFINE base == trail[1]
<1>5. base \in SUBSET Models /\ trail' = Append(below, base)
  BY <1>1, <1>2, <1>4
<1>6. /\ Append(below, base) \in Seq(SUBSET Models)
      /\ Len(Append(below, base)) = 2
      /\ Append(below, base)[1] = below[1] /\ Append(below, base)[2] = base
  <2> HIDE DEF base
  <2> DEFINE S == SUBSET Models
  <2>1. below \in Seq(S) /\ base \in S
    BY <1>4, <1>5
  <2> HIDE DEF S
  <2> DEFINE u == Append(below, base)
  <2>2. /\ u \in Seq(S) /\ Len(u) = Len(below) + 1
        /\ \A i \in 1 .. Len(below) : u[i] = below[i]
        /\ u[Len(below) + 1] = base
    BY <2>1, AppendProperties
  <2> HIDE DEF u
  <2>3. u \in Seq(S) /\ Len(u) = 2 /\ u[1] = below[1] /\ u[2] = base
    BY <1>4, <2>2
  <2> QED BY <2>3 DEF S, u
<1> QED BY <1>3, <1>4, <1>5, <1>6 DEF Trails

(* The wrapper's count is right again after Boolector's reset_assertions.   *)
LEMMA ResetAssertionsStack ==
  ASSUME StackInv, btor_reset_assertions
  PROVE  StackInv'
<1>1. /\ backend = "btor" /\ base_context_1
      /\ context_level' = 1 /\ depth' = 0
      /\ UNCHANGED <<backend, base_context_1, clauses, base_assertions_, drift>>
  BY DEF btor_reset_assertions, msat
<1>2. /\ trail' \in Trails /\ Len(trail') = 2
      /\ trail'[1] = trail[1]
      /\ Len(trail) = context_level + 1 /\ context_level >= 1
  BY BaseContext
<1>3. MaxLevel \in Nat /\ MaxDepth \in Nat /\ context_level \in Nat
  BY Basics
<1>4. context_level' \in 0 .. MaxLevel
  BY <1>1, <1>2, <1>3 DEF StackInv
<1>5. CounterOK' /\ LevelRight'
  BY <1>1, <1>2 DEF StackInv, CounterOK, LevelRight, Counted, IsMsat
<1>6. BaseOK'
  BY <1>1, <1>2 DEF StackInv, BaseOK
<1> QED BY <1>1, <1>2, <1>3, <1>4, <1>5, <1>6 DEF StackInv, IsMsat

(* A query of the back ends with a counter, the core of one, no call.      *)
LEMMA QuietStack ==
  ASSUME StackInv,
         \/ check_sat \/ \E A \in Assumptions : check_sat_assuming(A)
         \/ get_unsat_assumptions \/ UNCHANGED vars
  PROVE  StackInv'
<1>1. UNCHANGED <<backend, trail, context_level, base_context_1, clauses,
                  base_assertions_, depth, drift>>
  BY DEF check_sat, check_sat_assuming, Query, get_unsat_assumptions, vars, counters, msat
<1> QED BY <1>1, SameStack

(* Every call keeps the stack as its wrapper believes it to be.            *)
LEMMA NextStack ==
  ASSUME StackInv, [Next]_vars
  PROVE  StackInv'
<1>1. ASSUME NEW f \in Formulas, assert_formula(f) \/ msat_assert_formula(f)
      PROVE  StackInv'
  BY <1>1, AssertStack
<1>2. ASSUME NEW n \in 1 .. MaxDepth, push(n) \/ msat_push(n)
      PROVE  StackInv'
  BY <1>2, PushStack
<1>3. ASSUME NEW n \in 1 .. MaxDepth, pop(n) \/ msat_pop(n)
      PROVE  StackInv'
  BY <1>3, PopStack
<1>4. ASSUME NEW A \in Assumptions, msat_check_sat_assuming(A) \/ msat_check_sat_assuming_list(A)
      PROVE  StackInv'
  BY <1>4, MsatQueryStack
<1>5. CASE check_sat \/ (\E A \in Assumptions : check_sat_assuming(A))
           \/ get_unsat_assumptions \/ UNCHANGED vars
  BY <1>5, QuietStack
<1>6. CASE btor_reset \/ cvc5_reset_assertions \/ Z3Solver
  BY <1>6, ResetStack DEF Z3Solver
<1>7. CASE btor_set_opt
  BY <1>7, SetOptStack
<1>8. CASE btor_reset_assertions
  BY <1>8, ResetAssertionsStack
<1>9. CASE msat_check_sat \/ \E A \in Assumptions : msat_refuse_list(A)
  BY <1>9, MsatSweepStack
<1>10. CASE msat_reset_assertions \/ msat_reset \/ \E A, B \in Formulas : get_interpolant(A, B)
  BY <1>10, MsatResetStack
<1>11. CASE MsatSolver
  BY <1>1, <1>2, <1>3, <1>4, <1>9, <1>10, <1>11 DEF MsatSolver
<1> QED BY <1>1, <1>2, <1>3, <1>5, <1>6, <1>7, <1>8, <1>11 DEF Next, BoolectorSolver

-----------------------------------------------------------------------------
(* The last query, its answer and its core *)

(* Nothing has been asked of a new solver.                                  *)
LEMMA InitQuery == Init => QueryInv
BY DEF Init, QueryInv, CoreRight, InterpolantsIndependent, Nothing, IsMsat

(* The next call, whatever it is, forgets query and core.                  *)
LEMMA ForgottenQuery ==
  ASSUME QueryInv, Forgotten, UNCHANGED <<backend, last_query_assuming>>
  PROVE  QueryInv'
<1>1. /\ query' = Nothing /\ core' = Nothing
      /\ UNCHANGED <<native, answer, backend, last_query_assuming>>
  BY DEF Forgotten
<1>2. Nothing.kind = "none" /\ Nothing.of = {}
  BY DEF Nothing
<1>3. CoreRight' /\ InterpolantsIndependent'
  BY <1>1, <1>2 DEF CoreRight, InterpolantsIndependent
<1> QED BY <1>1, <1>2, <1>3 DEF QueryInv

(* A query for which the solver assumed N, a part of what was asked.       *)
LEMMA AnsweredQuery ==
  ASSUME QueryInv, NEW left, NEW N, NEW of, NEW kind,
         Answered(left, N), N \subseteq Formulas, N \subseteq of,
         query' = [kind |-> kind, of |-> of], kind # "interpolant",
         UNCHANGED backend, last_query_assuming' \in BOOLEAN,
         kind = "vector" /\ backend \in {"msat", "z3"} => last_query_assuming'
  PROVE  QueryInv'
<1>1. /\ native' = N /\ core' = Nothing
      /\ answer' \in {"none", "sat", "unsat", "unknown"}
  BY DEF Answered
<1>2. query'.kind = kind /\ query'.of = of
  OBVIOUS
<1>3. Nothing.kind = "none" /\ Nothing.of = {}
  BY DEF Nothing
<1>4. CoreRight' /\ InterpolantsIndependent'
  BY <1>1, <1>2, <1>3 DEF CoreRight, InterpolantsIndependent
<1> QED BY <1>1, <1>2, <1>3, <1>4 DEF QueryInv

(* The queries of the back ends with a counter assume what is asked.        *)
LEMMA CountedQuery ==
  ASSUME QueryInv, NEW A \in SUBSET Formulas, NEW kind \in {"check", "vector", "list"},
         Query(kind, A)
  PROVE  QueryInv'
<1>1. Answered(Top, A) /\ query' = [kind |-> kind, of |-> A] /\ UNCHANGED backend
  BY DEF Query
<1>2. CASE backend = "z3"
  <2>1. last_query_assuming' = (kind # "check")
    BY <1>2 DEF Query
  <2>2. last_query_assuming' \in BOOLEAN /\ (kind = "vector" => last_query_assuming')
    BY <2>1
  <2> QED BY <1>1, <2>2, AnsweredQuery
<1>3. CASE backend # "z3"
  <2>1. UNCHANGED last_query_assuming /\ backend # "msat"
    BY <1>3 DEF Query, Counted
  <2>2. last_query_assuming' \in BOOLEAN
    BY <2>1 DEF QueryInv
  <2> QED BY <1>1, <1>3, <2>1, <2>2, AnsweredQuery
<1> QED BY <1>2, <1>3

(* MathSAT assumes those labels that have a clause.                         *)
LEMMA MsatQuery ==
  ASSUME QueryInv,
         \/ msat_check_sat
         \/ \E A \in Assumptions : msat_check_sat_assuming(A) \/ msat_check_sat_assuming_list(A)
  PROVE  QueryInv'
<1>1. CASE msat_check_sat
  <2> DEFINE left == clear_assumption_clauses.trail[Len(clear_assumption_clauses.trail)]
  <2>1. /\ Answered(left, {}) /\ query' = [kind |-> "check", of |-> {}]
        /\ UNCHANGED backend /\ last_query_assuming' = FALSE
    BY <1>1 DEF msat_check_sat
  <2> HIDE DEF left
  <2>2. last_query_assuming' \in BOOLEAN
    BY <2>1
  <2>3. {} \subseteq Formulas /\ {} \subseteq {} /\ "check" # "vector" /\ "check" # "interpolant"
    OBVIOUS
  <2> QED BY <2>1, <2>2, <2>3, AnsweredQuery
<1>2. ASSUME NEW A \in Assumptions,
             msat_check_sat_assuming(A) \/ msat_check_sat_assuming_list(A)
      PROVE  QueryInv'
  <2> DEFINE top == Len(clear_assumption_clauses.trail)
             held == [clear_assumption_clauses.clauses EXCEPT ![top] = @ \cup A]
             left == clear_assumption_clauses.trail[top]
             N == {a \in A : \E i \in 1 .. top : a \in held[i]}
  <2>1. Answered(left, N) /\ UNCHANGED backend
    BY <1>2 DEF msat_check_sat_assuming, msat_check_sat_assuming_list,
                check_sat_assuming_msatvec
  <2>2. N \subseteq A /\ A \subseteq Formulas
    BY BackendAssumption DEF BackendAssumption
  <2> HIDE DEF N, left, held, top
  <2>3. CASE msat_check_sat_assuming(A)
    <3>1. query' = [kind |-> "vector", of |-> A] /\ last_query_assuming' = TRUE
      BY <2>3 DEF msat_check_sat_assuming
    <3> QED BY <2>1, <2>2, <3>1, AnsweredQuery
  <2>4. CASE msat_check_sat_assuming_list(A)
    <3>1. query' = [kind |-> "list", of |-> A] /\ UNCHANGED last_query_assuming
      BY <2>4 DEF msat_check_sat_assuming_list
    <3>2. last_query_assuming' \in BOOLEAN
      BY <3>1 DEF QueryInv
    <3> QED BY <2>1, <2>2, <3>1, <3>2, AnsweredQuery
  <2> QED BY <1>2, <2>3, <2>4
<1> QED BY <1>1, <1>2

(* The environment of an interpolation query holds its formulas only.       *)
LEMMA InterpolantQuery ==
  ASSUME QueryInv, NEW A \in Formulas, NEW B \in Formulas, get_interpolant(A, B)
  PROVE  QueryInv'
<1>1. /\ native' = {} /\ core' = Nothing
      /\ answer' \in {"unknown", IF (A \cap B) \cap Meet({}) = {} THEN "unsat" ELSE "sat"}
      /\ query' = [kind |-> "interpolant", of |-> {A, B}]
      /\ UNCHANGED <<backend, last_query_assuming>>
  BY DEF get_interpolant, Answered
<1>2. query'.kind = "interpolant" /\ query'.of = {A, B}
  BY <1>1
<1>3. A \subseteq Models /\ B \subseteq Models
  BY BackendAssumption DEF BackendAssumption
<1>4. (A \cap B) \cap Meet({}) = Meet({A, B})
  BY <1>3 DEF Meet
<1>5. Nothing.kind = "none" /\ Nothing.of = {}
  BY DEF Nothing
<1>6. CoreRight'
  BY <1>1, <1>5 DEF CoreRight
<1>7. InterpolantsIndependent'
  BY <1>1, <1>2, <1>4 DEF InterpolantsIndependent, Meet
<1>8. answer' \in {"none", "sat", "unsat", "unknown"}
  BY <1>1
<1> QED BY <1>1, <1>2, <1>5, <1>6, <1>7, <1>8 DEF QueryInv

(* The core: a part of what the solver assumed, hence of what was asked.   *)
LEMMA CoreQuery ==
  ASSUME QueryInv, get_unsat_assumptions
  PROVE  QueryInv'
<1>1. /\ query # Nothing
      /\ UNCHANGED <<backend, trail, last_query_assuming, native, query, answer>>
  BY DEF get_unsat_assumptions, asked
<1>2. native \subseteq Formulas /\ native \subseteq query.of
  BY <1>1 DEF QueryInv
<1>3. /\ core'.kind \in {"none", "threw", "core"} /\ core'.of \subseteq Formulas
      /\ CoreRight'
  <2>1. CASE Refuses /\ core' = Threw
    <3>1. core'.kind = "threw" /\ core'.of = {}
      BY <2>1 DEF Threw
    <3>2. query.kind # "vector"
      BY <2>1 DEF Refuses, QueryInv
    <3> QED BY <1>1, <3>1, <3>2 DEF CoreRight
  <2>2. CASE \E C \in SUBSET native :
               /\ Top \cap Meet(C) = {}
               /\ core' = [kind |-> "core", of |-> C]
    <3>1. PICK C \in SUBSET native :
               /\ Top \cap Meet(C) = {}
               /\ core' = [kind |-> "core", of |-> C]
      BY <2>2
    <3>2. core'.kind = "core" /\ core'.of = C
      BY <3>1
    <3>3. Top' = Top
      BY <1>1 DEF Top
    <3> QED BY <1>1, <1>2, <3>1, <3>2, <3>3 DEF CoreRight, Meet
  <2> QED BY <2>1, <2>2 DEF get_unsat_assumptions
<1>4. InterpolantsIndependent'
  BY <1>1 DEF QueryInv, InterpolantsIndependent, Meet
<1> QED BY <1>1, <1>3, <1>4 DEF QueryInv

(* Every call but a query and the core of one.                             *)
LEMMA OtherQuery ==
  ASSUME QueryInv,
         \/ \E f \in Formulas : assert_formula(f) \/ msat_assert_formula(f)
         \/ \E n \in 1 .. MaxDepth : push(n) \/ pop(n) \/ msat_push(n) \/ msat_pop(n)
         \/ BoolectorSolver \/ cvc5_reset_assertions \/ Z3Solver
         \/ \E A \in Assumptions : msat_refuse_list(A)
         \/ msat_reset_assertions \/ msat_reset
  PROVE  QueryInv'
<1>1. Forgotten /\ UNCHANGED <<backend, last_query_assuming>>
  BY DEF assert_formula, msat_assert_formula, push, pop, msat_push, msat_pop,
         BoolectorSolver, btor_set_opt, btor_reset_assertions, btor_reset,
         cvc5_reset_assertions, Z3Solver, z3_reset, z3_set_logic,
         msat_refuse_list, msat_reset_assertions, msat_reset
<1> QED BY <1>1, ForgottenQuery

(* Every call keeps what is known of the last query.                        *)
LEMMA NextQuery ==
  ASSUME QueryInv, [Next]_vars
  PROVE  QueryInv'
<1>1. CASE check_sat
  BY <1>1, CountedQuery DEF check_sat
<1>2. ASSUME NEW A \in Assumptions, check_sat_assuming(A)
      PROVE  QueryInv'
  <2>1. A \in SUBSET Formulas
    BY BackendAssumption DEF BackendAssumption
  <2>2. PICK kind \in {"vector", "list"} : Query(kind, A)
    BY <1>2 DEF check_sat_assuming
  <2> QED BY <2>1, <2>2, CountedQuery
<1>3. CASE \/ msat_check_sat
           \/ \E A \in Assumptions : msat_check_sat_assuming(A) \/ msat_check_sat_assuming_list(A)
  BY <1>3, MsatQuery
<1>4. ASSUME NEW A \in Formulas, NEW B \in Formulas, get_interpolant(A, B)
      PROVE  QueryInv'
  BY <1>4, InterpolantQuery
<1>5. CASE get_unsat_assumptions
  BY <1>5, CoreQuery
<1>6. CASE UNCHANGED vars
  <2>1. UNCHANGED <<backend, trail, native, last_query_assuming, query, answer, core>>
    BY <1>6 DEF vars, asked
  <2>2. CoreRight' /\ InterpolantsIndependent'
    BY <2>1 DEF QueryInv, CoreRight, InterpolantsIndependent, Top, Meet
  <2> QED BY <2>1, <2>2 DEF QueryInv
<1>7. CASE \/ \E f \in Formulas : assert_formula(f) \/ msat_assert_formula(f)
           \/ \E n \in 1 .. MaxDepth : push(n) \/ pop(n) \/ msat_push(n) \/ msat_pop(n)
           \/ BoolectorSolver \/ cvc5_reset_assertions \/ Z3Solver
           \/ \E A \in Assumptions : msat_refuse_list(A)
           \/ msat_reset_assertions \/ msat_reset
  BY <1>7, OtherQuery
<1>8. CASE MsatSolver
  BY <1>3, <1>4, <1>7, <1>8 DEF MsatSolver
<1> QED BY <1>1, <1>2, <1>5, <1>6, <1>7, <1>8 DEF Next


-----------------------------------------------------------------------------
(* Refinement *)

(* Two sequences of levels with the same levels are one.                   *)
LEMMA SameLevels ==
  ASSUME NEW S, NEW s \in Seq(S), NEW t \in Seq(S), Len(s) = Len(t),
         \A i \in 1 .. Len(s) : s[i] = t[i]
  PROVE  s = t
BY SeqEqual

(* The upper d + 1 elements of a sequence.                                 *)
LEMMA UpperLevels ==
  ASSUME NEW S, NEW s \in Seq(S), NEW d \in Nat, d < Len(s)
  PROVE  /\ SubSeq(s, Len(s) - d, Len(s)) \in Seq(S)
         /\ Len(SubSeq(s, Len(s) - d, Len(s))) = d + 1
         /\ \A i \in 1 .. d + 1 : SubSeq(s, Len(s) - d, Len(s))[i] = s[Len(s) - d - 1 + i]
<1>1. Len(s) \in Nat
  OBVIOUS
<1> DEFINE m == Len(s) - d
           u == SubSeq(s, m, Len(s))
<1>2. m \in Int /\ Len(s) \in Int /\ m >= 1 /\ m <= Len(s)
  BY <1>1
<1>3. \A i \in m .. Len(s) : s[i] \in S
  <2> SUFFICES ASSUME NEW i \in m .. Len(s) PROVE s[i] \in S
    OBVIOUS
  <2>1. i \in 1 .. Len(s)
    BY <1>1, <1>2
  <2> QED BY <2>1, ElementOfSeq
<1>4. /\ u \in Seq(S)
      /\ Len(u) = IF m <= Len(s) THEN Len(s) - m + 1 ELSE 0
      /\ \A i \in 1 .. Len(s) - m + 1 : u[i] = s[m + i - 1]
  <2> HIDE DEF m
  <2> QED BY <1>2, <1>3, SubSeqProperties
<1>5. Len(s) - m + 1 = d + 1 /\ m <= Len(s)
  BY <1>1
<1>6. \A i \in 1 .. d + 1 : m + i - 1 = Len(s) - d - 1 + i
  BY <1>1
<1>7. Len(u) = d + 1
  BY <1>4, <1>5
<1>8. \A i \in 1 .. d + 1 : u[i] = s[m + i - 1]
  <2> HIDE DEF m, u
  <2> QED BY <1>4, <1>5
<1> QED BY <1>4, <1>6, <1>7, <1>8

(* The client's levels: the upper ones of the wrapped solver.              *)
LEMMA LevelsShape ==
  ASSUME StackInv, depth < Len(trail)
  PROVE  /\ Levels \in Trails
         /\ Len(Levels) = depth + 1
         /\ \A i \in 1 .. depth + 1 : Levels[i] = trail[Len(trail) - depth - 1 + i]
<1>1. trail \in Seq(SUBSET Models) /\ depth \in Nat
  BY Basics DEF Trails
<1> DEFINE S == SUBSET Models
<1> HIDE DEF S
<1>2. trail \in Seq(S)
  BY <1>1 DEF S
<1> DEFINE u == SubSeq(trail, Len(trail) - depth, Len(trail))
<1>3. /\ u \in Seq(S) /\ Len(u) = depth + 1
      /\ \A i \in 1 .. depth + 1 : u[i] = trail[Len(trail) - depth - 1 + i]
  BY <1>1, <1>2, UpperLevels
<1>4. Levels = u
  BY DEF Levels
<1> HIDE DEF u
<1> QED BY <1>3, <1>4 DEF Trails, S

(* The same after a step.                                                   *)
LEMMA LevelsShapeNext ==
  ASSUME StackInv', depth' < Len(trail')
  PROVE  /\ Levels' \in Trails
         /\ Len(Levels') = depth' + 1
         /\ \A i \in 1 .. depth' + 1 : Levels'[i] = trail'[Len(trail') - depth' - 1 + i]
<1>1. trail' \in Seq(SUBSET Models) /\ depth' \in Nat
  BY BackendAssumption DEF StackInv, Trails, BackendAssumption
<1> DEFINE S == SUBSET Models
<1> HIDE DEF S
<1>2. trail' \in Seq(S)
  BY <1>1 DEF S
<1> DEFINE u == SubSeq(trail', Len(trail') - depth', Len(trail'))
<1>3. /\ u \in Seq(S) /\ Len(u) = depth' + 1
      /\ \A i \in 1 .. depth' + 1 : u[i] = trail'[Len(trail') - depth' - 1 + i]
  BY <1>1, <1>2, UpperLevels
<1>4. Levels' = u
  BY DEF Levels
<1> HIDE DEF u
<1> QED BY <1>3, <1>4 DEF Trails, S

(* The top of the stack is the top of the wrapped solver.                  *)
LEMMA StackTop ==
  ASSUME StackInv, depth < Len(trail)
  PROVE  Levels[Len(Levels)] = Top
<1>1. depth \in Nat /\ Len(trail) \in Nat
  BY Basics
<1>2. Len(Levels) = depth + 1 /\ depth + 1 \in 1 .. depth + 1
      /\ Len(trail) - depth - 1 + (depth + 1) = Len(trail)
  BY <1>1, LevelsShape
<1> QED BY <1>2, LevelsShape DEF Top

(* The client's top level is the solver's,                                  *)
LEMMA AssertRefines ==
  ASSUME StackInv, StackInv', depth < Len(trail), NEW f \in Formulas,
         assert_formula(f) \/ msat_assert_formula(f)
  PROVE  Stack!Assert(f)
<1>1. /\ trail' = [trail EXCEPT ![Len(trail)] = @ \cap f]
      /\ depth' = depth /\ answer' = answer
  BY DEF assert_formula, msat_assert_formula, Forgotten
<1>2. /\ Len(trail') = Len(trail)
      /\ trail'[Len(trail)] = Top \cap f
      /\ \A i \in 1 .. Len(trail) - 1 : trail'[i] = trail[i]
  BY <1>1, TopShrinks
<1>3. depth \in Nat /\ Len(trail) \in Nat /\ Top \cap f \in SUBSET Models
  BY Basics
<1>4. /\ Levels \in Trails /\ Len(Levels) = depth + 1
      /\ \A i \in 1 .. depth + 1 : Levels[i] = trail[Len(trail) - depth - 1 + i]
  BY LevelsShape
<1>5. /\ Levels' \in Trails /\ Len(Levels') = depth + 1
      /\ \A i \in 1 .. depth + 1 : Levels'[i] = trail'[Len(trail) - depth - 1 + i]
  BY <1>1, <1>2, LevelsShapeNext
<1> DEFINE n == Len(Levels)
           new == Top \cap f
           v == [Levels EXCEPT ![n] = new]
           S == SUBSET Models
<1>6. n \in 1 .. Len(Levels) /\ new \in S /\ Levels \in Seq(S) /\ Levels' \in Seq(S)
  BY <1>3, <1>4, <1>5 DEF Trails
<1>7. v = [Levels EXCEPT ![n] = @ \cap f]
  BY StackTop
<1> HIDE DEF S, new
<1>8. /\ v \in Seq(S) /\ Len(v) = n
      /\ \A i \in 1 .. n : v[i] = IF i = n THEN new ELSE Levels[i]
  BY <1>6, ExceptSeq
<1>9. ASSUME NEW i \in 1 .. Len(Levels')
      PROVE  Levels'[i] = v[i]
  <2>1. Levels'[i] = trail'[Len(trail) - depth - 1 + i] /\ i \in 1 .. n /\ n = depth + 1
    BY <1>4, <1>5
  <2>2. CASE i = n
    <3>1. Len(trail) - depth - 1 + i = Len(trail)
      BY <1>3, <2>1, <2>2
    <3> QED BY <1>2, <1>8, <2>1, <2>2, <3>1 DEF new
  <2>3. CASE i # n
    <3>1. Len(trail) - depth - 1 + i \in 1 .. Len(trail) - 1
      BY <1>3, <2>1, <2>3
    <3>2. Levels'[i] = Levels[i]
      BY <1>2, <1>4, <2>1, <3>1
    <3> QED BY <1>8, <2>1, <2>3, <3>2
  <2> QED BY <2>2, <2>3
<1> HIDE DEF v, n
<1>10. Levels' = v
  <2>1. Len(Levels') = Len(v)
    BY <1>4, <1>5, <1>8 DEF n
  <2> QED BY <1>6, <1>8, <1>9, <2>1, SameLevels
<1> QED BY <1>1, <1>7, <1>10 DEF Stack!Assert, n

(* a push copies it,                                                        *)
LEMMA PushRefines ==
  ASSUME StackInv, StackInv', depth < Len(trail), NEW n \in 1 .. MaxDepth,
         push(n) \/ msat_push(n)
  PROVE  Stack!Push(n)
<1>1. trail' = Opened(n, trail, Top) /\ depth' = depth + n /\ answer' = answer
  BY DEF push, msat_push, Forgotten
<1>2. /\ depth \in Nat /\ Len(trail) \in Nat /\ n \in Nat /\ n > 0
      /\ Top \in SUBSET Models /\ trail \in Seq(SUBSET Models)
  BY Basics DEF Trails
<1> DEFINE S == SUBSET Models
<1> HIDE DEF S
<1>3. Top \in S /\ trail \in Seq(S) /\ n \in Nat
  BY <1>2 DEF S
<1>4. /\ Len(trail') = Len(trail) + n
      /\ \A i \in 1 .. Len(trail) : trail'[i] = trail[i]
      /\ \A i \in Len(trail) + 1 .. Len(trail) + n : trail'[i] = Top
  <2> DEFINE w == Opened(n, trail, Top)
  <2>1. /\ Len(w) = Len(trail) + n
        /\ \A i \in 1 .. Len(trail) : w[i] = trail[i]
    BY <1>3, OpenedLevels, Zenon
  <2>2. \A i \in Len(trail) + 1 .. Len(trail) + n : w[i] = Top
    BY <1>3, OpenedNew, Zenon
  <2> HIDE DEF w
  <2> QED BY <1>1, <2>1, <2>2 DEF w
<1>5. /\ Levels \in Seq(S) /\ Len(Levels) = depth + 1
      /\ \A i \in 1 .. depth + 1 : Levels[i] = trail[Len(trail) - depth - 1 + i]
  BY LevelsShape DEF Trails, S
<1>6. /\ Levels' \in Seq(S) /\ Len(Levels') = depth + n + 1
      /\ \A i \in 1 .. depth + n + 1 : Levels'[i] = trail'[Len(trail) - depth - 1 + i]
  <2>1. depth' < Len(trail')
    BY <1>1, <1>2, <1>4
  <2>2. /\ Levels' \in Trails /\ Len(Levels') = depth' + 1
        /\ \A i \in 1 .. depth' + 1 : Levels'[i] = trail'[Len(trail') - depth' - 1 + i]
    BY <2>1, LevelsShapeNext
  <2>3. Len(trail') - depth' = Len(trail) - depth /\ depth' + 1 = depth + n + 1
    BY <1>1, <1>2, <1>4
  <2> QED BY <2>2, <2>3 DEF Trails, S
<1> DEFINE v == Opened(n, Levels, Top)
<1>7. /\ v \in Seq(S) /\ Len(v) = depth + 1 + n
      /\ \A i \in 1 .. depth + 1 : v[i] = Levels[i]
      /\ \A i \in depth + 2 .. depth + 1 + n : v[i] = Top
  <2>1. Levels \in Seq(S) /\ Top \in S /\ n \in Nat
    BY <1>2, <1>3, <1>5
  <2>2. /\ v \in Seq(S) /\ Len(v) = Len(Levels) + n
        /\ \A i \in 1 .. Len(Levels) : v[i] = Levels[i]
    BY <2>1, OpenedLevels, Zenon
  <2>3. \A i \in Len(Levels) + 1 .. Len(Levels) + n : v[i] = Top
    BY <2>1, OpenedNew, Zenon
  <2> HIDE DEF v
  <2>4. Len(Levels) + 1 = depth + 2
    BY <1>2, <1>5
  <2> QED BY <1>5, <2>2, <2>3, <2>4
<1>8. v = Levels \o [i \in 1 .. n |-> Levels[Len(Levels)]]
  BY StackTop DEF Opened
<1> HIDE DEF v
<1>9. ASSUME NEW i \in 1 .. depth + n + 1
      PROVE  Levels'[i] = v[i]
  <2>1. CASE i \in 1 .. depth + 1
    <3>1. Len(trail) - depth - 1 + i \in 1 .. Len(trail)
      BY <1>2, <2>1
    <3> QED BY <1>4, <1>5, <1>6, <1>7, <2>1, <3>1
  <2>2. CASE i \in depth + 2 .. depth + 1 + n
    <3>1. Len(trail) - depth - 1 + i \in Len(trail) + 1 .. Len(trail) + n
      BY <1>2, <2>2
    <3> QED BY <1>4, <1>6, <1>7, <2>2, <3>1
  <2> QED BY <1>2, <2>1, <2>2
<1>10. Levels' = v
  <2>1. Len(Levels') = Len(v) /\ \A i \in 1 .. Len(Levels') : Levels'[i] = v[i]
    BY <1>2, <1>6, <1>7, <1>9
  <2> QED BY <1>6, <1>7, <2>1, SameLevels
<1> QED BY <1>1, <1>8, <1>10 DEF Stack!Push, Stack!Top

(* and a pop finds below what the client had there.                         *)
LEMMA PopRefines ==
  ASSUME StackInv, StackInv', depth < Len(trail), NEW n \in 1 .. MaxDepth,
         pop(n) \/ msat_pop(n)
  PROVE  Stack!Pop(n)
<1>1. /\ trail' = Closed(n, trail) /\ depth' = depth - n /\ n <= depth
      /\ answer' = answer
  BY DEF pop, msat_pop, Forgotten
<1>2. /\ depth \in Nat /\ Len(trail) \in Nat /\ n \in Nat /\ n < Len(trail)
      /\ trail \in Seq(SUBSET Models)
  BY <1>1, Basics DEF Trails
<1> DEFINE S == SUBSET Models
<1> HIDE DEF S
<1>3. trail \in Seq(S)
  BY <1>2 DEF S
<1>4. /\ Len(trail') = Len(trail) - n
      /\ \A i \in 1 .. Len(trail) - n : trail'[i] = trail[i]
  BY <1>1, <1>2, <1>3, ClosedLevels
<1>5. /\ Levels \in Seq(S) /\ Len(Levels) = depth + 1
      /\ \A i \in 1 .. depth + 1 : Levels[i] = trail[Len(trail) - depth - 1 + i]
  BY LevelsShape DEF Trails, S
<1>6. /\ Levels' \in Seq(S) /\ Len(Levels') = depth - n + 1
      /\ \A i \in 1 .. depth - n + 1 : Levels'[i] = trail'[Len(trail) - depth - 1 + i]
  <2>1. depth' < Len(trail')
    BY <1>1, <1>2, <1>4
  <2>2. /\ Levels' \in Trails /\ Len(Levels') = depth' + 1
        /\ \A i \in 1 .. depth' + 1 : Levels'[i] = trail'[Len(trail') - depth' - 1 + i]
    BY <2>1, LevelsShapeNext
  <2>3. Len(trail') - depth' = Len(trail) - depth /\ depth' + 1 = depth - n + 1
    BY <1>1, <1>2, <1>4
  <2> QED BY <2>2, <2>3 DEF Trails, S
<1> DEFINE v == Closed(n, Levels)
<1>7. /\ v \in Seq(S) /\ Len(v) = depth - n + 1
      /\ \A i \in 1 .. depth - n + 1 : v[i] = Levels[i]
  <2>1. n < Len(Levels) /\ Len(Levels) - n = depth - n + 1
    BY <1>1, <1>2, <1>5
  <2>2. /\ v \in Seq(S) /\ Len(v) = Len(Levels) - n
        /\ \A i \in 1 .. Len(Levels) - n : v[i] = Levels[i]
    BY <1>2, <1>5, <2>1, ClosedLevels
  <2> HIDE DEF v
  <2> QED BY <2>1, <2>2
<1>8. v = SubSeq(Levels, 1, Len(Levels) - n) /\ n < Len(Levels)
  BY <1>1, <1>2, <1>5 DEF Closed
<1> HIDE DEF v
<1>9. ASSUME NEW i \in 1 .. depth - n + 1
      PROVE  Levels'[i] = v[i]
  <2>1. i \in 1 .. depth + 1 /\ Len(trail) - depth - 1 + i \in 1 .. Len(trail) - n
    BY <1>1, <1>2
  <2> QED BY <1>4, <1>5, <1>6, <1>7, <2>1
<1>10. Levels' = v
  <2>1. Len(Levels') = Len(v) /\ \A i \in 1 .. Len(Levels') : Levels'[i] = v[i]
    BY <1>1, <1>2, <1>6, <1>7, <1>9
  <2> QED BY <1>6, <1>7, <2>1, SameLevels
<1> QED BY <1>1, <1>8, <1>10 DEF Stack!Pop

(* An answer about the top level, with the levels as they were.            *)
LEMMA CheckRefines ==
  ASSUME StackInv, depth < Len(trail), NEW A, Answered(Top, A),
         UNCHANGED <<trail, depth>>
  PROVE  Stack!Check(Meet(A))
<1>1. answer' \in {"unknown", IF Top \cap Meet(A) = {} THEN "unsat" ELSE "sat"}
  BY DEF Answered
<1>2. Stack!Top = Top
  BY StackTop DEF Stack!Top
<1>3. Levels' = Levels
  BY DEF Levels
<1> QED BY <1>1, <1>2, <1>3 DEF Stack!Check

(* A query without assumptions, and with those that a client uses.         *)
LEMMA CheckIsStep ==
  ASSUME NEW A \in Assumptions \cup {{}}, Stack!Check(Meet(A))
  PROVE  Stack!Next
<1>1. Meet({}) = Models
  BY DEF Meet
<1>2. Meet(A) \in Meets \cup {Models}
  BY <1>1 DEF Meets
<1> QED BY <1>2 DEF Stack!Next

(* A label assumes what it stands for.                                     *)
LEMMA MsatCheckRefines ==
  ASSUME StackInv, depth < Len(trail), backend = "msat", "stale_base" \notin drift,
         NEW A \in Assumptions,
         check_sat_assuming_msatvec(clear_assumption_clauses, A)
  PROVE  Stack!Check(Meet(A))
<1> DEFINE top == Len(clear_assumption_clauses.trail)
           held == [clear_assumption_clauses.clauses EXCEPT ![top] = @ \cup A]
           N == {a \in A : \E i \in 1 .. top : a \in held[i]}
<1>1. /\ Answered(clear_assumption_clauses.trail[top], N)
      /\ trail' = clear_assumption_clauses.trail /\ UNCHANGED depth
  BY DEF check_sat_assuming_msatvec
<1>2. IsMsat
  BY DEF IsMsat
<1>3. clear_assumption_clauses.trail = trail
  BY <1>2, Swept
<1>4. top \in 1 .. top /\ A \subseteq held[top]
  BY <1>2, HeldClauses
<1>5. clear_assumption_clauses.trail[top] = Top
  BY <1>3 DEF Top
<1> HIDE DEF held, top
<1>6. N = A
  BY <1>4
<1> HIDE DEF N
<1>7. Answered(Top, A) /\ UNCHANGED <<trail, depth>>
  BY <1>1, <1>3, <1>5, <1>6
<1> QED BY <1>7, CheckRefines

(* The client's level 0 after a reset.                                     *)
LEMMA ResetRefines ==
  ASSUME StackInv', depth' = 0, trail'[Len(trail')] = Models, UNCHANGED answer
  PROVE  Stack!Reset
<1>1. Len(trail') \in Nat /\ Len(trail') > 0
  BY DEF StackInv, Trails
<1>2. /\ Levels' \in Trails /\ Len(Levels') = 1
      /\ Levels'[1] = trail'[Len(trail')]
  <2>1. /\ Levels' \in Trails /\ Len(Levels') = depth' + 1
        /\ \A i \in 1 .. depth' + 1 : Levels'[i] = trail'[Len(trail') - depth' - 1 + i]
    BY <1>1, LevelsShapeNext
  <2>2. 1 \in 1 .. depth' + 1 /\ Len(trail') - depth' - 1 + 1 = Len(trail') /\ depth' + 1 = 1
    BY <1>1
  <2> QED BY <2>1, <2>2
<1> DEFINE S == SUBSET Models
           u == <<Models>>
<1>3. u \in Seq(S) /\ Len(u) = 1 /\ u[1] = Models /\ Levels' \in Seq(S)
  BY <1>2, EmptyStack DEF Trails
<1> HIDE DEF S, u
<1>4. \A i \in 1 .. Len(Levels') : Levels'[i] = u[i]
  BY <1>2, <1>3
<1>5. Levels' = u
  BY <1>2, <1>3, <1>4, SameLevels
<1> QED BY <1>5 DEF Stack!Reset, u

(* Every reset ends in one client level without assertions: with Boolector  *)
(* that is its base context, where nothing was ever asserted.               *)
LEMMA AllResetsRefine ==
  ASSUME StackInv, StackInv', drift' \subseteq {"level"},
         \/ btor_reset_assertions \/ btor_reset \/ cvc5_reset_assertions \/ z3_reset
         \/ msat_reset_assertions \/ msat_reset
  PROVE  Stack!Reset
<1>1. depth' = 0 /\ UNCHANGED answer
  BY DEF btor_reset_assertions, btor_reset, cvc5_reset_assertions, z3_reset,
         msat_reset_assertions, msat_reset, Forgotten
<1>2. CASE btor_reset_assertions
  <2>1. /\ Len(trail') = 2 /\ trail'[2] = trail[1] /\ Len(trail) = context_level + 1
    BY <1>2, BaseContext
  <2>2. base_context_1 /\ "late_option" \notin drift
    BY <1>2 DEF btor_reset_assertions
  <2>3. trail[1] = Models
    BY <2>1, <2>2 DEF StackInv, BaseOK
  <2> QED BY <1>1, <2>1, <2>3, ResetRefines
<1>3. CASE ~btor_reset_assertions
  <2>1. trail' = <<Models>>
    BY <1>3 DEF btor_reset, cvc5_reset_assertions, z3_reset, msat_reset_assertions, msat_reset
  <2>2. trail'[Len(trail')] = Models
    BY <2>1, EmptyStack
  <2> QED BY <1>1, <2>2, ResetRefines
<1> QED BY <1>2, <1>3

(* Options and logic that are set first are no step of the stack, nor is   *)
(* what MathSAT does for a query it then refuses.                          *)
LEMMA SetOptRefines ==
  ASSUME StackInv, StackInv', btor_set_opt, drift' \subseteq {"level"}
  PROVE  UNCHANGED <<Levels, answer>>
<1>1. /\ trail = <<Models>> /\ "late_option" \notin drift
      /\ trail' = Append(trail, Top) /\ UNCHANGED <<depth, answer>>
  BY DEF btor_set_opt, Forgotten
<1>2. depth = 0
  <2>1. depth < Len(trail) /\ depth \in Nat
    BY <1>1, Basics DEF StackInv
  <2> QED BY <1>1, <2>1, EmptyStack
<1>3. Top = Models
  BY <1>1 DEF Top
<1>4. Len(trail') = 2 /\ trail'[2] = Models
  BY <1>1, <1>3
<1>5. Stack!Reset
  BY <1>1, <1>2, <1>4, ResetRefines
<1>6. Levels = <<Models>>
  <2> DEFINE S == SUBSET Models
             u == <<Models>>
  <2>1. u \in Seq(S) /\ Len(u) = 1 /\ u[1] = Models /\ trail = u
    BY <1>1, EmptyStack DEF Trails
  <2> HIDE DEF u
  <2>2. /\ Levels \in Seq(S) /\ Len(Levels) = depth + 1
        /\ \A i \in 1 .. depth + 1 : Levels[i] = trail[Len(trail) - depth - 1 + i]
    BY <1>2, <2>1, LevelsShape DEF Trails
  <2> HIDE DEF S
  <2>3. Len(Levels) = 1 /\ Levels[1] = u[1]
    <3>1. Len(trail) = 1 /\ trail[1] = u[1]
      BY <2>1
    <3>2. 1 \in 1 .. depth + 1 /\ Len(trail) - depth - 1 + 1 = 1
      BY <1>2, <3>1
    <3> QED BY <1>2, <2>2, <3>1, <3>2
  <2>4. \A i \in 1 .. Len(Levels) : Levels[i] = u[i]
    BY <2>3
  <2>5. Levels = u
    BY <2>1, <2>2, <2>3, <2>4, SameLevels
  <2> QED BY <2>5 DEF u
<1> QED BY <1>1, <1>5, <1>6 DEF Stack!Reset

(* set_logic before any assertion, a refused query and a request for a core *)
(* change nothing.                                                          *)
LEMMA StutterRefines ==
  ASSUME StackInv, drift' \subseteq {"level"}, backend # "msat_itp",
         "stale_base" \notin drift,
         \/ z3_set_logic \/ (\E A \in Assumptions : msat_refuse_list(A))
         \/ get_unsat_assumptions \/ UNCHANGED vars
  PROVE  UNCHANGED <<Levels, answer>>
<1>1. UNCHANGED <<depth, answer>>
  BY DEF z3_set_logic, msat_refuse_list, get_unsat_assumptions, vars, asked, Forgotten
<1>2. trail' = trail
  <2>1. CASE z3_set_logic
    BY <2>1 DEF z3_set_logic
  <2>2. CASE \E A \in Assumptions : msat_refuse_list(A)
    <3>1. IsMsat /\ backend = "msat" /\ trail' = clear_assumption_clauses.trail
      BY <2>2 DEF msat_refuse_list, IsMsat
    <3> QED BY <3>1, Swept
  <2>3. CASE get_unsat_assumptions \/ UNCHANGED vars
    BY <2>3 DEF get_unsat_assumptions, vars
  <2> QED BY <2>1, <2>2, <2>3
<1> QED BY <1>1, <1>2 DEF Levels

(* Drift is never made up for, and a back end stays what it is.            *)
LEMMA DriftGrows ==
  ASSUME [Next]_vars
  PROVE  drift \subseteq drift' /\ UNCHANGED backend
BY DEF Next, vars, assert_formula, push, pop, check_sat, check_sat_assuming, Query,
       get_unsat_assumptions, BoolectorSolver, btor_set_opt, btor_reset_assertions,
       btor_reset, cvc5_reset_assertions, Z3Solver, z3_reset, z3_set_logic,
       MsatSolver, msat_assert_formula, msat_push, msat_pop, msat_check_sat,
       msat_check_sat_assuming, msat_check_sat_assuming_list,
       check_sat_assuming_msatvec, msat_refuse_list, msat_reset_assertions,
       msat_reset, get_interpolant

(* Every step that leaves client and solver in step is one of               *)
(* AssertionStack, or stutters.                                             *)
LEMMA StepRefines ==
  ASSUME StackInv, StackInv', [Next]_vars, InStep'
  PROVE  Stack!Next \/ UNCHANGED <<Levels, answer>>
<1>1. /\ backend # "msat_itp" /\ drift' \subseteq {"level"}
      /\ "stale_base" \notin drift /\ "late_option" \notin drift
  BY DriftGrows DEF InStep
<1>2. depth < Len(trail)
  BY <1>1 DEF StackInv
<1>3. ASSUME NEW f \in Formulas, assert_formula(f) \/ msat_assert_formula(f)
      PROVE  Stack!Next
  <2>1. Stack!Assert(f) /\ f \in Meets
    BY <1>2, <1>3, AssertRefines DEF Meets
  <2> QED BY <2>1 DEF Stack!Next
<1>4. ASSUME NEW n \in 1 .. MaxDepth, push(n) \/ msat_push(n)
      PROVE  Stack!Next
  BY <1>2, <1>4, PushRefines DEF Stack!Next
<1>5. ASSUME NEW n \in 1 .. MaxDepth, pop(n) \/ msat_pop(n)
      PROVE  Stack!Next
  BY <1>2, <1>5, PopRefines DEF Stack!Next
<1>6. CASE check_sat
  <2>1. Answered(Top, {}) /\ UNCHANGED <<trail, depth>>
    BY <1>6 DEF check_sat, Query
  <2> QED BY <1>2, <2>1, CheckRefines, CheckIsStep
<1>7. ASSUME NEW A \in Assumptions, check_sat_assuming(A)
      PROVE  Stack!Next
  <2>1. Answered(Top, A) /\ UNCHANGED <<trail, depth>>
    BY <1>7 DEF check_sat_assuming, Query
  <2> QED BY <1>2, <2>1, CheckRefines, CheckIsStep
<1>8. CASE msat_check_sat
  <2>1. IsMsat /\ backend = "msat"
    BY <1>8 DEF msat_check_sat, IsMsat
  <2>2. clear_assumption_clauses.trail = trail
    BY <1>1, <2>1, Swept
  <2>3. /\ Answered(clear_assumption_clauses.trail[Len(clear_assumption_clauses.trail)], {})
        /\ trail' = clear_assumption_clauses.trail /\ UNCHANGED depth
    BY <1>8 DEF msat_check_sat
  <2>4. Answered(Top, {}) /\ UNCHANGED <<trail, depth>>
    BY <2>2, <2>3 DEF Top
  <2> QED BY <1>2, <2>4, CheckRefines, CheckIsStep
<1>9. ASSUME NEW A \in Assumptions,
             msat_check_sat_assuming(A) \/ msat_check_sat_assuming_list(A)
      PROVE  Stack!Next
  <2>1. backend = "msat" /\ check_sat_assuming_msatvec(clear_assumption_clauses, A)
    BY <1>1, <1>9 DEF msat_check_sat_assuming, msat_check_sat_assuming_list, IsMsat
  <2> QED BY <1>1, <1>2, <2>1, MsatCheckRefines, CheckIsStep
<1>10. CASE \/ btor_reset_assertions \/ btor_reset \/ cvc5_reset_assertions \/ z3_reset
            \/ msat_reset_assertions \/ msat_reset
  BY <1>1, <1>10, AllResetsRefine DEF Stack!Next
<1>11. CASE btor_set_opt
  BY <1>1, <1>11, SetOptRefines
<1>12. CASE \/ z3_set_logic \/ (\E A \in Assumptions : msat_refuse_list(A))
            \/ get_unsat_assumptions \/ UNCHANGED vars
  BY <1>1, <1>12, StutterRefines
<1>13. CASE MsatSolver
  <2>1. ~ \E A, B \in Formulas : get_interpolant(A, B)
    BY <1>1 DEF get_interpolant
  <2> QED BY <1>3, <1>4, <1>5, <1>8, <1>9, <1>10, <1>12, <1>13, <2>1 DEF MsatSolver
<1> QED BY <1>3, <1>4, <1>5, <1>6, <1>7, <1>10, <1>11, <1>12, <1>13
        DEF Next, BoolectorSolver, Z3Solver

-----------------------------------------------------------------------------
(* The strengthened invariant holds in every state, for every choice of    *)
(* formulas, assumptions and bounds.                                       *)
THEOREM Invariance == Spec => []IInv
<1>1. Init => IInv
  BY InitStack, InitQuery DEF IInv
<1>2. IInv /\ [Next]_vars => IInv'
  BY NextStack, NextQuery DEF IInv
<1> QED BY <1>1, <1>2, PTL DEF Spec

(* Every variable keeps its type, MathSAT has as many levels of clauses as *)
(* of assertions, and a client who sets options first never has more       *)
(* levels open than the wrapped solver.                                    *)
THEOREM TypeCorrect == Spec => []TypeOK
<1>1. IInv => TypeOK
  BY DEF IInv, StackInv, QueryInv, TypeOK, Trails, ClauseStacks
<1> QED BY <1>1, Invariance, PTL

(* get_context_level is the number of open levels - one more with          *)
(* Boolector's base-context-1 - until a reset above level 0.               *)
THEOREM LevelsCounted == Spec => []LevelRight
<1>1. IInv => LevelRight
  BY DEF IInv, StackInv
<1> QED BY <1>1, Invariance, PTL

(* get_unsat_assumptions returns assumptions of this query that are unsat  *)
(* with what is asserted, and refuses no query that was recorded.          *)
THEOREM CoresRight == Spec => []CoreRight
<1>1. IInv => CoreRight
  BY DEF IInv, QueryInv
<1> QED BY <1>1, Invariance, PTL

(* get_interpolant answers for its two formulas, whatever was asserted,    *)
(* pushed or assumed before.                                               *)
THEOREM InterpolantsAlone == Spec => []InterpolantsIndependent
<1>1. IInv => InterpolantsIndependent
  BY DEF IInv, QueryInv
<1> QED BY <1>1, Invariance, PTL

(* Boolector's, Bitwuzla's, cvc5's, MathSAT's and Z3's wrappers implement  *)
(* AssertionStack for as long as options come first and MathSAT is not     *)
(* reset with assertions: labels, sweeps and Boolector's own level are not *)
(* seen.                                                                   *)
THEOREM Refinement == Spec => Implements
<1>1. IInv /\ IInv' /\ [Next]_vars => [InStep' => Stack!Next]_<<Levels, answer>>
  BY StepRefines DEF IInv
<1> QED BY <1>1, Invariance, PTL DEF Spec, Implements
=============================================================================
