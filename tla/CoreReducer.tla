---------------------------- MODULE CoreReducer ----------------------------
(***************************************************************************)
(* UnsatCoreReducer of utils.cpp: from assumptions that are unsatisfiable  *)
(* with a formula it keeps fewer that still are, by asking a solver of its *)
(* own.  An object is used for several calls; its labels, the symbols that *)
(* stand for the assumptions, stay in that solver.                         *)
(*                                                                         *)
(* What the solver answers is left open: a verdict follows from the sets   *)
(* of assumptions that contradict the formula, and a core is any part of   *)
(* the assumptions that does.                                              *)
(***************************************************************************)
EXTENDS Naturals, Sequences, FiniteSets

CONSTANTS
  Assumptions,  \* sequences of assumptions a caller passes
  Conflicts,    \* sets of the least sets of terms that contradict a formula
  Transfer(_),  \* the term of the reducer's solver an assumption becomes
  Hash(_),      \* the hash of such a term: two may have one
  Iterations,   \* the values a caller gives iter: 0 is no limit
  MaxCalls      \* bound: calls on one object

VARIABLES
  calls,
  pc,         \* "idle", "label", "reduce", "linear": where the running call is
  job,        \* its arguments: assump, the conflicts of its formula, iter; and how
  level,      \* push() minus pop() of the reducer's solver
  asserted,   \* the implications asserted there, <<label, term>>
  labels,     \* labels_: a symbol for every term that had to have one
  cand_res,   \* the terms still candidates
  bool_assump,\* their labels
  position,   \* assump_pos_for_removal
  cur_iter,
  out_red, out_rem,
  result      \* what the last call returned

vars == <<calls, pc, job, level, asserted, labels, cand_res, bool_assump,
          position, cur_iter, out_red, out_rem, result>>

NoJob == [assump |-> <<>>, conflicts |-> {}, iter |-> 0, how |-> "none"]

Init ==
  /\ calls = 0 /\ pc = "idle" /\ job = NoJob /\ level = 0 /\ asserted = {}
  /\ labels = [t \in {} |-> t] /\ cand_res = <<>> /\ bool_assump = <<>>
  /\ position = 1 /\ cur_iter = 0 /\ out_red = <<>> /\ out_rem = <<>>
  /\ result = "none"

----------------------------------------------------------------------------
(* The solver's side.                                                      *)

Contradict(ts) == \E c \in job.conflicts : c \subseteq ts
Meant(ls) == {e[2] : e \in {a \in asserted : a[1] \in ls}}
Unsat(ls) == Contradict(Meant(ls))
Cores(ls) == {c \in SUBSET ls : Unsat(c)}

\* A fault to look for: a label that is the hash alone.
new_label_hashed(known, t) == <<Hash(t), 0>>

\* label(): the symbol that t has, or the first of its names that is free.
Free(h, taken) == {i \in 0..Cardinality(taken) : <<h, i>> \notin taken}
First(S) == CHOOSE i \in S : \A j \in S : i <= j
new_label(known, t) ==
  <<Hash(t), First(Free(Hash(t), {known[u] : u \in DOMAIN known}))>>

label(known, t) ==
  IF t \in DOMAIN known THEN known
  ELSE [u \in DOMAIN known \cup {t} |-> IF u = t THEN new_label(known, t) ELSE known[u]]

----------------------------------------------------------------------------
\* The elements of s that are in set, in their order.
Filter(s, set) ==
  LET f[i \in 0..Len(s)] ==
        IF i = 0 THEN <<>>
        ELSE IF s[i] \in set THEN Append(f[i - 1], s[i]) ELSE f[i - 1]
  IN f[Len(s)]

Elements(s) == {s[i] : i \in DOMAIN s}
Orders(S) == {f \in [S -> S] : \A j \in S : \E i \in S : f[i] = j}
Injective(s) == \A i, j \in DOMAIN s : s[i] = s[j] => i = j

Transferred(s) == [i \in DOMAIN s |-> Transfer(s[i])]

\* to_ext_assump: of two assumptions with one transferred term, the later.
to_ext_assump(t) ==
  job.assump[CHOOSE i \in DOMAIN job.assump :
               /\ Transfer(job.assump[i]) = t
               /\ \A j \in DOMAIN job.assump :
                    Transfer(job.assump[j]) = t => j <= i]
External(s) == [i \in DOMAIN s |-> to_ext_assump(s[i])]

Return(r) == pc' = "idle" /\ result' = r /\ level' = level - 1 /\ asserted' = {}

\* Both methods push, assert the formula, and leave when it is unsat alone.
\* The first shuffles the candidates when it is given a seed; the second is
\* for assumptions without duplicates: with two that become one term its loop
\* would drop neither, and go on for ever.
Start(how) ==
  \E a \in Assumptions, c \in Conflicts, n \in Iterations :
    /\ pc = "idle" /\ calls < MaxCalls
    /\ calls' = calls + 1
    /\ job' = [assump |-> a, conflicts |-> c, iter |-> n, how |-> how]
    /\ out_red' = <<>> /\ out_rem' = <<>> /\ position' = 1 /\ cur_iter' = 0
    /\ IF {} \in c
       THEN /\ pc' = "idle" /\ result' = "true"
            /\ UNCHANGED <<level, asserted, labels, cand_res, bool_assump>>
       ELSE \E f \in Orders(DOMAIN a) :
            LET order == [i \in DOMAIN a |-> Transfer(a[f[i]])] IN
            /\ how = "linear" => order = Transferred(a) /\ Injective(order)
            /\ pc' = "label" /\ level' = level + 1 /\ result' = "none"
            /\ cand_res' = order /\ bool_assump' = <<>> /\ asserted' = {}
            /\ UNCHANGED labels

reduce_assump_unsatcore == Start("reduce")
linear_reduce_assump_unsatcore == Start("linear")

\* The loop that asserts, for every candidate, that its label implies it.
LabelNext ==
  /\ pc = "label"
  /\ LET next == Len(bool_assump) + 1 IN
     IF next > Len(cand_res)
     THEN pc' = job.how /\ UNCHANGED <<labels, bool_assump, asserted>>
     ELSE /\ labels' = label(labels, cand_res[next])
          /\ bool_assump' = Append(bool_assump, labels'[cand_res[next]])
          /\ asserted' = asserted \cup {<<labels'[cand_res[next]], cand_res[next]>>}
          /\ UNCHANGED pc
  /\ UNCHANGED <<calls, job, level, cand_res, position, cur_iter, out_red, out_rem,
                 result>>

----------------------------------------------------------------------------
(* One round of reduce_assump_unsatcore: what is not in the core goes.     *)

Finish(kept) ==
  /\ Return("true") /\ out_red' = External(kept)

ReduceRound ==
  /\ pc = "reduce"
  /\ cur_iter' = cur_iter + 1
  /\ \/ /\ cur_iter = 0 /\ ~Unsat(Elements(bool_assump))
        /\ Return("false")
        /\ UNCHANGED <<cand_res, bool_assump, out_red, out_rem>>
     \/ \E core \in Cores(Elements(bool_assump)) :
          LET in == {t \in Elements(cand_res) : labels[t] \in core}
              local == Filter(cand_res, in)
              gone == Filter(cand_res, Elements(cand_res) \ in)
              stop == gone = <<>> \/ (job.iter # 0 /\ cur_iter' >= job.iter)
          IN /\ out_rem' = out_rem \o External(gone)
             /\ cand_res' = local
             /\ bool_assump' = [i \in DOMAIN local |-> labels[local[i]]]
             /\ IF stop THEN Finish(local)
                ELSE UNCHANGED <<pc, result, level, asserted, out_red>>
  /\ UNCHANGED <<calls, job, labels, position>>

----------------------------------------------------------------------------
(* linear_reduce_assump_unsatcore: all at first, then without each one.    *)

term_of(l) == CHOOSE t \in Elements(cand_res) : labels[t] = l

LinearDone ==
  LET kept == [i \in DOMAIN bool_assump |-> term_of(bool_assump[i])]
      out == {t \in Elements(cand_res) : labels[t] \notin Elements(bool_assump)}
      gone == Filter(cand_res, out)
  IN /\ Finish(kept) /\ out_rem' = External(gone)

linear_goes_on == cur_iter <= job.iter /\ position <= Len(bool_assump)

\* cur_iter counts rounds only under a limit.
LinearRound ==
  /\ pc = "linear" /\ Unsat(Elements(bool_assump)) /\ linear_goes_on
  /\ cur_iter' = IF job.iter > 0 THEN cur_iter + 1 ELSE cur_iter
  /\ LET query == {bool_assump[i] : i \in DOMAIN bool_assump \ {position}} IN
     IF ~Unsat(query)
     THEN position' = position + 1 /\ UNCHANGED bool_assump
     ELSE \E core \in Cores(query) :
            /\ bool_assump' = Filter(bool_assump, core)
            /\ UNCHANGED position
  /\ UNCHANGED <<calls, pc, job, level, asserted, labels, cand_res, out_red,
                 out_rem, result>>

LinearEnd ==
  /\ pc = "linear"
  /\ IF Unsat(Elements(bool_assump))
     THEN ~linear_goes_on /\ LinearDone
     ELSE Return("false") /\ UNCHANGED <<out_red, out_rem>>
  /\ UNCHANGED <<calls, job, labels, cand_res, bool_assump, position, cur_iter>>

Works == LabelNext \/ ReduceRound \/ LinearRound \/ LinearEnd
Next == reduce_assump_unsatcore \/ linear_reduce_assump_unsatcore \/ Works
Spec == Init /\ [][Next]_vars /\ WF_vars(Works)

----------------------------------------------------------------------------
Kept == {Transfer(a) : a \in Elements(out_red)}
Given == {Transfer(a) : a \in Elements(job.assump)}

\* A call that returns true leaves assumptions of the caller that are still
\* unsatisfiable with the formula, and nothing is both kept and removed, or
\* lost, unless the formula needs none; one that returns false was given
\* assumptions that are not.  The solver is left at the level it had.
Reduced ==
  pc = "idle" =>
    /\ level = 0
    /\ result = "true" =>
         /\ Contradict(Kept)
         /\ Elements(out_red) \subseteq Elements(job.assump)
         /\ {} \notin job.conflicts =>
              LET gone == {Transfer(a) : a \in Elements(out_rem)} IN
              Kept \cup gone = Given /\ Kept \cap gone = {}
    /\ result = "false" => ~Contradict(Given)

Least == \A t \in Kept : ~Contradict(Kept \ {t})

\* Without a limit the linear method keeps no assumption it could do without.
LinearMinimal ==
  (pc = "idle" /\ result = "true" /\ job.how = "linear" /\ job.iter = 0) => Least

\* utils.h says so of both: "it means that the result in out_red will be
\* minimal".
AlwaysMinimal == (pc = "idle" /\ result = "true" /\ job.iter = 0) => Least

\* Every call comes back.
CallEnds == pc # "idle" ~> pc = "idle"
=============================================================================
