---------------------------- MODULE TermWalkers ----------------------------
(***************************************************************************)
(* The traversals of smt-switch that keep their own stack: IdentityWalker  *)
(* and the walkers derived from it, AbsSmtSolver::substitute, TreeWalker,  *)
(* and the searches of utils.cpp (partitions, matching terms, operators).  *)
(*                                                                         *)
(* A term is a record of an operator and its arguments; terms are shared   *)
(* in the code and compared by identity, so equal records are one term.    *)
(* A step is one iteration of the loop of the running traversal.  A walker *)
(* is an object: its cache may outlive a visit, and what one visit left    *)
(* there the next one trusts.                                              *)
(***************************************************************************)
EXTENDS Integers, Sequences, FiniteSets, SequencesExt

CONSTANTS
  Formulas,       \* the terms a caller asks to walk
  Substitutions,  \* the maps of terms a caller asks to apply
  Derivations,    \* sets of terms for which a derived visit_term says skip
  Aborts,         \* sets of terms at which it says abort
  ValueOps,       \* operators of values, constant arrays included
  SortOf(_),      \* the sort of a term
  MaxVisits       \* bound: visits per walker

VARIABLES
  kind,       \* what runs or last ran: a walker class or a function
  walker,     \* its members: substitution, skips, aborts, clear_cache_
  visits,     \* visits of this object so far
  running,    \* is the loop running
  root,       \* the term it was called for
  to_visit,   \* the stack
  visited,    \* the terms seen
  cache,      \* cache_, or the user's cache when there is one
  tree_path,  \* TreeWalker: where the current term is
  pass,       \* partitions: by which operator the terms are being split
  pending,    \* partitions: the parts still to be split by the second operator
  out         \* what is returned

vars == <<kind, walker, visits, running, root, to_visit, visited, cache,
          tree_path, pass, pending, out>>

Empty == [t \in {} |-> t]
With(f, k, v) == [t \in DOMAIN f \cup {k} |-> IF t = k THEN v ELSE f[t]]

IsValue(t) == t.op \in ValueOps
IsNull(t) == t.a = <<>> \/ IsValue(t)
IsSymbol(t) == t.a = <<>> /\ ~IsValue(t)
Node(o, args) == [op |-> o, a |-> args]

Plain == [subst |-> Empty, skips |-> {}, aborts |-> {}, clear |-> FALSE,
          ops |-> <<>>]
WalkerKinds == {"identity", "substitution", "derived"}
Searches == {"partition", "symbols", "operators"}

Init ==
  /\ kind = "none" /\ walker = Plain /\ visits = 0 /\ running = FALSE
  /\ root = <<>> /\ to_visit = <<>> /\ visited = {} /\ cache = Empty
  /\ tree_path = <<>> /\ pass = 1 /\ pending = <<>> /\ out = <<>>

----------------------------------------------------------------------------
(* Constructors.  A walker is made once and used for several visits.       *)

Made(k, w, c) ==
  /\ kind = "none"
  /\ kind' = k /\ walker' = w /\ cache' = c
  /\ UNCHANGED <<visits, running, root, to_visit, visited, tree_path, pass, pending, out>>

\* SubstitutionWalker fills its cache first; sorts that differ are refused.
SameSorts(s) == \A t \in DOMAIN s : SortOf(t) = SortOf(s[t])

new_SubstitutionWalker ==
  \E s \in Substitutions :
    /\ SameSorts(s)
    /\ Made("substitution", [Plain EXCEPT !.subst = s], s)

new_IdentityWalker ==
  \E c \in BOOLEAN : Made("identity", [Plain EXCEPT !.clear = c], Empty)

\* A derived walker: visit_term skips some terms, aborts at others, and
\* leaves the rest to IdentityWalker; its constructor maps some symbols.
new_DerivedWalker ==
  \E s \in Substitutions, d \in Derivations, b \in Aborts :
    /\ SameSorts(s) /\ d \cap DOMAIN s = {}
    /\ Made("derived", [Plain EXCEPT !.subst = s, !.skips = d, !.aborts = b], s)

new_TreeWalker ==
  \E c \in BOOLEAN : Made("tree", [Plain EXCEPT !.clear = c], Empty)

----------------------------------------------------------------------------
(* IdentityWalker::visit                                                   *)

Running(t) == /\ ~running /\ visits < MaxVisits
              /\ visits' = visits + 1 /\ root' = t
              /\ UNCHANGED <<kind, walker>>

Kept == IF walker.clear THEN Empty ELSE cache

visit(t) ==
  /\ kind \in WalkerKinds /\ Running(t)
  /\ cache' = Kept
  /\ running' = (t \notin DOMAIN Kept)
  /\ out' = IF running' THEN t ELSE Kept[t]
  /\ to_visit' = IF running' THEN <<t>> ELSE <<>>
  /\ visited' = {}
  /\ UNCHANGED <<tree_path, pass, pending>>

\* The children as the cache has them; one that is not cached is kept.
CachedChildren(t) ==
  [i \in DOMAIN t.a |-> IF t.a[i] \in DOMAIN cache THEN cache[t.a[i]] ELSE t.a[i]]

rebuild(t) == IF IsNull(t) THEN t ELSE Node(t.op, CachedChildren(t))

\* visit_term: what it answers, and what it leaves in the cache.
Answer(t) == IF t \in walker.aborts THEN "abort"
             ELSE IF t \in walker.skips THEN "skip" ELSE "continue"

\* A fault to look for: a term is rebuilt on the way down already.
visit_term_eager(t, preorder) ==
  IF Answer(t) # "continue" THEN cache ELSE With(cache, t, rebuild(t))

visit_term(t, preorder) ==
  IF preorder \/ Answer(t) # "continue" THEN cache
  ELSE With(cache, t, rebuild(t))

expand(t, rest) == rest \o <<t>> \o t.a

walk(t, rest) ==
  LET preorder == t \notin visited IN
  IF t \in DOMAIN cache
  THEN to_visit' = rest /\ UNCHANGED <<visited, cache, running, out>>
  ELSE /\ visited' = visited \cup {t}
       /\ cache' = visit_term(t, preorder)
       /\ running' = (Answer(t) # "abort")
       /\ to_visit' = IF preorder /\ Answer(t) = "continue"
                      THEN expand(t, rest) ELSE rest
       /\ out' = IF ~running' /\ root \in DOMAIN cache' THEN cache'[root] ELSE out

WalkStep ==
  /\ kind \in WalkerKinds /\ running /\ to_visit # <<>>
  /\ walk(Last(to_visit), Front(to_visit))
  /\ UNCHANGED <<kind, walker, visits, root, tree_path, pass, pending>>

\* A fault to look for: a walk that goes on until its root is cached.
WalkDone_when_cached ==
  /\ kind \in WalkerKinds /\ running /\ to_visit = <<>>
  /\ running' = (root \notin DOMAIN cache)
  /\ out' = IF root \in DOMAIN cache THEN cache[root] ELSE out
  /\ UNCHANGED <<kind, walker, visits, root, to_visit, visited, cache, tree_path, pass, pending>>

WalkDone ==
  /\ kind \in WalkerKinds /\ running /\ to_visit = <<>>
  /\ running' = FALSE
  /\ out' = IF root \in DOMAIN cache THEN cache[root] ELSE out
  /\ UNCHANGED <<kind, walker, visits, root, to_visit, visited, cache, tree_path, pass, pending>>

----------------------------------------------------------------------------
(* AbsSmtSolver::substitute: the cache starts as the substitution and also *)
(* says which terms were seen.                                             *)

substitute(t) ==
  \E s \in Substitutions :
    /\ kind = "none"
    /\ \A k \in DOMAIN s : IsSymbol(k)   \* solver.h asks for symbolic constants
    /\ kind' = "substitute" /\ walker' = [Plain EXCEPT !.subst = s]
    /\ visits' = MaxVisits /\ running' = TRUE /\ root' = t
    /\ cache' = s /\ to_visit' = <<t>>
    /\ UNCHANGED <<visited, tree_path, pass, pending, out>>

resolve(t) ==
  IF t.a = <<>> \/ IsValue(t) THEN cache
  ELSE With(cache, t, Node(t.op, [i \in DOMAIN t.a |-> cache[t.a[i]]]))

SubstituteStep ==
  /\ kind = "substitute" /\ running /\ to_visit # <<>>
  /\ LET t == Last(to_visit)  rest == Front(to_visit) IN
     IF t \notin DOMAIN cache
     THEN cache' = With(cache, t, t) /\ to_visit' = expand(t, rest)
     ELSE cache' = resolve(t) /\ to_visit' = rest
  /\ UNCHANGED <<kind, walker, visits, running, root, visited, tree_path, pass, pending, out>>

SubstituteDone ==
  /\ kind = "substitute" /\ running /\ to_visit = <<>>
  /\ running' = FALSE /\ out' = cache[root]
  /\ UNCHANGED <<kind, walker, visits, root, to_visit, visited, cache, tree_path, pass, pending>>

----------------------------------------------------------------------------
(* TreeWalker::visit: every occurrence is visited; the stack holds a term  *)
(* with the number it has among its siblings, or with -1 on the way up.    *)

Entry(t, n) == [term |-> t, child |-> n]
Entries(t) == [i \in DOMAIN t.a |-> Entry(t.a[i], i - 1)]
Occurrence(f, p) == [formula |-> f, path |-> p]

visit_tree(t) ==
  /\ kind = "tree" /\ Running(t)
  /\ running' = (t \notin DOMAIN Kept)
  /\ cache' = IF running' THEN With(Kept, t, Occurrence(t, <<>>)) ELSE Kept
  /\ out' = IF running' THEN Occurrence(t, <<>>) ELSE Kept[t]
  /\ to_visit' = IF running' THEN <<Entry(t, -1)>> \o Entries(t) ELSE <<>>
  /\ tree_path' = <<>>
  /\ UNCHANGED <<visited, pass, pending>>

\* A fault to look for: the path keeps the index of a term that was left.
leave_not(p) == p

\* On the way up the last index goes.
leave(p) == IF p = <<>> THEN p ELSE Front(p)

TreeStep ==
  /\ kind = "tree" /\ running /\ to_visit # <<>>
  /\ LET e == Last(to_visit)  rest == Front(to_visit) IN
     IF e.child = -1
     THEN /\ tree_path' = leave(tree_path) /\ to_visit' = rest
          /\ UNCHANGED cache
     ELSE /\ tree_path' = Append(tree_path, e.child)
          /\ cache' = With(cache, e.term, Occurrence(root, tree_path'))
          /\ to_visit' = rest \o <<Entry(e.term, -1)>> \o Entries(e.term)
  /\ UNCHANGED <<kind, walker, visits, running, root, visited, pass, pending, out>>

TreeDone ==
  /\ kind = "tree" /\ running /\ to_visit = <<>>
  /\ running' = FALSE /\ out' = cache[root]
  /\ UNCHANGED <<kind, walker, visits, root, to_visit, visited, cache, tree_path, pass, pending>>

----------------------------------------------------------------------------
(* The searches of utils.cpp.                                              *)

Search(k, ops, t) ==
  /\ kind = "none"
  /\ kind' = k /\ walker' = [Plain EXCEPT !.ops = ops]
  /\ visits' = MaxVisits /\ running' = TRUE /\ root' = t /\ to_visit' = <<t>>
  /\ UNCHANGED <<visited, cache, tree_path, pass, pending, out>>

conjunctive_partition(t) ==
  \E include_bvand \in BOOLEAN :
    Search("partition", IF include_bvand THEN <<"And", "BVAnd">> ELSE <<"And">>, t)

disjunctive_partition(t) ==
  \E include_bvor \in BOOLEAN :
    Search("partition", IF include_bvor THEN <<"Or", "BVOr">> ELSE <<"Or">>, t)

get_free_symbolic_consts(t) == Search("symbols", <<>>, t)
get_ops(t) == Search("operators", <<>>, t)

\* A fault to look for: values are taken for symbols.
Stops_at_leaves(t) == CASE kind = "partition" -> t.op # walker.ops[pass]
                        [] OTHER -> IsNull(t)

\* Does the search stop at t, and what does it report there?
Stops(t) == CASE kind = "partition" -> t.op # walker.ops[pass]
              [] kind = "symbols" -> IsSymbol(t)
              [] kind = "operators" -> IsNull(t)
Reports(t) == CASE kind = "partition" -> IF Stops(t) THEN <<t>> ELSE <<>>
                [] kind = "symbols" -> IF Stops(t) THEN <<t>> ELSE <<>>
                [] kind = "operators" -> IF Stops(t) THEN <<>> ELSE <<t.op>>

look(t, rest) ==
  IF t \in visited
  THEN to_visit' = rest /\ UNCHANGED <<visited, out>>
  ELSE /\ visited' = visited \cup {t}
       /\ out' = out \o Reports(t)
       /\ to_visit' = IF Stops(t) THEN rest ELSE rest \o t.a

SearchStep ==
  /\ kind \in Searches /\ running /\ to_visit # <<>>
  /\ look(Last(to_visit), Front(to_visit))
  /\ UNCHANGED <<kind, walker, visits, running, root, cache, tree_path, pass, pending>>

\* The parts of width one are split again, each by a search of its own.
splits_again(t) == SortOf(t) = "bv1"

\* After the first pass its parts are taken one by one; so are they between
\* the searches of the second.
SearchDone ==
  /\ kind \in Searches /\ running /\ to_visit = <<>>
  /\ LET begins == pass < Len(walker.ops)
         parts == IF begins THEN out ELSE pending
         more == parts # <<>>
         split == more /\ splits_again(Head(parts))
         sofar == IF begins THEN <<>> ELSE out
     IN /\ out' = IF more /\ ~split THEN Append(sofar, Head(parts)) ELSE sofar
        /\ to_visit' = IF split THEN <<Head(parts)>> ELSE <<>>
        /\ pending' = IF more THEN Tail(parts) ELSE <<>>
        /\ pass' = IF begins THEN pass + 1 ELSE pass
        /\ running' = more
        /\ visited' = {}
  /\ UNCHANGED <<kind, walker, visits, root, cache, tree_path>>

----------------------------------------------------------------------------
Call == \E t \in Formulas :
          \/ visit(t) \/ substitute(t) \/ visit_tree(t)
          \/ conjunctive_partition(t) \/ disjunctive_partition(t)
          \/ get_free_symbolic_consts(t) \/ get_ops(t)

Make == new_IdentityWalker \/ new_SubstitutionWalker \/ new_DerivedWalker
          \/ new_TreeWalker

Loop == \/ WalkStep \/ WalkDone \/ SubstituteStep \/ SubstituteDone
        \/ TreeStep \/ TreeDone \/ SearchStep \/ SearchDone

Next == Make \/ Call \/ Loop

\* A traversal that was called runs: nothing else runs in its thread.
Spec == Init /\ [][Next]_vars /\ WF_vars(Loop)

----------------------------------------------------------------------------
(* What the results are compared with.                                     *)

RECURSIVE Meaning(_, _, _)
\* t with the terms of s replaced at once, except below the skipped terms.
Meaning(t, s, skips) ==
  IF t \in DOMAIN s THEN s[t]
  ELSE IF t \in skips \/ IsNull(t) THEN t
  ELSE Node(t.op, [i \in DOMAIN t.a |-> Meaning(t.a[i], s, skips)])

RECURSIVE At(_, _)
At(t, path) ==
  IF path = <<>> THEN t
  ELSE IF Head(path) + 1 \in DOMAIN t.a THEN At(t.a[Head(path) + 1], Tail(path))
  ELSE Node("nowhere", <<>>)

RECURSIVE Parts(_, _)
\* The terms that t is made of by the operator o.
Parts(t, o) ==
  IF t.op = o THEN UNION {Parts(t.a[i], o) : i \in DOMAIN t.a} ELSE {t}

RECURSIVE Subterms(_)
Subterms(t) == {t} \cup UNION {Subterms(t.a[i]) : i \in DOMAIN t.a}

Finished(k) == kind = k /\ ~running /\ visits > 0

\* Rebuilding, substituting and skipping replace every occurrence of every
\* mapped term at once and touch nothing else: in every entry that a visit,
\* finished, running or aborted, leaves for the next one, and in what is
\* returned.
Substituted ==
  LET Right(t) == Meaning(t, walker.subst, walker.skips) IN
  /\ kind \in WalkerKinds => \A t \in DOMAIN cache : cache[t] = Right(t)
  /\ (kind \in WalkerKinds /\ Finished(kind)) =>
       out \in {Right(root)} \cup (IF walker.aborts = {} THEN {} ELSE {root})
  /\ Finished("substitute") => out = Right(root)

\* A term is rebuilt only when each of its children is in the cache or was
\* skipped: what preorder_ promises to the derived classes.
ChildrenFirst ==
  [][\A t \in DOMAIN cache' \ DOMAIN cache :
       kind \in WalkerKinds /\ running /\ ~IsNull(t)
         => \A i \in DOMAIN t.a : t.a[i] \in DOMAIN cache \cup walker.skips]_vars

\* Every path a tree walk leaves in the cache leads, in the formula stored
\* with it, to the very term, in later visits too and with other formulas;
\* and when a walk ends there is one for every subterm.
PathsLead ==
  /\ kind = "tree" => \A t \in DOMAIN cache : At(cache[t].formula, cache[t].path) = t
  /\ (Finished("tree") /\ out.path = <<>>) => Subterms(root) \subseteq DOMAIN cache

\* A partition loses no part and makes none up; with the bit-vector operator
\* the parts of width one are split to the end.  Symbols and operators found
\* are those of the term.
Searched ==
  LET found == {out[i] : i \in DOMAIN out}
      parts == Parts(root, walker.ops[1])
  IN
  /\ Finished("partition") =>
       found = IF Len(walker.ops) = 1 THEN parts
               ELSE UNION {IF splits_again(p) THEN Parts(p, walker.ops[2]) ELSE {p} :
                             p \in parts}
  /\ Finished("symbols") => found = {t \in Subterms(root) : IsSymbol(t)}
  /\ Finished("operators") =>
       found = {t.op : t \in {u \in Subterms(root) : ~IsNull(u)}}

\* Every traversal comes to an end.
TraversalEnds == running ~> ~running
=============================================================================
