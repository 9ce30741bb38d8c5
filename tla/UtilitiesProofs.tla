--------------------------- MODULE UtilitiesProofs ---------------------------
(***************************************************************************)
(* The routines of Utilities for any assumptions, conflicts, terms,        *)
(* members, ranking, operators and sorts, for calls of any number and      *)
(* inputs of any length: an invariant for each, which the steps of the     *)
(* others leave alone.                                                     *)
(*                                                                         *)
(* Filter, merge and sorting_network_rec are recursive functions.  That    *)
(* they are what their definitions say, and what they return, is shown by  *)
(* induction on a measure: the induction is a first-order lemma about sets *)
(* of naturals, from the well-foundedness of their order.                  *)
(***************************************************************************)
EXTENDS Utilities, TLAPS, WellFoundedInduction, SequenceTheorems, FiniteSetTheorems

------------------------------------------------------------------------------
(* Induction and recursion, from the well-foundedness of the naturals.     *)

Below == {p \in Nat \X Nat : p[1] < p[2]}

\* The order of the naturals is well-founded.
LEMMA BelowWF == IsWellFoundedOn(Below, Nat)
<1>1. Below = OpToRel(<, Nat)
  BY DEF Below, OpToRel
<1> QED BY <1>1, NatLessThanWellFounded

\* A set of naturals that is not empty has a least element.
LEMMA Least ==
  ASSUME NEW X, X \subseteq Nat, X # {}
  PROVE  \E n \in X : \A m \in X : n <= m
<1>1. PICK n \in X : \A m \in X : ~ (<<m, n>> \in Below)
  BY BelowWF, WFMin
<1>2. ASSUME NEW m \in X PROVE n <= m
  <2>1. m \in Nat /\ n \in Nat
    OBVIOUS
  <2>2. <<m, n>> \in Nat \X Nat /\ <<m, n>> \notin Below
    BY <1>1, <2>1
  <2>3. ~(m < n)
    BY <2>2 DEF Below
  <2> QED BY <2>1, <2>3
<1> QED BY <1>2

\* What holds of 0 and of the successor of what it holds of holds of all.
LEMMA Induction ==
  ASSUME NEW X, 0 \in X, \A n \in Nat : n \in X => n + 1 \in X
  PROVE  Nat \subseteq X
<1> DEFINE Bad == {n \in Nat : n \notin X}
<1> SUFFICES ASSUME Bad # {} PROVE FALSE
  OBVIOUS
<1> HIDE DEF Bad
<1>1. PICK n \in Bad : \A m \in Bad : n <= m
  BY Least DEF Bad
<1>2. n \in Nat /\ n # 0
  BY <1>1 DEF Bad
<1>3. n - 1 \in Nat /\ n - 1 \notin Bad
  BY <1>1, <1>2 DEF Bad
<1> QED BY <1>1, <1>2, <1>3 DEF Bad

\* What holds of a number as soon as it holds below holds of all.
LEMMA StrongInduction ==
  ASSUME NEW X, \A n \in Nat : (\A m \in Nat : m < n => m \in X) => n \in X
  PROVE  Nat \subseteq X
<1> DEFINE Bad == {n \in Nat : n \notin X}
<1> SUFFICES ASSUME Bad # {} PROVE FALSE
  OBVIOUS
<1> HIDE DEF Bad
<1>1. PICK n \in Bad : \A m \in Bad : n <= m
  BY Least DEF Bad
<1>2. \A m \in Nat : m < n => m \in X
  BY <1>1 DEF Bad
<1> QED BY <1>1, <1>2 DEF Bad

WellRecursive(DD, V, h, F) ==
  /\ V # {} /\ h \in [DD -> Nat] /\ F \in [DD \X [DD -> V] -> V]
  /\ \A d \in DD, g1, g2 \in [DD -> V] :
       (\A e \in DD : h[e] < h[d] => g1[e] = g2[e]) => F[<<d, g1>>] = F[<<d, g2>>]

\* Such a definition has a function that satisfies it.
LEMMA Recursion ==
  ASSUME NEW DD, NEW V, NEW h, NEW F, WellRecursive(DD, V, h, F)
  PROVE  \E f \in [DD -> V] : \A d \in DD : f[d] = F[<<d, f>>]
<1> USE DEF WellRecursive
<1> DEFINE Good(n) == {g \in [DD -> V] : \A d \in DD : h[d] < n => g[d] = F[<<d, g>>]}
           Reached == {n \in Nat : Good(n) # {}}
<1>0. \A d \in DD : h[d] \in Nat
  OBVIOUS
<1>1. Nat \subseteq Reached
  <2>1. 0 \in Reached
    <3>1. PICK r \in V : TRUE
      OBVIOUS
    <3>2. [d \in DD |-> r] \in Good(0)
      BY <1>0
    <3> QED BY <3>2
  <2>2. ASSUME NEW n \in Nat, n \in Reached PROVE n + 1 \in Reached
    <3>1. PICK g \in Good(n) : TRUE
      BY <2>2
    <3> DEFINE g2 == [d \in DD |-> IF h[d] = n THEN F[<<d, g>>] ELSE g[d]]
    <3>2. g \in [DD -> V]
      BY <3>1
    <3>3. g2 \in [DD -> V]
      BY <3>2
    <3>4. ASSUME NEW d \in DD, h[d] < n + 1 PROVE g2[d] = F[<<d, g2>>]
      <4>1. \A e \in DD : h[e] < h[d] => g[e] = g2[e]
        BY <1>0, <3>4
      <4>2. F[<<d, g>>] = F[<<d, g2>>]
        BY <4>1, <3>2, <3>3
      <4>3. CASE h[d] = n
        BY <4>2, <4>3
      <4>4. CASE h[d] # n
        <5>1. h[d] < n
          <6>1. h[d] \in Nat
            BY <1>0
          <6> QED BY <6>1, <4>4, <3>4
        <5>2. g[d] = F[<<d, g>>]
          BY <5>1, <3>1
        <5> QED BY <4>2, <4>4, <5>2
      <4> QED BY <4>3, <4>4
    <3>5. g2 \in Good(n + 1)
      <4> HIDE DEF g2
      <4> QED BY <3>3, <3>4
    <3>6. Good(n + 1) # {} /\ n + 1 \in Nat
      <4> HIDE DEF Good
      <4> QED BY <3>5
    <3> HIDE DEF Good
    <3> QED BY <3>6
  <2> HIDE DEF Reached
  <2> QED BY <2>1, <2>2, Induction
<1> DEFINE Agree == {n \in Nat : \A d \in DD, a, b \in Nat :
                       \A g1 \in Good(a), g2 \in Good(b) :
                         h[d] = n /\ n < a /\ n < b => g1[d] = g2[d]}
<1>2. Nat \subseteq Agree
  <2>1. ASSUME NEW n \in Nat, \A m \in Nat : m < n => m \in Agree PROVE n \in Agree
    <3> SUFFICES ASSUME NEW d \in DD, NEW a \in Nat, NEW b \in Nat, NEW g1 \in Good(a),
        NEW g2 \in Good(b),
                        h[d] = n, n < a, n < b
                 PROVE g1[d] = g2[d]
      <4> HIDE DEF Good
      <4> QED OBVIOUS
    <3>1. ASSUME NEW e \in DD, h[e] < h[d] PROVE g1[e] = g2[e]
      <4>1. h[e] \in Nat /\ h[e] \in Agree
        BY <1>0, <3>1, <2>1
      <4>2. h[e] < a /\ h[e] < b
        BY <4>1, <3>1
      <4> HIDE DEF Good
      <4> QED BY <4>1, <4>2
    <3>2. g1 \in [DD -> V] /\ g2 \in [DD -> V]
      OBVIOUS
    <3>3. F[<<d, g1>>] = F[<<d, g2>>]
      BY <3>1, <3>2
    <3> QED BY <3>3
  <2> HIDE DEF Agree
  <2> QED BY <2>1, StrongInduction
<1> DEFINE G(d) == CHOOSE g : g \in Good(h[d] + 1)
           f == [d \in DD |-> G(d)[d]]
<1>3. \A d \in DD : G(d) \in Good(h[d] + 1)
  <2> SUFFICES ASSUME NEW d \in DD PROVE \E g : g \in Good(h[d] + 1)
    OBVIOUS
  <2>1. h[d] \in Nat /\ h[d] + 1 \in Nat
    OBVIOUS
  <2>2. h[d] + 1 \in Reached
    <3> HIDE DEF Reached
    <3> QED BY <2>1, <1>1
  <2> QED BY <2>2
<1>4. f \in [DD -> V]
  <2>1. \A d \in DD : G(d) \in [DD -> V]
    BY <1>3
  <2> HIDE DEF G
  <2> QED BY <2>1
<1>5. ASSUME NEW d \in DD PROVE f[d] = F[<<d, f>>]
  <2>1. G(d) \in [DD -> V]
    BY <1>3
  <2>2. G(d)[d] = F[<<d, G(d)>>]
    <3>1. G(d) \in Good(h[d] + 1)
      BY <1>3
    <3>2. h[d] \in Nat /\ h[d] < h[d] + 1
      OBVIOUS
    <3> HIDE DEF G
    <3> QED BY <3>1, <3>2
  <2>3. ASSUME NEW e \in DD, h[e] < h[d] PROVE G(d)[e] = f[e]
    <3>1. h[e] \in Nat /\ h[d] \in Nat /\ h[e] + 1 \in Nat /\ h[d] + 1 \in Nat 
      OBVIOUS
    <3>0. h[e] \in Agree
      <4> HIDE DEF Agree
      <4> QED BY <3>1, <1>2
    <3>2. h[e] < h[e] + 1 /\ h[e] < h[d] + 1
      BY <3>1, <2>3
    <3>3. G(d) \in Good(h[d] + 1) /\ G(e) \in Good(h[e] + 1)
      BY <1>3
    <3> HIDE DEF G, Good
    <3>4. G(d)[e] = G(e)[e]
      BY <3>0, <3>1, <3>2, <3>3
    <3> QED BY <3>4
  <2> HIDE DEF G
  <2>4. F[<<d, G(d)>>] = F[<<d, f>>]
    <3> HIDE DEF f
    <3> QED BY <2>1, <1>4, <2>3
  <2>5. f[d] = G(d)[d]
    OBVIOUS
  <2> QED BY <2>2, <2>4, <2>5
<1> QED
  <2> HIDE DEF f
  <2> QED BY <1>4, <1>5

------------------------------------------------------------------------------
(* DisjointSet.                                                            *)

Stays(P, set) == \A p \in P : p \cap set # {} => p \subseteq set
Linked(P, x, y) == \A set \in SUBSET UNION P : Stays(P, set) /\ x \in set => y \in set
Leads(P, f) ==
  /\ f \in [UNION P -> UNION P]
  /\ \A x, y \in UNION P : f[x] = f[y] <=> Linked(P, x, y)
OnSide(P, f, a, b, x) ==
  \/ x \in {a, b}
  \/ x \in UNION P /\ \E c \in {a, b} : c \in UNION P /\ f[x] = f[c]
Unites(P, f, a, b, g) ==
  /\ g \in [(UNION P) \cup {a, b} -> (UNION P) \cup {a, b}]
  /\ \A x, y \in (UNION P) \cup {a, b} :
       g[x] = g[y] <=> \/ x = y
                       \/ x \in UNION P /\ y \in UNION P /\ f[x] = f[y]
                       \/ OnSide(P, f, a, b, x) /\ OnSide(P, f, a, b, y)

\* One more pair adds its members to those of the others.
LEMMA UnionAdd ==
  ASSUME NEW P, NEW p PROVE UNION (P \cup {p}) = (UNION P) \cup p
<1>1. ASSUME NEW z \in UNION (P \cup {p}) PROVE z \in (UNION P) \cup p
  <2>1. PICK q \in P \cup {p} : z \in q
    BY <1>1
  <2> QED BY <2>1
<1>2. ASSUME NEW z \in (UNION P) \cup p PROVE z \in UNION (P \cup {p})
  <2>1. \A q : q \in P => q \in P \cup {p}
    OBVIOUS
  <2>2. p \in P \cup {p}
    OBVIOUS
  <2>3. \E q \in P \cup {p} : z \in q
    BY <2>1, <2>2
  <2> QED BY <2>3
<1> QED BY <1>1, <1>2

\* When g unites the groups of a and b in f, and f leads along the pairs in P,
\* g leads along those and {a, b}.
LEMMA UniteLeads ==
  ASSUME NEW P, NEW f, NEW a, NEW b, NEW g, Leads(P, f), Unites(P, f, a, b, g)
  PROVE  Leads(P \cup {{a, b}}, g)
<1> DEFINE Q == P \cup {{a, b}}
<1>1. UNION Q = (UNION P) \cup {a, b}
  BY UnionAdd
<1>2. ASSUME NEW x \in UNION Q, NEW y \in UNION Q, g[x] = g[y] PROVE Linked(Q, x, y)
  <2> SUFFICES ASSUME NEW set \in SUBSET UNION Q, Stays(Q, set), x \in set PROVE y \in set
    BY DEF Linked
  <2>1. ASSUME NEW v \in UNION P, NEW w \in UNION P, f[v] = f[w], v \in set PROVE w \in set
    <3> DEFINE old == set \cap UNION P
    <3>1. Stays(P, old)
      <4> SUFFICES ASSUME NEW p \in P, p \cap old # {} PROVE p \subseteq old
        BY DEF Stays
      <4>1. p \in Q /\ p \cap set # {} /\ p \subseteq UNION P
        OBVIOUS
      <4>2. p \subseteq set
        BY <4>1 DEF Stays
      <4> QED BY <4>1, <4>2
    <3>2. Linked(P, v, w)
      BY <2>1 DEF Leads
    <3> QED BY <3>1, <3>2, <2>1 DEF Linked
  <2>2. a \in set <=> b \in set
    <3>1. {a, b} \in Q
      OBVIOUS
    <3>2. {a, b} \cap set # {} => {a, b} \subseteq set
      BY <3>1 DEF Stays
    <3> QED BY <3>2
  <2>3. CASE OnSide(P, f, a, b, x) /\ OnSide(P, f, a, b, y)
    <3>1. a \in set /\ b \in set
      BY <2>1, <2>2, <2>3 DEF OnSide
    <3> QED BY <2>1, <2>3, <3>1 DEF OnSide
  <2> QED BY <1>1, <1>2, <2>1, <2>3 DEF Unites
<1>3. ASSUME NEW x \in UNION Q, NEW y \in UNION Q, Linked(Q, x, y) PROVE g[x] = g[y]
  <2> DEFINE set == {z \in UNION Q : g[z] = g[x]}
  <2>1. ASSUME NEW p \in Q, NEW v \in p, NEW w \in p PROVE g[v] = g[w]
    <3>1. CASE p \in P
      <4>1. v \in UNION P /\ w \in UNION P /\ Linked(P, v, w)
        BY <3>1 DEF Linked, Stays
      <4>2. f[v] = f[w]
        BY <4>1 DEF Leads
      <4> QED BY <4>1, <4>2, <1>1 DEF Unites
    <3>2. CASE p = {a, b}
      <4>1. OnSide(P, f, a, b, v) /\ OnSide(P, f, a, b, w)
        BY <3>2 DEF OnSide
      <4> QED BY <3>2, <4>1, <1>1 DEF Unites
    <3> QED BY <3>1, <3>2
  <2>2. Stays(Q, set)
    <3> SUFFICES ASSUME NEW p \in Q, NEW v \in p, v \in set, NEW w \in p PROVE w \in set
      BY DEF Stays
    <3>1. w \in UNION Q
      OBVIOUS
    <3> HIDE DEF Q
    <3> QED BY <2>1, <3>1
  <2>3. x \in set /\ set \in SUBSET UNION Q
    OBVIOUS
  <2>4. y \in set
    <3> HIDE DEF set, Q
    <3> QED BY <1>3, <2>2, <2>3 DEF Linked
  <2> QED BY <2>4
<1>4. g \in [UNION Q -> UNION Q]
  BY <1>1 DEF Unites
<1> HIDE DEF Q
<1>5. Leads(Q, g)
  BY <1>2, <1>3, <1>4 DEF Leads
<1> QED BY <1>5 DEF Q

\* What a DisjointSet keeps.
SetInv ==
  /\ added \in Seq(SUBSET Members)
  /\ Leads(D!Pairs, leader_)
  /\ \A t \in UNION D!Pairs : leader_[leader_[t]] = leader_[t]
  /\ group_ = [l \in {leader_[t] : t \in UNION D!Pairs} |->
                 {t \in UNION D!Pairs : leader_[t] = l}]

\* What DisjointSet keeps says that leaders are right.
LEMMA SetInvImplies == SetInv => D!SameLeader
<1> SUFFICES ASSUME SetInv PROVE D!SameLeader
  OBVIOUS
<1>1. DOMAIN leader_ = UNION D!Pairs
  BY DEF SetInv, Leads
<1>2. \A x, y \in UNION D!Pairs : leader_[x] = leader_[y] <=> D!Connected(x, y)
  BY DEF SetInv, Leads, Linked, Stays, D!Connected, D!Closed
<1>3. \A t \in UNION D!Pairs : leader_[leader_[t]] = leader_[t]
  BY DEF SetInv
<1>4. DOMAIN group_ = {leader_[t] : t \in UNION D!Pairs}
  BY DEF SetInv
<1>5. \A l \in DOMAIN group_ : group_[l] = {t \in UNION D!Pairs : leader_[t] = l}
  BY DEF SetInv
<1> QED BY <1>1, <1>2, <1>3, <1>4, <1>5 DEF D!SameLeader

\* No pair, no leader: the state that clear() also leaves.
LEMMA SetInit == D!Init => SetInv
<1> SUFFICES ASSUME D!Init PROVE SetInv
  OBVIOUS
<1>1. D!Pairs = {} /\ added \in Seq(SUBSET Members)
  BY DEF D!Init, D!Pairs
<1>2. UNION D!Pairs = {}
  BY <1>1
<1>3. leader_ \in [UNION D!Pairs -> UNION D!Pairs]
  BY <1>2 DEF D!Init, D!Nothing
<1>4. group_ = [l \in {leader_[t] : t \in UNION D!Pairs} |->
                 {t \in UNION D!Pairs : leader_[t] = l}]
  BY <1>2 DEF D!Init, D!Nothing
<1> QED BY <1>1, <1>2, <1>3, <1>4 DEF SetInv, Leads

\* What the four cases of add make of the leaders and the groups, with g and
\* k for what they leave, and l for the leader of both.
Joined(known, g, k, a, b, l) ==
  /\ known = (UNION D!Pairs) \cup {a, b}
  /\ g \in [known -> known]
  /\ l \in known /\ OnSide(D!Pairs, leader_, a, b, l)
  /\ \A t \in known :
       g[t] = IF OnSide(D!Pairs, leader_, a, b, t) THEN l ELSE leader_[t]
  /\ k = [m \in {g[t] : t \in known} |-> {t \in known : g[t] = m}]

\* What add() leaves unites two groups.
LEMMA JoinedUnites ==
  ASSUME SetInv, NEW g, NEW k, NEW a, NEW b, NEW l, NEW known,
         Joined(known, g, k, a, b, l)
  PROVE  /\ Unites(D!Pairs, leader_, a, b, g)
         /\ \A t \in known : g[g[t]] = g[t]
<1> DEFINE P == D!Pairs
           In(t) == OnSide(P, leader_, a, b, t)
<1>0. /\ leader_ \in [UNION P -> UNION P]
      /\ \A t \in UNION P : leader_[leader_[t]] = leader_[t]
      /\ g \in [known -> known] /\ known = (UNION P) \cup {a, b}
      /\ l \in known /\ In(l)
      /\ \A t \in known : g[t] = IF In(t) THEN l ELSE leader_[t]
  BY DEF SetInv, Leads, Joined
<1>1. \A t \in known : ~In(t) => t \in UNION P /\ t \notin {a, b}
  BY <1>0 DEF OnSide
<1>2. \A t \in known : ~In(t) => ~In(leader_[t])
  <2> SUFFICES ASSUME NEW t \in known, ~In(t), In(leader_[t]) PROVE FALSE
    OBVIOUS
  <2>1. t \in UNION P /\ leader_[t] \in UNION P /\ leader_[leader_[t]] = leader_[t]
    BY <1>0, <1>1
  <2> QED BY <2>1 DEF OnSide
<1>3. ASSUME NEW x \in UNION P, NEW y \in UNION P, leader_[x] = leader_[y], In(x) PROVE In(y)
  <2>1. \E c \in {a, b} : c \in UNION P /\ leader_[x] = leader_[c]
    BY <1>3 DEF OnSide
  <2> QED BY <1>3, <2>1 DEF OnSide
<1>4. Unites(P, leader_, a, b, g)
  <2> SUFFICES ASSUME NEW x \in known, NEW y \in known
               PROVE  g[x] = g[y] <=> \/ x = y
                                      \/ x \in UNION P /\ y \in UNION P /\ leader_[x] = leader_[y]
                                      \/ In(x) /\ In(y)
    BY <1>0 DEF Unites
  <2> HIDE DEF In
  <2>1. CASE In(x) /\ In(y)
    BY <2>1, <1>0
  <2>2. CASE ~In(x) /\ ~In(y)
    BY <2>2, <1>0, <1>1
  <2>3. CASE In(x) /\ ~In(y)
    <3>1. g[x] = l /\ g[y] = leader_[y] /\ ~In(leader_[y]) /\ In(l)
      BY <2>3, <1>0, <1>2
    <3>2. g[x] # g[y] /\ x # y
      BY <3>1, <2>3
    <3> QED BY <3>2, <2>3, <1>3
  <2>4. CASE ~In(x) /\ In(y)
    <3>1. g[y] = l /\ g[x] = leader_[x] /\ ~In(leader_[x]) /\ In(l)
      BY <2>4, <1>0, <1>2
    <3>2. g[x] # g[y] /\ x # y
      BY <3>1, <2>4
    <3> QED BY <3>2, <2>4, <1>3
  <2> QED BY <2>1, <2>2, <2>3, <2>4
<1>5. ASSUME NEW t \in known PROVE g[g[t]] = g[t]
  <2> HIDE DEF In
  <2>1. CASE In(t)
    BY <2>1, <1>0
  <2>2. CASE ~In(t)
    <3>1. t \in UNION P /\ g[t] = leader_[t] /\ g[t] \in known /\ ~In(g[t])
      BY <2>2, <1>0, <1>1, <1>2
    <3> QED BY <3>1, <1>0
  <2> QED BY <2>1, <2>2
<1> QED BY <1>4, <1>5

\* Whichever of the two terms is known, and whichever leads, add() leaves
\* their groups joined.
LEMMA AddJoins ==
  ASSUME SetInv, NEW a \in Members, NEW b \in Members, D!add(a, b)
  PROVE  \E known, l : Joined(known, leader_', group_', a, b, l)
<1> DEFINE known == UNION D!Pairs
           all == known \cup {a, b}
           la == leader_[a]
           lb == leader_[b]
           In(t) == OnSide(D!Pairs, leader_, a, b, t)
<1>0. /\ leader_ \in [known -> known] /\ DOMAIN leader_ = known
      /\ \A t \in known : leader_[leader_[t]] = leader_[t]
      /\ group_ = [l \in {leader_[t] : t \in known} |-> {t \in known : leader_[t] = l}]
  BY DEF SetInv, Leads
<1>1. CASE a \in known /\ b \in known /\ la = lb
  <2>1. leader_' = leader_ /\ group_' = group_
    BY <1>0, <1>1 DEF D!add, D!merge
  <2>2. Joined(known, leader_', group_', a, b, la)
    <3>1. all = known /\ la \in known
      BY <1>0, <1>1
    <3>2. \A t \in known : In(t) <=> leader_[t] = la
      BY <1>1 DEF OnSide
    <3>3. In(la)
      BY <1>0, <1>1, <3>1, <3>2
    <3>4. \A t \in known : leader_[t] = IF In(t) THEN la ELSE leader_[t]
      BY <3>2
    <3> QED BY <1>0, <2>1, <3>1, <3>2, <3>3, <3>4 DEF Joined
  <2> QED BY <2>2
<1>2. CASE a \in known /\ b \in known /\ la # lb
  <2> DEFINE winner == IF comp(la, lb) THEN la ELSE lb
             loser == IF winner = la THEN lb ELSE la
  <2>1. /\ leader_' = D!Lead(winner, group_[loser])
        /\ group_' = D!Put(group_, winner, group_[la] \cup group_[lb], {loser})
    BY <1>0, <1>2 DEF D!add, D!merge
  <2>2. {winner, loser} = {la, lb} /\ winner # loser
    <3>1. CASE comp(la, lb)
      <4>1. winner = la /\ loser = lb
        BY <3>1
      <4> QED BY <1>2, <4>1
    <3>2. CASE ~comp(la, lb)
      <4>1. winner = lb /\ loser = la
        BY <1>2, <3>2
      <4> QED BY <1>2, <4>1
    <3> QED BY <3>1, <3>2
  <2> HIDE DEF winner, loser
  <2>3. /\ all = known /\ la \in known /\ lb \in known
        /\ winner \in known /\ loser \in known
        /\ leader_[winner] = winner /\ leader_[loser] = loser
    <3>1. /\ all = known /\ la \in known /\ lb \in known
          /\ leader_[la] = la /\ leader_[lb] = lb
      BY <1>0, <1>2
    <3>2. winner \in {la, lb} /\ loser \in {la, lb}
      BY <2>2, Zenon
    <3> HIDE DEF all, known, la, lb
    <3> QED BY <3>1, <3>2
  <2>4. \A t \in known : In(t) <=> leader_[t] \in {winner, loser}
    BY <1>2, <1>0, <2>2 DEF OnSide
  <2>5. /\ group_[winner] = {t \in known : leader_[t] = winner}
        /\ group_[loser] = {t \in known : leader_[t] = loser}
        /\ group_[la] \cup group_[lb] = {t \in known : leader_[t] \in {winner, loser}}
    BY <1>0, <2>2, <2>3
  <2>6. leader_' = [t \in known |-> IF leader_[t] = loser THEN winner ELSE leader_[t]]
    BY <1>0, <2>1, <2>5 DEF D!Lead
  <2>7. leader_' = [t \in known |-> IF In(t) THEN winner ELSE leader_[t]]
    BY <2>4, <2>6
  <2>8. DOMAIN group_' = {leader_'[t] : t \in known}
    <3>1. DOMAIN group_' = ({leader_[t] : t \in known} \cup {winner}) \ {loser}
      BY <1>0, <2>1 DEF D!Put
    <3>2. {leader_'[t] : t \in known} = ({leader_[t] : t \in known} \cup {winner}) \ {loser}
      <4>1. ASSUME NEW t \in known PROVE leader_'[t] \in ({leader_[u] : u \in known} \cup {winner}) \ {loser}
        BY <2>2, <2>6
      <4>2. ASSUME NEW t \in known, leader_[t] # loser PROVE leader_[t] = leader_'[t]
        BY <4>2, <2>6
      <4>3. winner = leader_'[winner]
        BY <2>2, <2>3, <2>6
      <4> QED BY <4>1, <4>2, <4>3, <2>3
    <3> QED BY <3>1, <3>2
  <2>9. group_' = [m \in {leader_'[t] : t \in known} |-> {t \in known : leader_'[t] = m}]
    <3>1. ASSUME NEW m \in DOMAIN group_' PROVE group_'[m] = {t \in known : leader_'[t] = m}
      <4>1. m # loser /\ (m = winner \/ m \in DOMAIN group_)
        BY <2>1, <3>1 DEF D!Put
      <4>2. group_'[m] = IF m = winner THEN group_[la] \cup group_[lb] ELSE group_[m]
        BY <2>1, <3>1 DEF D!Put
      <4>3. CASE m = winner
        <5>1. group_'[m] = {t \in known : leader_[t] \in {winner, loser}}
          BY <4>2, <4>3, <2>5
        <5>2. {t \in known : leader_[t] \in {winner,
            loser}} = {t \in known : leader_'[t] = winner}
          BY <2>2, <2>6
        <5> QED BY <4>3, <5>1, <5>2
      <4>4. CASE m # winner
        <5>1. group_'[m] = {t \in known : leader_[t] = m}
          BY <4>1, <4>2, <4>4, <1>0
        <5>2. {t \in known : leader_[t] = m} = {t \in known : leader_'[t] = m}
          BY <4>1, <4>4, <2>6
        <5> QED BY <5>1, <5>2
      <4> QED BY <4>3, <4>4
    <3>2. group_' = [m \in DOMAIN group_' |-> group_'[m]]
      BY <2>1 DEF D!Put
    <3> QED BY <2>8, <3>1, <3>2
  <2>10. In(winner)
    BY <2>3, <2>4
  <2>11. leader_' \in [known -> known]
    BY <1>0, <2>3, <2>7
  <2>12. Joined(known, leader_', group_', a, b, winner)
    <3>1. \A t \in known : leader_'[t] = IF In(t) THEN winner ELSE leader_[t]
      BY <2>7
    <3> QED BY <2>3, <3>1, <2>9, <2>10, <2>11 DEF Joined
  <2> QED BY <2>12
<1>3. ASSUME NEW c \in {a, b}, NEW d \in {a, b}, {c, d} = {a, b}, c \in known, d \notin known,
             D!join(leader_[c], d)
      PROVE  Joined(all, leader_', group_', a, b, leader_[c])
  <2> DEFINE l == leader_[c]
  <2>1. /\ leader_' = D!Lead(l, {d})
        /\ group_' = D!Put(group_, l, group_[l] \cup {d}, {})
    BY <1>3 DEF D!join
  <2>2. l \in known /\ leader_[l] = l /\ c # d
    BY <1>0, <1>3
  <2> HIDE DEF l
  <2>3. /\ DOMAIN leader_ \cup {d} = all
        /\ \A t \in known : In(t) <=> leader_[t] = l
        /\ In(d) /\ In(l)
    BY <1>0, <1>3, <2>2 DEF OnSide, l
  <2>4. leader_' = [t \in all |-> IF t = d THEN l ELSE leader_[t]]
    BY <2>1, <2>3 DEF D!Lead
  <2>5. \A t \in all : t # d => t \in known
    BY <1>0, <2>3
  <2>6. DOMAIN group_' = {leader_'[t] : t \in all}
    <3>1. DOMAIN group_' = {leader_[t] : t \in known}
      BY <1>0, <2>1, <2>2 DEF D!Put
    <3>2. \A t \in known : leader_'[t] = leader_[t]
      BY <1>3, <2>4
    <3>3. leader_'[d] = leader_[l] /\ d \in all
      BY <1>3, <2>2, <2>4
    <3> QED BY <3>1, <3>2, <3>3, <2>2, <2>5
  <2>7. group_' = [m \in {leader_'[t] : t \in all} |->
                     {t \in all : leader_'[t] = m}]
    <3>1. ASSUME NEW m \in DOMAIN group_'
          PROVE  group_'[m] = {t \in all : leader_'[t] = m}
      <4>1. m \in DOMAIN group_ /\ group_'[m] = IF m = l THEN group_[l] \cup {d} ELSE group_[m]
        BY <1>0, <2>1, <2>2, <3>1 DEF D!Put
      <4>2. group_[m] = {t \in known : leader_[t] = m}
        BY <1>0, <4>1
      <4>3. \A t \in known : leader_'[t] = leader_[t] /\ t # d
        BY <1>3, <2>4
      <4>4. leader_'[d] = l /\ d \in all
        BY <1>3, <2>4
      <4> QED BY <4>1, <4>2, <4>3, <4>4, <2>5
    <3>2. group_' = [m \in DOMAIN group_' |-> group_'[m]]
      BY <2>1 DEF D!Put
    <3> QED BY <2>6, <3>1, <3>2
  <2>8. \A t \in all : leader_'[t] = IF In(t) THEN l ELSE leader_[t]
    BY <2>3, <2>4, <2>5
  <2>9. leader_' \in [all -> all]
    BY <1>0, <2>2, <2>4, <2>5
  <2>10. Joined(all, leader_', group_', a, b, l)
    BY <2>2, <2>3, <2>7, <2>8, <2>9 DEF Joined
  <2> QED BY <2>10 DEF l
<1>4. CASE a \in known /\ b \notin known
  <2>1. D!join(leader_[a], b)
    BY <1>0, <1>4 DEF D!add
  <2> QED BY <1>3, <1>4, <2>1
<1>5. CASE b \in known /\ a \notin known
  <2>1. D!join(leader_[b], a)
    BY <1>0, <1>5 DEF D!add
  <2> QED BY <1>3, <1>5, <2>1
<1>6. CASE a \notin known /\ b \notin known
  <2> DEFINE l == IF comp(a, b) THEN a ELSE b
  <2>1. leader_' = D!Lead(l, {a, b}) /\ group_' = D!Put(group_, l, {a, b}, {})
    BY <1>0, <1>6 DEF D!add, D!found
  <2>2. l \in {a, b}
    OBVIOUS
  <2> HIDE DEF l
  <2>3. /\ \A t \in known : ~In(t) /\ t \notin {a, b} /\ leader_[t] \in known
        /\ In(l) /\ l \notin known
        /\ \A t \in {a, b} : In(t)
    BY <1>0, <1>6, <2>2 DEF OnSide
  <2>4. leader_' = [t \in all |-> IF t \in {a, b} THEN l ELSE leader_[t]]
    BY <1>0, <2>1 DEF D!Lead
  <2>5. DOMAIN group_' = {leader_'[t] : t \in all}
    <3>1. DOMAIN group_' = {leader_[t] : t \in known} \cup {l}
      BY <1>0, <2>1 DEF D!Put
    <3>2. \A t \in known : leader_'[t] = leader_[t]
      BY <2>3, <2>4
    <3>3. \A t \in {a, b} : leader_'[t] = l
      BY <2>4
    <3> QED BY <3>1, <3>2, <3>3
  <2>6. group_' = [m \in {leader_'[t] : t \in all} |->
                     {t \in all : leader_'[t] = m}]
    <3>1. ASSUME NEW m \in DOMAIN group_'
          PROVE  group_'[m] = {t \in all : leader_'[t] = m}
      <4>1. (m \in DOMAIN group_ \/ m = l) /\ group_'[m] = IF m = l THEN {a, b} ELSE group_[m]
        BY <1>0, <2>1, <3>1 DEF D!Put
      <4>2. \A t \in known : leader_'[t] = leader_[t] /\ leader_[t] # l
        BY <2>3, <2>4
      <4>3. \A t \in {a, b} : leader_'[t] = l
        BY <2>4
      <4>4. m # l => group_[m] = {t \in known : leader_[t] = m}
        BY <1>0, <4>1
      <4> QED BY <4>1, <4>2, <4>3, <4>4
    <3>2. group_' = [m \in DOMAIN group_' |-> group_'[m]]
      BY <2>1 DEF D!Put
    <3> QED BY <2>5, <3>1, <3>2
  <2>7. leader_' \in [all -> all]
    BY <1>0, <2>2, <2>4
  <2>8. \A t \in all : leader_'[t] = IF In(t) THEN l ELSE leader_[t]
    BY <2>3, <2>4
  <2>9. Joined(all, leader_', group_', a, b, l)
    BY <2>2, <2>3, <2>6, <2>7, <2>8 DEF Joined
  <2> QED BY <2>9
<1> QED BY <1>1, <1>2, <1>4, <1>5, <1>6

\* add() and clear() keep it.
LEMMA SetStep == SetInv /\ [D!Next]_setVars => SetInv'
<1> SUFFICES ASSUME SetInv, [D!Next]_setVars PROVE SetInv'
  OBVIOUS
<1>1. ASSUME NEW a \in Members, NEW b \in Members, D!add(a, b) PROVE SetInv'
  <2>1. added' = Append(added, {a, b}) /\ added \in Seq(SUBSET Members)
    BY <1>1 DEF D!add, SetInv
  <2>2. added' \in Seq(SUBSET Members)
    BY <2>1, {a, b} \in SUBSET Members
  <2>3. D!Pairs' = D!Pairs \cup {{a, b}}
    BY <2>1 DEF D!Pairs
  <2>4. UNION (D!Pairs') = (UNION D!Pairs) \cup {a, b}
    BY <2>3, UnionAdd
  <2>5. PICK known, l : Joined(known, leader_', group_', a, b, l)
    BY <1>1, AddJoins
  <2>6. /\ Unites(D!Pairs, leader_, a, b, leader_')
        /\ \A t \in known : leader_'[leader_'[t]] = leader_'[t]
    BY <2>5, JoinedUnites
  <2>7. Leads(D!Pairs', leader_')
    BY <2>3, <2>6, UniteLeads DEF SetInv
  <2>8. /\ known = UNION (D!Pairs')
        /\ group_' = [m \in {leader_'[t] : t \in known} |-> {t \in known : leader_'[t] = m}]
    BY <2>4, <2>5 DEF Joined
  <2> QED BY <2>2, <2>6, <2>7, <2>8 DEF SetInv
<1>2. CASE D!clear
  <2>1. D!Init'
    BY <1>2 DEF D!clear, D!Init
  <2> QED BY <2>1, SetInit, PTL
<1>3. CASE UNCHANGED setVars
  <2>1. leader_' = leader_ /\ group_' = group_ /\ added' = added
    BY <1>3 DEF setVars
  <2>2. D!Pairs' = D!Pairs
    BY <2>1 DEF D!Pairs
  <2> QED BY <2>1, <2>2 DEF SetInv
<1> QED BY <1>1, <1>2, <1>3 DEF D!Next

------------------------------------------------------------------------------
(* Sort inference.                                                         *)

\* A sort the library knows has the fields of its kind.
LEMMA SortFacts ==
  ASSUME NEW s, S!AreSorts(s)
  PROVE  /\ Len(s) \in Nat /\ DOMAIN s = 1..Len(s)
         /\ \A k \in DOMAIN s : s[k].sk = "BOOL" <=> s[k] = S!BOOL
         /\ \A k \in DOMAIN s : s[k].sk = "INT" <=> s[k] = S!INT
         /\ \A k \in DOMAIN s : s[k].sk = "REAL" <=> s[k] = S!REAL
         /\ \A k \in DOMAIN s : s[k].sk = "STRING" <=> s[k] = S!StringSort
         /\ \A k \in DOMAIN s : s[k].sk = "BV" => s[k].width \in Nat
         /\ \A k \in DOMAIN s : s[k].sk = "FUNCTION" => S!IsSequence(s[k].domain)
<1>1. s \in Seq({s[k] : k \in DOMAIN s})
  BY DEF S!AreSorts, S!IsSequence
<1>2. Len(s) \in Nat /\ DOMAIN s = 1..Len(s)
  BY <1>1
<1>3. ASSUME NEW t, S!IsSort(t)
      PROVE  /\ t.sk = "BOOL" <=> t = S!BOOL
             /\ t.sk = "INT" <=> t = S!INT
             /\ t.sk = "REAL" <=> t = S!REAL
             /\ t.sk = "STRING" <=> t = S!StringSort
             /\ t.sk = "BV" => t.width \in Nat
             /\ t.sk = "FUNCTION" => S!IsSequence(t.domain)
  BY <1>3 DEF S!IsSort, S!BOOL, S!INT, S!REAL, S!StringSort
<1>4. \A k \in DOMAIN s : S!IsSort(s[k])
  BY DEF S!AreSorts
<1> QED BY <1>2, <1>3, <1>4

\* Every sort has the kind that its fields say, so that to compare kinds is to
\* compare sorts wherever a kind has no fields.
LEMMA KindsTell ==
  ASSUME NEW s, S!AreSorts(s)
  PROVE  /\ Len(s) \in Nat /\ Len(s) <= S!INT_MAX /\ DOMAIN s = 1..Len(s)
         /\ Len(s) = 1 => DOMAIN s = {1}
         /\ Len(s) = 2 => DOMAIN s = {1, 2}
         /\ Len(s) = 3 => DOMAIN s = {1, 2, 3}
         /\ Len(s) >= 1 => 1 \in DOMAIN s
         /\ S!bool_sorts(s) <=> S!All(s, S!BOOL)
         /\ S!int_sorts(s) <=> S!All(s, S!INT)
         /\ S!real_sorts(s) <=> S!All(s, S!REAL)
         /\ S!string_sorts(s) <=> S!All(s, S!StringSort)
         /\ S!arithmetic_sorts(s) <=> \A k \in DOMAIN s : s[k] \in {S!INT, S!REAL}
         /\ S!equal_sorts(s) <=> S!Same(s)
         /\ S!bv_sorts(s) <=> \A k \in DOMAIN s : S!IsBv(s[k])
<1>1. Len(s) \in Nat /\ DOMAIN s = 1..Len(s) /\ Len(s) <= S!INT_MAX
  BY SortFacts DEF S!AreSorts
<1>2. /\ Len(s) = 1 => DOMAIN s = {1}
      /\ Len(s) = 2 => DOMAIN s = {1, 2}
      /\ Len(s) = 3 => DOMAIN s = {1, 2, 3}
      /\ Len(s) >= 1 => 1 \in DOMAIN s
  BY <1>1
<1>3. /\ S!bool_sorts(s) <=> S!All(s, S!BOOL)
      /\ S!int_sorts(s) <=> S!All(s, S!INT)
      /\ S!real_sorts(s) <=> S!All(s, S!REAL)
      /\ S!string_sorts(s) <=> S!All(s, S!StringSort)
  BY SortFacts DEF S!bool_sorts, S!int_sorts, S!real_sorts, S!string_sorts,
       S!check_sortkind_matches, S!All
<1>4. S!arithmetic_sorts(s) <=> \A k \in DOMAIN s : s[k] \in {S!INT, S!REAL}
  BY SortFacts DEF S!arithmetic_sorts, S!check_one_of_sortkinds
<1>5. /\ S!equal_sorts(s) <=> S!Same(s)
      /\ S!bv_sorts(s) <=> \A k \in DOMAIN s : S!IsBv(s[k])
  BY DEF S!equal_sorts, S!Same, S!All, S!bv_sorts, S!check_sortkind_matches, S!IsBv
<1> QED BY <1>1, <1>2, <1>3, <1>4, <1>5

\* Sort inference is right for And, Or, Xor, Implies and Iff.
LEMMA InferConnectives ==
  ASSUME NEW op, NEW s, NEW n \in Nat, Len(s) = n, S!IsOperator(op), S!AreSorts(s),
      op.p \in S!Connectives
  PROVE  S!InferenceRight(op, s)
<1>1. S!sort_check(op.p, s) <=> S!bool_sorts(s)
  BY DEF S!sort_check, S!Connectives, S!Comparisons, S!BvOps, S!BvComparisons, S!BvSame,
      S!StrTests
<1>2. S!compute_sort(op, s) = S!BOOL
  BY DEF S!compute_sort, S!Connectives, S!Comparisons, S!BvOps, S!BvComparisons, S!BvSame,
      S!StrTests
<1>3. S!Rank(op, s) = S!If(n >= 2 /\ S!All(s, S!BOOL), S!BOOL)
  BY DEF S!Rank, S!Connectives, S!Comparisons, S!BvOps, S!BvComparisons, S!BvSame, S!StrTests
<1>4. S!get_arity(op.p)[1] = 2 /\ S!get_arity(op.p)[2] = 2
  BY DEF S!get_arity, S!Unary, S!Ternary, S!Nary, S!Connectives
<1>4a. S!check_sortedness(op, s) <=> n >= 2 /\ n <= 2 /\ S!bool_sorts(s)
  BY <1>1, <1>4 DEF S!check_sortedness
<1>5. S!check_sortedness(op, s) <=> n = 2 /\ S!bool_sorts(s)
  <2>1. n >= 2 /\ n <= 2 <=> n = 2
    OBVIOUS
  <2> QED BY <1>4a, <2>1
<1>6. /\ n = 1 => DOMAIN s = {1}
      /\ n = 2 => DOMAIN s = {1, 2}
      /\ n = 3 => DOMAIN s = {1, 2, 3}
      /\ n >= 1 => 1 \in DOMAIN s
      /\ n <= S!INT_MAX
  BY KindsTell
<1>7. S!bool_sorts(s) <=> S!All(s, S!BOOL)
  BY KindsTell
<1>8. S!check_sortedness(op, s) /\ ~S!Lenient(op, s) /\ op.p # "Abs"
        => S!Rank(op, s) = {S!compute_sort(op, s)}
  BY <1>2, <1>3, <1>5, <1>6, <1>7
     DEF S!If, S!All, S!Same, S!IsBv, S!Lenient, S!Mixed
<1>9. S!Rank(op, s) # {} /\ ~S!Strict(op, s) => S!check_sortedness(op, s)
  BY <1>2, <1>3, <1>5, <1>6, <1>7
     DEF S!If, S!All, S!Same, S!IsBv, S!Strict, S!Unary, S!Ternary, S!Nary, S!Connectives
<1>10. S!Rank(op, s) # {} => S!compute_sort(op, s) \in S!Rank(op, s)
  BY <1>2, <1>3, <1>5, <1>6, <1>7 DEF S!If, S!All, S!Same, S!IsBv
<1> QED BY <1>8, <1>9, <1>10 DEF S!InferenceRight

\* Sort inference is right for Not.
LEMMA InferNot ==
  ASSUME NEW op, NEW s, NEW n \in Nat, Len(s) = n, S!IsOperator(op), S!AreSorts(s), op.p = "Not"
  PROVE  S!InferenceRight(op, s)
<1>1. S!sort_check(op.p, s) <=> S!bool_sorts(s)
  BY DEF S!sort_check, S!Connectives, S!Comparisons, S!BvOps, S!BvComparisons, S!BvSame,
      S!StrTests
<1>2. S!compute_sort(op, s) = S!BOOL
  BY DEF S!compute_sort, S!Connectives, S!Comparisons, S!BvOps, S!BvComparisons, S!BvSame,
      S!StrTests
<1>3. S!Rank(op, s) = S!If(n = 1 /\ s[1] = S!BOOL, S!BOOL)
  BY DEF S!Rank, S!Connectives, S!Comparisons, S!BvOps, S!BvComparisons, S!BvSame, S!StrTests
<1>4. S!get_arity(op.p)[1] = 1 /\ S!get_arity(op.p)[2] = 1
  BY DEF S!get_arity, S!Unary, S!Ternary, S!Nary
<1>4a. S!check_sortedness(op, s) <=> n >= 1 /\ n <= 1 /\ S!bool_sorts(s)
  BY <1>1, <1>4 DEF S!check_sortedness
<1>5. S!check_sortedness(op, s) <=> n = 1 /\ S!bool_sorts(s)
  <2>1. n >= 1 /\ n <= 1 <=> n = 1
    OBVIOUS
  <2> QED BY <1>4a, <2>1
<1>6. /\ n = 1 => DOMAIN s = {1}
      /\ n = 2 => DOMAIN s = {1, 2}
      /\ n = 3 => DOMAIN s = {1, 2, 3}
      /\ n >= 1 => 1 \in DOMAIN s
      /\ n <= S!INT_MAX
  BY KindsTell
<1>7. S!bool_sorts(s) <=> S!All(s, S!BOOL)
  BY KindsTell
<1>8. S!check_sortedness(op, s) /\ ~S!Lenient(op, s) /\ op.p # "Abs"
        => S!Rank(op, s) = {S!compute_sort(op, s)}
  BY <1>2, <1>3, <1>5, <1>6, <1>7
     DEF S!If, S!All, S!Same, S!IsBv, S!Lenient, S!Mixed
<1>9. S!Rank(op, s) # {} /\ ~S!Strict(op, s) => S!check_sortedness(op, s)
  BY <1>2, <1>3, <1>5, <1>6, <1>7
     DEF S!If, S!All, S!Same, S!IsBv, S!Strict, S!Unary, S!Ternary, S!Nary
<1>10. S!Rank(op, s) # {} => S!compute_sort(op, s) \in S!Rank(op, s)
  BY <1>2, <1>3, <1>5, <1>6, <1>7 DEF S!If, S!All, S!Same, S!IsBv
<1> QED BY <1>8, <1>9, <1>10 DEF S!InferenceRight

\* Sort inference is right for Ite.
LEMMA InferIte ==
  ASSUME NEW op, NEW s, NEW n \in Nat, Len(s) = n, S!IsOperator(op), S!AreSorts(s), op.p = "Ite"
  PROVE  S!InferenceRight(op, s)
<1>1. S!sort_check(op.p, s) <=> S!check_ite_sorts(s)
  BY DEF S!sort_check, S!Connectives, S!Comparisons, S!BvOps, S!BvComparisons, S!BvSame,
      S!StrTests
<1>2. S!compute_sort(op, s) = s[2]
  BY DEF S!compute_sort, S!Connectives, S!Comparisons, S!BvOps, S!BvComparisons, S!BvSame,
      S!StrTests
<1>3. S!Rank(op, s) = S!If(n = 3 /\ s[1] = S!BOOL /\ s[2] = s[3], s[2])
  BY DEF S!Rank, S!Connectives, S!Comparisons, S!BvOps, S!BvComparisons, S!BvSame, S!StrTests
<1>4. S!get_arity(op.p)[1] = 3 /\ S!get_arity(op.p)[2] = 3
  BY DEF S!get_arity, S!Unary, S!Ternary, S!Nary
<1>4a. S!check_sortedness(op, s) <=> n >= 3 /\ n <= 3 /\ S!check_ite_sorts(s)
  BY <1>1, <1>4 DEF S!check_sortedness
<1>5. S!check_sortedness(op, s) <=> n = 3 /\ S!check_ite_sorts(s)
  <2>1. n >= 3 /\ n <= 3 <=> n = 3
    OBVIOUS
  <2> QED BY <1>4a, <2>1
<1>6. /\ n = 1 => DOMAIN s = {1}
      /\ n = 2 => DOMAIN s = {1, 2}
      /\ n = 3 => DOMAIN s = {1, 2, 3}
      /\ n >= 1 => 1 \in DOMAIN s
      /\ n <= S!INT_MAX
  BY KindsTell
<1>7. (S!arithmetic_sorts(s) <=> \A k \in DOMAIN s : s[k] \in {S!INT,
    S!REAL}) /\ (S!equal_sorts(s) <=> S!Same(s)) /\ (S!int_sorts(s) <=> S!All(s, S!INT))
  BY KindsTell
<1>0. 1 \in DOMAIN s => (s[1].sk = "BOOL" <=> s[1] = S!BOOL)
  BY <1>6, SortFacts
<1>8. S!check_sortedness(op, s) /\ ~S!Lenient(op, s) /\ op.p # "Abs"
        => S!Rank(op, s) = {S!compute_sort(op, s)}
  BY <1>2, <1>3, <1>5, <1>6, <1>7, <1>0
     DEF S!If, S!All, S!Same, S!IsBv, S!Lenient, S!Mixed, S!check_ite_sorts
<1>9. S!Rank(op, s) # {} /\ ~S!Strict(op, s) => S!check_sortedness(op, s)
  BY <1>2, <1>3, <1>5, <1>6, <1>7, <1>0
     DEF S!If, S!All, S!Same, S!IsBv, S!Strict, S!Unary, S!Ternary, S!Nary, S!check_ite_sorts
<1>10. S!Rank(op, s) # {} => S!compute_sort(op, s) \in S!Rank(op, s)
  BY <1>2, <1>3, <1>5, <1>6, <1>7, <1>0 DEF S!If, S!All, S!Same, S!IsBv, S!check_ite_sorts
<1> QED BY <1>8, <1>9, <1>10 DEF S!InferenceRight

\* Sort inference is right for Equal and Distinct.
LEMMA InferEqual ==
  ASSUME NEW op, NEW s, NEW n \in Nat, Len(s) = n, S!IsOperator(op), S!AreSorts(s),
      op.p \in {"Equal", "Distinct"}
  PROVE  S!InferenceRight(op, s)
<1>1. S!sort_check(op.p, s) <=> S!arith_equal_sorts(s)
  BY DEF S!sort_check, S!Connectives, S!Comparisons, S!BvOps, S!BvComparisons, S!BvSame,
      S!StrTests
<1>2. S!compute_sort(op, s) = S!BOOL
  BY DEF S!compute_sort, S!Connectives, S!Comparisons, S!BvOps, S!BvComparisons, S!BvSame,
      S!StrTests
<1>3. S!Rank(op, s) = S!If(n >= 2 /\ S!Same(s), S!BOOL)
  BY DEF S!Rank, S!Connectives, S!Comparisons, S!BvOps, S!BvComparisons, S!BvSame, S!StrTests
<1>4. S!get_arity(op.p)[1] = 2 /\ S!get_arity(op.p)[2] = 2
  BY DEF S!get_arity, S!Unary, S!Ternary, S!Nary
<1>4a. S!check_sortedness(op, s) <=> n >= 2 /\ n <= 2 /\ S!arith_equal_sorts(s)
  BY <1>1, <1>4 DEF S!check_sortedness
<1>5. S!check_sortedness(op, s) <=> n = 2 /\ S!arith_equal_sorts(s)
  <2>1. n >= 2 /\ n <= 2 <=> n = 2
    OBVIOUS
  <2> QED BY <1>4a, <2>1
<1>6. /\ n = 1 => DOMAIN s = {1}
      /\ n = 2 => DOMAIN s = {1, 2}
      /\ n = 3 => DOMAIN s = {1, 2, 3}
      /\ n >= 1 => 1 \in DOMAIN s
      /\ n <= S!INT_MAX
  BY KindsTell
<1>7. (S!arithmetic_sorts(s) <=> \A k \in DOMAIN s : s[k] \in {S!INT,
    S!REAL}) /\ (S!equal_sorts(s) <=> S!Same(s)) /\ (S!int_sorts(s) <=> S!All(s, S!INT))
  BY KindsTell
<1>8. S!check_sortedness(op, s) /\ ~S!Lenient(op, s) /\ op.p # "Abs"
        => S!Rank(op, s) = {S!compute_sort(op, s)}
  BY <1>2, <1>3, <1>5, <1>6, <1>7
     DEF S!If, S!IsBv, S!Lenient, S!Mixed, S!arith_equal_sorts
<1>9. S!Rank(op, s) # {} /\ ~S!Strict(op, s) => S!check_sortedness(op, s)
  BY <1>2, <1>3, <1>5, <1>6, <1>7
     DEF S!If, S!IsBv, S!Strict, S!Unary, S!Ternary, S!Nary, S!arith_equal_sorts
<1>10. S!Rank(op, s) # {} => S!compute_sort(op, s) \in S!Rank(op, s)
  BY <1>2, <1>3, <1>5, <1>6, <1>7 DEF S!If, S!IsBv, S!arith_equal_sorts
<1> QED BY <1>8, <1>9, <1>10 DEF S!InferenceRight

\* Sort inference is right for Plus, Minus and Mult.
LEMMA InferSum ==
  ASSUME NEW op, NEW s, NEW n \in Nat, Len(s) = n, S!IsOperator(op), S!AreSorts(s),
      op.p \in {"Plus", "Minus", "Mult"}
  PROVE  S!InferenceRight(op, s)
<1>1. S!sort_check(op.p, s) <=> S!arithmetic_sorts(s)
  BY DEF S!sort_check, S!Connectives, S!Comparisons, S!BvOps, S!BvComparisons, S!BvSame,
      S!StrTests
<1>2. S!compute_sort(op, s) = s[1]
  BY DEF S!compute_sort, S!Connectives, S!Comparisons, S!BvOps, S!BvComparisons, S!BvSame,
      S!StrTests
<1>3. S!Rank(op, s) = S!If(n >= 2 /\ S!Same(s) /\ s[1] \in {S!INT, S!REAL}, s[1])
  BY DEF S!Rank, S!Connectives, S!Comparisons, S!BvOps, S!BvComparisons, S!BvSame, S!StrTests
<1>4. S!get_arity(op.p)[1] = 2 /\ S!get_arity(op.p)[2] = 2
  BY DEF S!get_arity, S!Unary, S!Ternary, S!Nary
<1>4a. S!check_sortedness(op, s) <=> n >= 2 /\ n <= 2 /\ S!arithmetic_sorts(s)
  BY <1>1, <1>4 DEF S!check_sortedness
<1>5. S!check_sortedness(op, s) <=> n = 2 /\ S!arithmetic_sorts(s)
  <2>1. n >= 2 /\ n <= 2 <=> n = 2
    OBVIOUS
  <2> QED BY <1>4a, <2>1
<1>6. /\ n = 1 => DOMAIN s = {1}
      /\ n = 2 => DOMAIN s = {1, 2}
      /\ n = 3 => DOMAIN s = {1, 2, 3}
      /\ n >= 1 => 1 \in DOMAIN s
      /\ n <= S!INT_MAX
  BY KindsTell
<1>7. (S!arithmetic_sorts(s) <=> \A k \in DOMAIN s : s[k] \in {S!INT,
    S!REAL}) /\ (S!equal_sorts(s) <=> S!Same(s)) /\ (S!int_sorts(s) <=> S!All(s, S!INT))
  BY KindsTell
<1>8. S!check_sortedness(op, s) /\ ~S!Lenient(op, s) /\ op.p # "Abs"
        => S!Rank(op, s) = {S!compute_sort(op, s)}
  BY <1>2, <1>3, <1>5, <1>6, <1>7
     DEF S!If, S!IsBv, S!Lenient, S!Mixed
<1>9. S!Rank(op, s) # {} /\ ~S!Strict(op, s) => S!check_sortedness(op, s)
  BY <1>2, <1>3, <1>5, <1>6, <1>7
     DEF S!If, S!All, S!Same, S!IsBv, S!Strict, S!Unary, S!Ternary, S!Nary
<1>10. S!Rank(op, s) # {} => S!compute_sort(op, s) \in S!Rank(op, s)
  BY <1>2, <1>3, <1>5, <1>6, <1>7 DEF S!If, S!IsBv
<1> QED BY <1>8, <1>9, <1>10 DEF S!InferenceRight

\* Sort inference is right for Negate.
LEMMA InferNegate ==
  ASSUME NEW op, NEW s, NEW n \in Nat, Len(s) = n, S!IsOperator(op), S!AreSorts(s),
      op.p = "Negate"
  PROVE  S!InferenceRight(op, s)
<1>1. S!sort_check(op.p, s) <=> S!arithmetic_sorts(s)
  BY DEF S!sort_check, S!Connectives, S!Comparisons, S!BvOps, S!BvComparisons, S!BvSame,
      S!StrTests
<1>2. S!compute_sort(op, s) = s[1]
  BY DEF S!compute_sort, S!Connectives, S!Comparisons, S!BvOps, S!BvComparisons, S!BvSame,
      S!StrTests
<1>3. S!Rank(op, s) = S!If(n = 1 /\ s[1] \in {S!INT, S!REAL}, s[1])
  BY DEF S!Rank, S!Connectives, S!Comparisons, S!BvOps, S!BvComparisons, S!BvSame, S!StrTests
<1>4. S!get_arity(op.p)[1] = 1 /\ S!get_arity(op.p)[2] = 1
  BY DEF S!get_arity, S!Unary, S!Ternary, S!Nary
<1>4a. S!check_sortedness(op, s) <=> n >= 1 /\ n <= 1 /\ S!arithmetic_sorts(s)
  BY <1>1, <1>4 DEF S!check_sortedness
<1>5. S!check_sortedness(op, s) <=> n = 1 /\ S!arithmetic_sorts(s)
  <2>1. n >= 1 /\ n <= 1 <=> n = 1
    OBVIOUS
  <2> QED BY <1>4a, <2>1
<1>6. /\ n = 1 => DOMAIN s = {1}
      /\ n = 2 => DOMAIN s = {1, 2}
      /\ n = 3 => DOMAIN s = {1, 2, 3}
      /\ n >= 1 => 1 \in DOMAIN s
      /\ n <= S!INT_MAX
  BY KindsTell
<1>7. (S!arithmetic_sorts(s) <=> \A k \in DOMAIN s : s[k] \in {S!INT,
    S!REAL}) /\ (S!equal_sorts(s) <=> S!Same(s)) /\ (S!int_sorts(s) <=> S!All(s, S!INT))
  BY KindsTell
<1>8. S!check_sortedness(op, s) /\ ~S!Lenient(op, s) /\ op.p # "Abs"
        => S!Rank(op, s) = {S!compute_sort(op, s)}
  BY <1>2, <1>3, <1>5, <1>6, <1>7
     DEF S!If, S!IsBv, S!Lenient, S!Mixed
<1>9. S!Rank(op, s) # {} /\ ~S!Strict(op, s) => S!check_sortedness(op, s)
  BY <1>2, <1>3, <1>5, <1>6, <1>7
     DEF S!If, S!IsBv, S!Strict, S!Unary, S!Ternary, S!Nary
<1>10. S!Rank(op, s) # {} => S!compute_sort(op, s) \in S!Rank(op, s)
  BY <1>2, <1>3, <1>5, <1>6, <1>7 DEF S!If, S!IsBv
<1> QED BY <1>8, <1>9, <1>10 DEF S!InferenceRight

\* Sort inference is right for Div.
LEMMA InferDiv ==
  ASSUME NEW op, NEW s, NEW n \in Nat, Len(s) = n, S!IsOperator(op), S!AreSorts(s), op.p = "Div"
  PROVE  S!InferenceRight(op, s)
<1>1. S!sort_check(op.p, s) <=> S!arithmetic_sorts(s)
  BY DEF S!sort_check, S!Connectives, S!Comparisons, S!BvOps, S!BvComparisons, S!BvSame,
      S!StrTests
<1>2. S!compute_sort(op, s) = s[1]
  BY DEF S!compute_sort, S!Connectives, S!Comparisons, S!BvOps, S!BvComparisons, S!BvSame,
      S!StrTests
<1>3. S!Rank(op, s) = S!If(n >= 2 /\ S!All(s, S!REAL), S!REAL)
  BY DEF S!Rank, S!Connectives, S!Comparisons, S!BvOps, S!BvComparisons, S!BvSame, S!StrTests
<1>4. S!get_arity(op.p)[1] = 2 /\ S!get_arity(op.p)[2] = 2
  BY DEF S!get_arity, S!Unary, S!Ternary, S!Nary
<1>4a. S!check_sortedness(op, s) <=> n >= 2 /\ n <= 2 /\ S!arithmetic_sorts(s)
  BY <1>1, <1>4 DEF S!check_sortedness
<1>5. S!check_sortedness(op, s) <=> n = 2 /\ S!arithmetic_sorts(s)
  <2>1. n >= 2 /\ n <= 2 <=> n = 2
    OBVIOUS
  <2> QED BY <1>4a, <2>1
<1>6. /\ n = 1 => DOMAIN s = {1}
      /\ n = 2 => DOMAIN s = {1, 2}
      /\ n = 3 => DOMAIN s = {1, 2, 3}
      /\ n >= 1 => 1 \in DOMAIN s
      /\ n <= S!INT_MAX
  BY KindsTell
<1>7. (S!arithmetic_sorts(s) <=> \A k \in DOMAIN s : s[k] \in {S!INT,
    S!REAL}) /\ (S!equal_sorts(s) <=> S!Same(s)) /\ (S!int_sorts(s) <=> S!All(s, S!INT))
  BY KindsTell
<1>8. S!check_sortedness(op, s) /\ ~S!Lenient(op, s) /\ op.p # "Abs"
        => S!Rank(op, s) = {S!compute_sort(op, s)}
  BY <1>2, <1>3, <1>5, <1>6, <1>7
     DEF S!If, S!All, S!Same, S!IsBv, S!Lenient, S!Mixed
<1>9. S!Rank(op, s) # {} /\ ~S!Strict(op, s) => S!check_sortedness(op, s)
  BY <1>2, <1>3, <1>5, <1>6, <1>7
     DEF S!If, S!All, S!Same, S!IsBv, S!Strict, S!Unary, S!Ternary, S!Nary
<1>10. S!Rank(op, s) # {} => S!compute_sort(op, s) \in S!Rank(op, s)
  BY <1>2, <1>3, <1>5, <1>6, <1>7 DEF S!If, S!All, S!Same, S!IsBv
<1> QED BY <1>8, <1>9, <1>10 DEF S!InferenceRight

\* Sort inference is right for IntDiv and Mod.
LEMMA InferIntDiv ==
  ASSUME NEW op, NEW s, NEW n \in Nat, Len(s) = n, S!IsOperator(op), S!AreSorts(s),
      op.p \in {"IntDiv", "Mod"}
  PROVE  S!InferenceRight(op, s)
<1>1. S!sort_check(op.p, s) <=> S!int_sorts(s)
  BY DEF S!sort_check, S!Connectives, S!Comparisons, S!BvOps, S!BvComparisons, S!BvSame,
      S!StrTests
<1>2. S!compute_sort(op, s) = S!INT
  BY DEF S!compute_sort, S!Connectives, S!Comparisons, S!BvOps, S!BvComparisons, S!BvSame,
      S!StrTests
<1>3. S!Rank(op, s) = S!If(n = 2 /\ S!All(s, S!INT), S!INT)
  BY DEF S!Rank, S!Connectives, S!Comparisons, S!BvOps, S!BvComparisons, S!BvSame, S!StrTests
<1>4. S!get_arity(op.p)[1] = 2 /\ S!get_arity(op.p)[2] = 2
  BY DEF S!get_arity, S!Unary, S!Ternary, S!Nary
<1>4a. S!check_sortedness(op, s) <=> n >= 2 /\ n <= 2 /\ S!int_sorts(s)
  BY <1>1, <1>4 DEF S!check_sortedness
<1>5. S!check_sortedness(op, s) <=> n = 2 /\ S!int_sorts(s)
  <2>1. n >= 2 /\ n <= 2 <=> n = 2
    OBVIOUS
  <2> QED BY <1>4a, <2>1
<1>6. /\ n = 1 => DOMAIN s = {1}
      /\ n = 2 => DOMAIN s = {1, 2}
      /\ n = 3 => DOMAIN s = {1, 2, 3}
      /\ n >= 1 => 1 \in DOMAIN s
      /\ n <= S!INT_MAX
  BY KindsTell
<1>7. S!int_sorts(s) <=> S!All(s, S!INT)
  BY KindsTell
<1>8. S!check_sortedness(op, s) /\ ~S!Lenient(op, s) /\ op.p # "Abs"
        => S!Rank(op, s) = {S!compute_sort(op, s)}
  BY <1>2, <1>3, <1>5, <1>6, <1>7
     DEF S!If, S!All, S!Same, S!IsBv, S!Lenient, S!Mixed
<1>9. S!Rank(op, s) # {} /\ ~S!Strict(op, s) => S!check_sortedness(op, s)
  BY <1>2, <1>3, <1>5, <1>6, <1>7
     DEF S!If, S!All, S!Same, S!IsBv, S!Strict, S!Unary, S!Ternary, S!Nary
<1>10. S!Rank(op, s) # {} => S!compute_sort(op, s) \in S!Rank(op, s)
  BY <1>2, <1>3, <1>5, <1>6, <1>7 DEF S!If, S!All, S!Same, S!IsBv
<1> QED BY <1>8, <1>9, <1>10 DEF S!InferenceRight

\* Sort inference is right for Pow.
LEMMA InferPow ==
  ASSUME NEW op, NEW s, NEW n \in Nat, Len(s) = n, S!IsOperator(op), S!AreSorts(s), op.p = "Pow"
  PROVE  S!InferenceRight(op, s)
<1>1. S!sort_check(op.p, s) <=> S!int_sorts(s)
  BY DEF S!sort_check, S!Connectives, S!Comparisons, S!BvOps, S!BvComparisons, S!BvSame,
      S!StrTests
<1>2. S!compute_sort(op, s) = s[1]
  BY DEF S!compute_sort, S!Connectives, S!Comparisons, S!BvOps, S!BvComparisons, S!BvSame,
      S!StrTests
<1>3. S!Rank(op, s) = S!If(n = 2 /\ S!All(s, S!INT), S!INT)
  BY DEF S!Rank, S!Connectives, S!Comparisons, S!BvOps, S!BvComparisons, S!BvSame, S!StrTests
<1>4. S!get_arity(op.p)[1] = 2 /\ S!get_arity(op.p)[2] = 2
  BY DEF S!get_arity, S!Unary, S!Ternary, S!Nary
<1>4a. S!check_sortedness(op, s) <=> n >= 2 /\ n <= 2 /\ S!int_sorts(s)
  BY <1>1, <1>4 DEF S!check_sortedness
<1>5. S!check_sortedness(op, s) <=> n = 2 /\ S!int_sorts(s)
  <2>1. n >= 2 /\ n <= 2 <=> n = 2
    OBVIOUS
  <2> QED BY <1>4a, <2>1
<1>6. /\ n = 1 => DOMAIN s = {1}
      /\ n = 2 => DOMAIN s = {1, 2}
      /\ n = 3 => DOMAIN s = {1, 2, 3}
      /\ n >= 1 => 1 \in DOMAIN s
      /\ n <= S!INT_MAX
  BY KindsTell
<1>7. S!int_sorts(s) <=> S!All(s, S!INT)
  BY KindsTell
<1>8. S!check_sortedness(op, s) /\ ~S!Lenient(op, s) /\ op.p # "Abs"
        => S!Rank(op, s) = {S!compute_sort(op, s)}
  BY <1>2, <1>3, <1>5, <1>6, <1>7
     DEF S!If, S!All, S!Same, S!IsBv, S!Lenient, S!Mixed
<1>9. S!Rank(op, s) # {} /\ ~S!Strict(op, s) => S!check_sortedness(op, s)
  BY <1>2, <1>3, <1>5, <1>6, <1>7
     DEF S!If, S!All, S!Same, S!IsBv, S!Strict, S!Unary, S!Ternary, S!Nary
<1>10. S!Rank(op, s) # {} => S!compute_sort(op, s) \in S!Rank(op, s)
  BY <1>2, <1>3, <1>5, <1>6, <1>7 DEF S!If, S!All, S!Same, S!IsBv
<1> QED BY <1>8, <1>9, <1>10 DEF S!InferenceRight

\* Sort inference is right for Abs.
LEMMA InferAbs ==
  ASSUME NEW op, NEW s, NEW n \in Nat, Len(s) = n, S!IsOperator(op), S!AreSorts(s), op.p = "Abs"
  PROVE  S!InferenceRight(op, s)
<1>1. S!sort_check(op.p, s) <=> S!int_sorts(s)
  BY DEF S!sort_check, S!Connectives, S!Comparisons, S!BvOps, S!BvComparisons, S!BvSame,
      S!StrTests
<1>2. S!compute_sort(op, s) = s[1]
  BY DEF S!compute_sort, S!Connectives, S!Comparisons, S!BvOps, S!BvComparisons, S!BvSame,
      S!StrTests
<1>3. S!Rank(op, s) = S!If(n = 1 /\ s[1] = S!INT, S!INT)
  BY DEF S!Rank, S!Connectives, S!Comparisons, S!BvOps, S!BvComparisons, S!BvSame, S!StrTests
<1>4. S!get_arity(op.p)[1] = 2 /\ S!get_arity(op.p)[2] = 2
  BY DEF S!get_arity, S!Unary, S!Ternary, S!Nary
<1>4a. S!check_sortedness(op, s) <=> n >= 2 /\ n <= 2 /\ S!int_sorts(s)
  BY <1>1, <1>4 DEF S!check_sortedness
<1>5. S!check_sortedness(op, s) <=> n = 2 /\ S!int_sorts(s)
  <2>1. n >= 2 /\ n <= 2 <=> n = 2
    OBVIOUS
  <2> QED BY <1>4a, <2>1
<1>6. /\ n = 1 => DOMAIN s = {1}
      /\ n = 2 => DOMAIN s = {1, 2}
      /\ n = 3 => DOMAIN s = {1, 2, 3}
      /\ n >= 1 => 1 \in DOMAIN s
      /\ n <= S!INT_MAX
  BY KindsTell
<1>7. S!int_sorts(s) <=> S!All(s, S!INT)
  BY KindsTell
<1>8. S!check_sortedness(op, s) /\ ~S!Lenient(op, s) /\ op.p # "Abs"
        => S!Rank(op, s) = {S!compute_sort(op, s)}
  BY <1>2, <1>3, <1>5, <1>6, <1>7
     DEF S!If, S!All, S!Same, S!IsBv, S!Lenient, S!Mixed
<1>9. S!Rank(op, s) # {} /\ ~S!Strict(op, s) => S!check_sortedness(op, s)
  BY <1>2, <1>3, <1>5, <1>6, <1>7
     DEF S!If, S!All, S!Same, S!IsBv, S!Strict, S!Unary, S!Ternary, S!Nary
<1>10. S!Rank(op, s) # {} => S!compute_sort(op, s) \in S!Rank(op, s)
  BY <1>2, <1>3, <1>5, <1>6, <1>7 DEF S!If, S!All, S!Same, S!IsBv
<1> QED BY <1>8, <1>9, <1>10 DEF S!InferenceRight

\* Sort inference is right for Lt, Le, Gt and Ge.
LEMMA InferComparisons ==
  ASSUME NEW op, NEW s, NEW n \in Nat, Len(s) = n, S!IsOperator(op), S!AreSorts(s),
      op.p \in S!Comparisons
  PROVE  S!InferenceRight(op, s)
<1>1. S!sort_check(op.p, s) <=> S!arithmetic_sorts(s)
  BY DEF S!sort_check, S!Connectives, S!Comparisons, S!BvOps, S!BvComparisons, S!BvSame,
      S!StrTests
<1>2. S!compute_sort(op, s) = S!BOOL
  BY DEF S!compute_sort, S!Connectives, S!Comparisons, S!BvOps, S!BvComparisons, S!BvSame,
      S!StrTests
<1>3. S!Rank(op, s) = S!If(n >= 2 /\ S!Same(s) /\ s[1] \in {S!INT, S!REAL}, S!BOOL)
  BY DEF S!Rank, S!Connectives, S!Comparisons, S!BvOps, S!BvComparisons, S!BvSame, S!StrTests
<1>4. S!get_arity(op.p)[1] = 2 /\ S!get_arity(op.p)[2] = 2
  BY DEF S!get_arity, S!Unary, S!Ternary, S!Nary, S!Comparisons
<1>4a. S!check_sortedness(op, s) <=> n >= 2 /\ n <= 2 /\ S!arithmetic_sorts(s)
  BY <1>1, <1>4 DEF S!check_sortedness
<1>5. S!check_sortedness(op, s) <=> n = 2 /\ S!arithmetic_sorts(s)
  <2>1. n >= 2 /\ n <= 2 <=> n = 2
    OBVIOUS
  <2> QED BY <1>4a, <2>1
<1>6. /\ n = 1 => DOMAIN s = {1}
      /\ n = 2 => DOMAIN s = {1, 2}
      /\ n = 3 => DOMAIN s = {1, 2, 3}
      /\ n >= 1 => 1 \in DOMAIN s
      /\ n <= S!INT_MAX
  BY KindsTell
<1>7. (S!arithmetic_sorts(s) <=> \A k \in DOMAIN s : s[k] \in {S!INT,
    S!REAL}) /\ (S!equal_sorts(s) <=> S!Same(s)) /\ (S!int_sorts(s) <=> S!All(s, S!INT))
  BY KindsTell
<1>8. S!check_sortedness(op, s) /\ ~S!Lenient(op, s) /\ op.p # "Abs"
        => S!Rank(op, s) = {S!compute_sort(op, s)}
  BY <1>2, <1>3, <1>5, <1>6, <1>7
     DEF S!If, S!IsBv, S!Lenient, S!Mixed
<1>9. S!Rank(op, s) # {} /\ ~S!Strict(op, s) => S!check_sortedness(op, s)
  BY <1>2, <1>3, <1>5, <1>6, <1>7
     DEF S!If, S!All, S!Same, S!IsBv, S!Strict, S!Unary, S!Ternary, S!Nary, S!Comparisons
<1>10. S!Rank(op, s) # {} => S!compute_sort(op, s) \in S!Rank(op, s)
  BY <1>2, <1>3, <1>5, <1>6, <1>7 DEF S!If, S!IsBv
<1> QED BY <1>8, <1>9, <1>10 DEF S!InferenceRight

\* Sort inference is right for To_Real.
LEMMA InferToReal ==
  ASSUME NEW op, NEW s, NEW n \in Nat, Len(s) = n, S!IsOperator(op), S!AreSorts(s),
      op.p = "To_Real"
  PROVE  S!InferenceRight(op, s)
<1>1. S!sort_check(op.p, s) <=> S!int_sorts(s)
  BY DEF S!sort_check, S!Connectives, S!Comparisons, S!BvOps, S!BvComparisons, S!BvSame,
      S!StrTests
<1>2. S!compute_sort(op, s) = S!REAL
  BY DEF S!compute_sort, S!Connectives, S!Comparisons, S!BvOps, S!BvComparisons, S!BvSame,
      S!StrTests
<1>3. S!Rank(op, s) = S!If(n = 1 /\ s[1] = S!INT, S!REAL)
  BY DEF S!Rank, S!Connectives, S!Comparisons, S!BvOps, S!BvComparisons, S!BvSame, S!StrTests
<1>4. S!get_arity(op.p)[1] = 1 /\ S!get_arity(op.p)[2] = 1
  BY DEF S!get_arity, S!Unary, S!Ternary, S!Nary
<1>4a. S!check_sortedness(op, s) <=> n >= 1 /\ n <= 1 /\ S!int_sorts(s)
  BY <1>1, <1>4 DEF S!check_sortedness
<1>5. S!check_sortedness(op, s) <=> n = 1 /\ S!int_sorts(s)
  <2>1. n >= 1 /\ n <= 1 <=> n = 1
    OBVIOUS
  <2> QED BY <1>4a, <2>1
<1>6. /\ n = 1 => DOMAIN s = {1}
      /\ n = 2 => DOMAIN s = {1, 2}
      /\ n = 3 => DOMAIN s = {1, 2, 3}
      /\ n >= 1 => 1 \in DOMAIN s
      /\ n <= S!INT_MAX
  BY KindsTell
<1>7. S!int_sorts(s) <=> S!All(s, S!INT)
  BY KindsTell
<1>8. S!check_sortedness(op, s) /\ ~S!Lenient(op, s) /\ op.p # "Abs"
        => S!Rank(op, s) = {S!compute_sort(op, s)}
  BY <1>2, <1>3, <1>5, <1>6, <1>7
     DEF S!If, S!All, S!Same, S!IsBv, S!Lenient, S!Mixed
<1>9. S!Rank(op, s) # {} /\ ~S!Strict(op, s) => S!check_sortedness(op, s)
  BY <1>2, <1>3, <1>5, <1>6, <1>7
     DEF S!If, S!All, S!Same, S!IsBv, S!Strict, S!Unary, S!Ternary, S!Nary
<1>10. S!Rank(op, s) # {} => S!compute_sort(op, s) \in S!Rank(op, s)
  BY <1>2, <1>3, <1>5, <1>6, <1>7 DEF S!If, S!All, S!Same, S!IsBv
<1> QED BY <1>8, <1>9, <1>10 DEF S!InferenceRight

\* Sort inference is right for To_Int.
LEMMA InferToInt ==
  ASSUME NEW op, NEW s, NEW n \in Nat, Len(s) = n, S!IsOperator(op), S!AreSorts(s),
      op.p = "To_Int"
  PROVE  S!InferenceRight(op, s)
<1>1. S!sort_check(op.p, s) <=> S!real_sorts(s)
  BY DEF S!sort_check, S!Connectives, S!Comparisons, S!BvOps, S!BvComparisons, S!BvSame,
      S!StrTests
<1>2. S!compute_sort(op, s) = S!INT
  BY DEF S!compute_sort, S!Connectives, S!Comparisons, S!BvOps, S!BvComparisons, S!BvSame,
      S!StrTests
<1>3. S!Rank(op, s) = S!If(n = 1 /\ s[1] = S!REAL, S!INT)
  BY DEF S!Rank, S!Connectives, S!Comparisons, S!BvOps, S!BvComparisons, S!BvSame, S!StrTests
<1>4. S!get_arity(op.p)[1] = 1 /\ S!get_arity(op.p)[2] = 1
  BY DEF S!get_arity, S!Unary, S!Ternary, S!Nary
<1>4a. S!check_sortedness(op, s) <=> n >= 1 /\ n <= 1 /\ S!real_sorts(s)
  BY <1>1, <1>4 DEF S!check_sortedness
<1>5. S!check_sortedness(op, s) <=> n = 1 /\ S!real_sorts(s)
  <2>1. n >= 1 /\ n <= 1 <=> n = 1
    OBVIOUS
  <2> QED BY <1>4a, <2>1
<1>6. /\ n = 1 => DOMAIN s = {1}
      /\ n = 2 => DOMAIN s = {1, 2}
      /\ n = 3 => DOMAIN s = {1, 2, 3}
      /\ n >= 1 => 1 \in DOMAIN s
      /\ n <= S!INT_MAX
  BY KindsTell
<1>7. S!real_sorts(s) <=> S!All(s, S!REAL)
  BY KindsTell
<1>8. S!check_sortedness(op, s) /\ ~S!Lenient(op, s) /\ op.p # "Abs"
        => S!Rank(op, s) = {S!compute_sort(op, s)}
  BY <1>2, <1>3, <1>5, <1>6, <1>7
     DEF S!If, S!All, S!Same, S!IsBv, S!Lenient, S!Mixed
<1>9. S!Rank(op, s) # {} /\ ~S!Strict(op, s) => S!check_sortedness(op, s)
  BY <1>2, <1>3, <1>5, <1>6, <1>7
     DEF S!If, S!All, S!Same, S!IsBv, S!Strict, S!Unary, S!Ternary, S!Nary
<1>10. S!Rank(op, s) # {} => S!compute_sort(op, s) \in S!Rank(op, s)
  BY <1>2, <1>3, <1>5, <1>6, <1>7 DEF S!If, S!All, S!Same, S!IsBv
<1> QED BY <1>8, <1>9, <1>10 DEF S!InferenceRight

\* Sort inference is right for Is_Int.
LEMMA InferIsInt ==
  ASSUME NEW op, NEW s, NEW n \in Nat, Len(s) = n, S!IsOperator(op), S!AreSorts(s),
      op.p = "Is_Int"
  PROVE  S!InferenceRight(op, s)
<1>1. S!sort_check(op.p, s) <=> S!int_sorts(s)
  BY DEF S!sort_check, S!Connectives, S!Comparisons, S!BvOps, S!BvComparisons, S!BvSame,
      S!StrTests
<1>2. S!compute_sort(op, s) = S!BOOL
  BY DEF S!compute_sort, S!Connectives, S!Comparisons, S!BvOps, S!BvComparisons, S!BvSame,
      S!StrTests
<1>3. S!Rank(op, s) = S!If(n = 1 /\ s[1] = S!REAL, S!BOOL)
  BY DEF S!Rank, S!Connectives, S!Comparisons, S!BvOps, S!BvComparisons, S!BvSame, S!StrTests
<1>4. S!get_arity(op.p)[1] = 1 /\ S!get_arity(op.p)[2] = 1
  BY DEF S!get_arity, S!Unary, S!Ternary, S!Nary
<1>4a. S!check_sortedness(op, s) <=> n >= 1 /\ n <= 1 /\ S!int_sorts(s)
  BY <1>1, <1>4 DEF S!check_sortedness
<1>5. S!check_sortedness(op, s) <=> n = 1 /\ S!int_sorts(s)
  <2>1. n >= 1 /\ n <= 1 <=> n = 1
    OBVIOUS
  <2> QED BY <1>4a, <2>1
<1>6. /\ n = 1 => DOMAIN s = {1}
      /\ n = 2 => DOMAIN s = {1, 2}
      /\ n = 3 => DOMAIN s = {1, 2, 3}
      /\ n >= 1 => 1 \in DOMAIN s
      /\ n <= S!INT_MAX
  BY KindsTell
<1>7. S!int_sorts(s) <=> S!All(s, S!INT)
  BY KindsTell
<1>8. S!check_sortedness(op, s) /\ ~S!Lenient(op, s) /\ op.p # "Abs"
        => S!Rank(op, s) = {S!compute_sort(op, s)}
  BY <1>2, <1>3, <1>5, <1>6, <1>7
     DEF S!If, S!All, S!Same, S!IsBv, S!Lenient, S!Mixed
<1>9. S!Rank(op, s) # {} /\ ~S!Strict(op, s) => S!check_sortedness(op, s)
  BY <1>2, <1>3, <1>5, <1>6, <1>7
     DEF S!If, S!All, S!Same, S!IsBv, S!Strict, S!Unary, S!Ternary, S!Nary
<1>10. S!Rank(op, s) # {} => S!compute_sort(op, s) \in S!Rank(op, s)
  BY <1>2, <1>3, <1>5, <1>6, <1>7 DEF S!If, S!All, S!Same, S!IsBv
<1> QED BY <1>8, <1>9, <1>10 DEF S!InferenceRight

\* Sort inference is right for Concat.
LEMMA InferConcat ==
  ASSUME NEW op, NEW s, NEW n \in Nat, Len(s) = n, S!IsOperator(op), S!AreSorts(s),
      op.p = "Concat"
  PROVE  S!InferenceRight(op, s)
<1>1. S!sort_check(op.p, s) <=> S!bv_sorts(s)
  BY DEF S!sort_check, S!Connectives, S!Comparisons, S!BvOps, S!BvComparisons, S!BvSame,
      S!StrTests
<1>2. S!compute_sort(op, s) = S!concat_sort(s)
  BY DEF S!compute_sort, S!Connectives, S!Comparisons, S!BvOps, S!BvComparisons, S!BvSame,
      S!StrTests
<1>3. S!Rank(op, s) = IF n = 2 /\ S!IsBv(s[1]) /\ S!IsBv(s[2]) THEN {S!BV(s[1].width + s[2].width)} ELSE {}
  BY DEF S!Rank, S!Connectives, S!Comparisons, S!BvOps, S!BvComparisons, S!BvSame, S!StrTests
<1>4. S!get_arity(op.p)[1] = 2 /\ S!get_arity(op.p)[2] = 2
  BY DEF S!get_arity, S!Unary, S!Ternary, S!Nary
<1>4a. S!check_sortedness(op, s) <=> n >= 2 /\ n <= 2 /\ S!bv_sorts(s)
  BY <1>1, <1>4 DEF S!check_sortedness
<1>5. S!check_sortedness(op, s) <=> n = 2 /\ S!bv_sorts(s)
  <2>1. n >= 2 /\ n <= 2 <=> n = 2
    OBVIOUS
  <2> QED BY <1>4a, <2>1
<1>6. /\ n = 1 => DOMAIN s = {1}
      /\ n = 2 => DOMAIN s = {1, 2}
      /\ n = 3 => DOMAIN s = {1, 2, 3}
      /\ n >= 1 => 1 \in DOMAIN s
      /\ n <= S!INT_MAX
  BY KindsTell
<1>7. S!bv_sorts(s) <=> \A k \in DOMAIN s : S!IsBv(s[k])
  BY KindsTell
<1>8. S!check_sortedness(op, s) /\ ~S!Lenient(op, s) /\ op.p # "Abs"
        => S!Rank(op, s) = {S!compute_sort(op, s)}
  BY <1>2, <1>3, <1>5, <1>6, <1>7
     DEF S!If, S!All, S!Same, S!IsBv, S!Lenient, S!Mixed, S!concat_sort
<1>9. S!Rank(op, s) # {} /\ ~S!Strict(op, s) => S!check_sortedness(op, s)
  BY <1>2, <1>3, <1>5, <1>6, <1>7
     DEF S!If, S!All, S!Same, S!IsBv, S!Strict, S!Unary, S!Ternary, S!Nary, S!concat_sort
<1>10. S!Rank(op, s) # {} => S!compute_sort(op, s) \in S!Rank(op, s)
  BY <1>2, <1>3, <1>5, <1>6, <1>7 DEF S!If, S!All, S!Same, S!IsBv, S!concat_sort
<1> QED BY <1>8, <1>9, <1>10 DEF S!InferenceRight

\* Sort inference is right for Extract.
LEMMA InferExtract ==
  ASSUME NEW op, NEW s, NEW n \in Nat, Len(s) = n, S!IsOperator(op), S!AreSorts(s),
      op.p = "Extract"
  PROVE  S!InferenceRight(op, s)
<1>1. S!sort_check(op.p, s) <=> S!bv_sorts(s)
  BY DEF S!sort_check, S!Connectives, S!Comparisons, S!BvOps, S!BvComparisons, S!BvSame,
      S!StrTests
<1>2. S!compute_sort(op, s) = S!extract_sort(op)
  BY DEF S!compute_sort, S!Connectives, S!Comparisons, S!BvOps, S!BvComparisons, S!BvSame,
      S!StrTests
<1>3. S!Rank(op, s) = S!If(n = 1 /\ S!IsBv(s[1]), S!BV(op.i[1] - op.i[2] + 1))
  BY DEF S!Rank, S!Connectives, S!Comparisons, S!BvOps, S!BvComparisons, S!BvSame, S!StrTests
<1>4. S!get_arity(op.p)[1] = 1 /\ S!get_arity(op.p)[2] = 1
  BY DEF S!get_arity, S!Unary, S!Ternary, S!Nary
<1>4a. S!check_sortedness(op, s) <=> n >= 1 /\ n <= 1 /\ S!bv_sorts(s)
  BY <1>1, <1>4 DEF S!check_sortedness
<1>5. S!check_sortedness(op, s) <=> n = 1 /\ S!bv_sorts(s)
  <2>1. n >= 1 /\ n <= 1 <=> n = 1
    OBVIOUS
  <2> QED BY <1>4a, <2>1
<1>6. /\ n = 1 => DOMAIN s = {1}
      /\ n = 2 => DOMAIN s = {1, 2}
      /\ n = 3 => DOMAIN s = {1, 2, 3}
      /\ n >= 1 => 1 \in DOMAIN s
      /\ n <= S!INT_MAX
  BY KindsTell
<1>7. S!bv_sorts(s) <=> \A k \in DOMAIN s : S!IsBv(s[k])
  BY KindsTell
<1>8. S!check_sortedness(op, s) /\ ~S!Lenient(op, s) /\ op.p # "Abs"
        => S!Rank(op, s) = {S!compute_sort(op, s)}
  BY <1>2, <1>3, <1>5, <1>6, <1>7
     DEF S!If, S!All, S!Same, S!IsBv, S!Lenient, S!Mixed, S!extract_sort
<1>9. S!Rank(op, s) # {} /\ ~S!Strict(op, s) => S!check_sortedness(op, s)
  BY <1>2, <1>3, <1>5, <1>6, <1>7
     DEF S!If, S!All, S!Same, S!IsBv, S!Strict, S!Unary, S!Ternary, S!Nary, S!extract_sort
<1>10. S!Rank(op, s) # {} => S!compute_sort(op, s) \in S!Rank(op, s)
  BY <1>2, <1>3, <1>5, <1>6, <1>7 DEF S!If, S!All, S!Same, S!IsBv, S!extract_sort
<1> QED BY <1>8, <1>9, <1>10 DEF S!InferenceRight

\* Sort inference is right for the one-argument bit-vector operators.
LEMMA InferBvSame ==
  ASSUME NEW op, NEW s, NEW n \in Nat, Len(s) = n, S!IsOperator(op), S!AreSorts(s),
      op.p \in S!BvSame
  PROVE  S!InferenceRight(op, s)
<1>1. S!sort_check(op.p, s) <=> S!bv_sorts(s)
  BY DEF S!sort_check, S!Connectives, S!Comparisons, S!BvOps, S!BvComparisons, S!BvSame,
      S!StrTests
<1>2. S!compute_sort(op, s) = s[1]
  BY DEF S!compute_sort, S!Connectives, S!Comparisons, S!BvOps, S!BvComparisons, S!BvSame,
      S!StrTests
<1>3. S!Rank(op, s) = S!If(n = 1 /\ S!IsBv(s[1]), s[1])
  BY DEF S!Rank, S!Connectives, S!Comparisons, S!BvOps, S!BvComparisons, S!BvSame, S!StrTests
<1>4. S!get_arity(op.p)[1] = 1 /\ S!get_arity(op.p)[2] = 1
  BY DEF S!get_arity, S!Unary, S!Ternary, S!Nary, S!BvSame
<1>4a. S!check_sortedness(op, s) <=> n >= 1 /\ n <= 1 /\ S!bv_sorts(s)
  BY <1>1, <1>4 DEF S!check_sortedness
<1>5. S!check_sortedness(op, s) <=> n = 1 /\ S!bv_sorts(s)
  <2>1. n >= 1 /\ n <= 1 <=> n = 1
    OBVIOUS
  <2> QED BY <1>4a, <2>1
<1>6. /\ n = 1 => DOMAIN s = {1}
      /\ n = 2 => DOMAIN s = {1, 2}
      /\ n = 3 => DOMAIN s = {1, 2, 3}
      /\ n >= 1 => 1 \in DOMAIN s
      /\ n <= S!INT_MAX
  BY KindsTell
<1>7. S!bv_sorts(s) <=> \A k \in DOMAIN s : S!IsBv(s[k])
  BY KindsTell
<1>8. S!check_sortedness(op, s) /\ ~S!Lenient(op, s) /\ op.p # "Abs"
        => S!Rank(op, s) = {S!compute_sort(op, s)}
  BY <1>2, <1>3, <1>5, <1>6, <1>7
     DEF S!If, S!All, S!Same, S!IsBv, S!Lenient, S!Mixed
<1>9. S!Rank(op, s) # {} /\ ~S!Strict(op, s) => S!check_sortedness(op, s)
  BY <1>2, <1>3, <1>5, <1>6, <1>7
     DEF S!If, S!All, S!Same, S!IsBv, S!Strict, S!Unary, S!Ternary, S!Nary, S!BvSame
<1>10. S!Rank(op, s) # {} => S!compute_sort(op, s) \in S!Rank(op, s)
  BY <1>2, <1>3, <1>5, <1>6, <1>7 DEF S!If, S!All, S!Same, S!IsBv
<1> QED BY <1>8, <1>9, <1>10 DEF S!InferenceRight

\* Sort inference is right for the other bit-vector operators of one width.
LEMMA InferBvOps ==
  ASSUME NEW op, NEW s, NEW n \in Nat, Len(s) = n, S!IsOperator(op), S!AreSorts(s),
      op.p \in S!BvOps
  PROVE  S!InferenceRight(op, s)
<1>1. S!sort_check(op.p, s) <=> S!eq_bv_sorts(s)
  BY DEF S!sort_check, S!Connectives, S!Comparisons, S!BvOps, S!BvComparisons, S!BvSame,
      S!StrTests
<1>2. S!compute_sort(op, s) = s[1]
  BY DEF S!compute_sort, S!Connectives, S!Comparisons, S!BvOps, S!BvComparisons, S!BvSame,
      S!StrTests
<1>3. S!Rank(op, s) = S!If(n >= 2 /\ S!IsBv(s[1]) /\ S!Same(s), s[1])
  BY DEF S!Rank, S!Connectives, S!Comparisons, S!BvOps, S!BvComparisons, S!BvSame, S!StrTests
<1>4. S!get_arity(op.p)[1] = 2 /\ S!get_arity(op.p)[2] = 2
  BY DEF S!get_arity, S!Unary, S!Ternary, S!Nary, S!BvOps
<1>4a. S!check_sortedness(op, s) <=> n >= 2 /\ n <= 2 /\ S!eq_bv_sorts(s)
  BY <1>1, <1>4 DEF S!check_sortedness
<1>5. S!check_sortedness(op, s) <=> n = 2 /\ S!eq_bv_sorts(s)
  <2>1. n >= 2 /\ n <= 2 <=> n = 2
    OBVIOUS
  <2> QED BY <1>4a, <2>1
<1>6. /\ n = 1 => DOMAIN s = {1}
      /\ n = 2 => DOMAIN s = {1, 2}
      /\ n = 3 => DOMAIN s = {1, 2, 3}
      /\ n >= 1 => 1 \in DOMAIN s
      /\ n <= S!INT_MAX
  BY KindsTell
<1>7. (S!arithmetic_sorts(s) <=> \A k \in DOMAIN s : s[k] \in {S!INT,
    S!REAL}) /\ (S!equal_sorts(s) <=> S!Same(s)) /\ (S!int_sorts(s) <=> S!All(s, S!INT))
  BY KindsTell
<1>8. S!check_sortedness(op, s) /\ ~S!Lenient(op, s) /\ op.p # "Abs"
        => S!Rank(op, s) = {S!compute_sort(op, s)}
  BY <1>2, <1>3, <1>5, <1>6, <1>7
     DEF S!If, S!All, S!Same, S!IsBv, S!Lenient, S!Mixed, S!eq_bv_sorts
<1>9. S!Rank(op, s) # {} /\ ~S!Strict(op, s) => S!check_sortedness(op, s)
  BY <1>2, <1>3, <1>5, <1>6, <1>7
     DEF S!If, S!All, S!Same, S!IsBv, S!Strict, S!Unary, S!Ternary, S!Nary, S!BvOps, S!eq_bv_sorts
<1>10. S!Rank(op, s) # {} => S!compute_sort(op, s) \in S!Rank(op, s)
  BY <1>2, <1>3, <1>5, <1>6, <1>7 DEF S!If, S!All, S!Same, S!IsBv, S!eq_bv_sorts
<1> QED BY <1>8, <1>9, <1>10 DEF S!InferenceRight

\* Sort inference is right for BVComp.
LEMMA InferBVComp ==
  ASSUME NEW op, NEW s, NEW n \in Nat, Len(s) = n, S!IsOperator(op), S!AreSorts(s),
      op.p = "BVComp"
  PROVE  S!InferenceRight(op, s)
<1>1. S!sort_check(op.p, s) <=> S!eq_bv_sorts(s)
  BY DEF S!sort_check, S!Connectives, S!Comparisons, S!BvOps, S!BvComparisons, S!BvSame,
      S!StrTests
<1>2. S!compute_sort(op, s) = S!BV(1)
  BY DEF S!compute_sort, S!Connectives, S!Comparisons, S!BvOps, S!BvComparisons, S!BvSame,
      S!StrTests
<1>3. S!Rank(op, s) = S!If(n = 2 /\ S!IsBv(s[1]) /\ S!Same(s), S!BV(1))
  BY DEF S!Rank, S!Connectives, S!Comparisons, S!BvOps, S!BvComparisons, S!BvSame, S!StrTests
<1>4. S!get_arity(op.p)[1] = 2 /\ S!get_arity(op.p)[2] = 2
  BY DEF S!get_arity, S!Unary, S!Ternary, S!Nary
<1>4a. S!check_sortedness(op, s) <=> n >= 2 /\ n <= 2 /\ S!eq_bv_sorts(s)
  BY <1>1, <1>4 DEF S!check_sortedness
<1>5. S!check_sortedness(op, s) <=> n = 2 /\ S!eq_bv_sorts(s)
  <2>1. n >= 2 /\ n <= 2 <=> n = 2
    OBVIOUS
  <2> QED BY <1>4a, <2>1
<1>6. /\ n = 1 => DOMAIN s = {1}
      /\ n = 2 => DOMAIN s = {1, 2}
      /\ n = 3 => DOMAIN s = {1, 2, 3}
      /\ n >= 1 => 1 \in DOMAIN s
      /\ n <= S!INT_MAX
  BY KindsTell
<1>7. (S!arithmetic_sorts(s) <=> \A k \in DOMAIN s : s[k] \in {S!INT,
    S!REAL}) /\ (S!equal_sorts(s) <=> S!Same(s)) /\ (S!int_sorts(s) <=> S!All(s, S!INT))
  BY KindsTell
<1>8. S!check_sortedness(op, s) /\ ~S!Lenient(op, s) /\ op.p # "Abs"
        => S!Rank(op, s) = {S!compute_sort(op, s)}
  BY <1>2, <1>3, <1>5, <1>6, <1>7
     DEF S!If, S!All, S!Same, S!IsBv, S!Lenient, S!Mixed, S!eq_bv_sorts
<1>9. S!Rank(op, s) # {} /\ ~S!Strict(op, s) => S!check_sortedness(op, s)
  BY <1>2, <1>3, <1>5, <1>6, <1>7
     DEF S!If, S!All, S!Same, S!IsBv, S!Strict, S!Unary, S!Ternary, S!Nary, S!eq_bv_sorts
<1>10. S!Rank(op, s) # {} => S!compute_sort(op, s) \in S!Rank(op, s)
  BY <1>2, <1>3, <1>5, <1>6, <1>7 DEF S!If, S!All, S!Same, S!IsBv, S!eq_bv_sorts
<1> QED BY <1>8, <1>9, <1>10 DEF S!InferenceRight

\* Sort inference is right for the bit-vector comparisons.
LEMMA InferBvComparisons ==
  ASSUME NEW op, NEW s, NEW n \in Nat, Len(s) = n, S!IsOperator(op), S!AreSorts(s),
      op.p \in S!BvComparisons
  PROVE  S!InferenceRight(op, s)
<1>1. S!sort_check(op.p, s) <=> S!eq_bv_sorts(s)
  BY DEF S!sort_check, S!Connectives, S!Comparisons, S!BvOps, S!BvComparisons, S!BvSame,
      S!StrTests
<1>2. S!compute_sort(op, s) = S!BOOL
  BY DEF S!compute_sort, S!Connectives, S!Comparisons, S!BvOps, S!BvComparisons, S!BvSame,
      S!StrTests
<1>3. S!Rank(op, s) = S!If(n = 2 /\ S!IsBv(s[1]) /\ S!Same(s), S!BOOL)
  BY DEF S!Rank, S!Connectives, S!Comparisons, S!BvOps, S!BvComparisons, S!BvSame, S!StrTests
<1>4. S!get_arity(op.p)[1] = 2 /\ S!get_arity(op.p)[2] = 2
  BY DEF S!get_arity, S!Unary, S!Ternary, S!Nary, S!BvComparisons
<1>4a. S!check_sortedness(op, s) <=> n >= 2 /\ n <= 2 /\ S!eq_bv_sorts(s)
  BY <1>1, <1>4 DEF S!check_sortedness
<1>5. S!check_sortedness(op, s) <=> n = 2 /\ S!eq_bv_sorts(s)
  <2>1. n >= 2 /\ n <= 2 <=> n = 2
    OBVIOUS
  <2> QED BY <1>4a, <2>1
<1>6. /\ n = 1 => DOMAIN s = {1}
      /\ n = 2 => DOMAIN s = {1, 2}
      /\ n = 3 => DOMAIN s = {1, 2, 3}
      /\ n >= 1 => 1 \in DOMAIN s
      /\ n <= S!INT_MAX
  BY KindsTell
<1>7. (S!arithmetic_sorts(s) <=> \A k \in DOMAIN s : s[k] \in {S!INT,
    S!REAL}) /\ (S!equal_sorts(s) <=> S!Same(s)) /\ (S!int_sorts(s) <=> S!All(s, S!INT))
  BY KindsTell
<1>8. S!check_sortedness(op, s) /\ ~S!Lenient(op, s) /\ op.p # "Abs"
        => S!Rank(op, s) = {S!compute_sort(op, s)}
  BY <1>2, <1>3, <1>5, <1>6, <1>7
     DEF S!If, S!All, S!Same, S!IsBv, S!Lenient, S!Mixed, S!eq_bv_sorts
<1>9. S!Rank(op, s) # {} /\ ~S!Strict(op, s) => S!check_sortedness(op, s)
  BY <1>2, <1>3, <1>5, <1>6, <1>7
     DEF S!If, S!All, S!Same, S!IsBv, S!Strict, S!Unary, S!Ternary, S!Nary, S!BvComparisons,
         S!eq_bv_sorts
<1>10. S!Rank(op, s) # {} => S!compute_sort(op, s) \in S!Rank(op, s)
  BY <1>2, <1>3, <1>5, <1>6, <1>7 DEF S!If, S!All, S!Same, S!IsBv, S!eq_bv_sorts
<1> QED BY <1>8, <1>9, <1>10 DEF S!InferenceRight

\* Sort inference is right for Zero_Extend and Sign_Extend.
LEMMA InferExtend ==
  ASSUME NEW op, NEW s, NEW n \in Nat, Len(s) = n, S!IsOperator(op), S!AreSorts(s),
      op.p \in {"Zero_Extend", "Sign_Extend"}
  PROVE  S!InferenceRight(op, s)
<1>1. S!sort_check(op.p, s) <=> S!bv_sorts(s)
  BY DEF S!sort_check, S!Connectives, S!Comparisons, S!BvOps, S!BvComparisons, S!BvSame,
      S!StrTests
<1>2. S!compute_sort(op, s) = S!extend_sort(op, s)
  BY DEF S!compute_sort, S!Connectives, S!Comparisons, S!BvOps, S!BvComparisons, S!BvSame,
      S!StrTests
<1>3. S!Rank(op, s) = IF n = 1 /\ S!IsBv(s[1]) THEN {S!BV(s[1].width + op.i[1])} ELSE {}
  BY DEF S!Rank, S!Connectives, S!Comparisons, S!BvOps, S!BvComparisons, S!BvSame, S!StrTests
<1>4. S!get_arity(op.p)[1] = 1 /\ S!get_arity(op.p)[2] = 1
  BY DEF S!get_arity, S!Unary, S!Ternary, S!Nary
<1>4a. S!check_sortedness(op, s) <=> n >= 1 /\ n <= 1 /\ S!bv_sorts(s)
  BY <1>1, <1>4 DEF S!check_sortedness
<1>5. S!check_sortedness(op, s) <=> n = 1 /\ S!bv_sorts(s)
  <2>1. n >= 1 /\ n <= 1 <=> n = 1
    OBVIOUS
  <2> QED BY <1>4a, <2>1
<1>6. /\ n = 1 => DOMAIN s = {1}
      /\ n = 2 => DOMAIN s = {1, 2}
      /\ n = 3 => DOMAIN s = {1, 2, 3}
      /\ n >= 1 => 1 \in DOMAIN s
      /\ n <= S!INT_MAX
  BY KindsTell
<1>7. S!bv_sorts(s) <=> \A k \in DOMAIN s : S!IsBv(s[k])
  BY KindsTell
<1>0. op.i[1] \in Nat /\ (n = 1 /\ S!IsBv(s[1]) => s[1].width \in Nat)
  BY <1>6, SortFacts DEF S!IsBv, S!IsOperator, S!Indices
<1>8. S!check_sortedness(op, s) /\ ~S!Lenient(op, s) /\ op.p # "Abs"
        => S!Rank(op, s) = {S!compute_sort(op, s)}
  BY <1>2, <1>3, <1>5, <1>6, <1>7, <1>0
     DEF S!If, S!All, S!Same, S!IsBv, S!Lenient, S!Mixed, S!extend_sort
<1>9. S!Rank(op, s) # {} /\ ~S!Strict(op, s) => S!check_sortedness(op, s)
  BY <1>2, <1>3, <1>5, <1>6, <1>7, <1>0
     DEF S!If, S!All, S!Same, S!IsBv, S!Strict, S!Unary, S!Ternary, S!Nary, S!extend_sort
<1>10. S!Rank(op, s) # {} => S!compute_sort(op, s) \in S!Rank(op, s)
  BY <1>2, <1>3, <1>5, <1>6, <1>7, <1>0 DEF S!If, S!All, S!Same, S!IsBv, S!extend_sort
<1> QED BY <1>8, <1>9, <1>10 DEF S!InferenceRight

\* Sort inference is right for Repeat.
LEMMA InferRepeat ==
  ASSUME NEW op, NEW s, NEW n \in Nat, Len(s) = n, S!IsOperator(op), S!AreSorts(s),
      op.p = "Repeat"
  PROVE  S!InferenceRight(op, s)
<1>1. S!sort_check(op.p, s) <=> S!bv_sorts(s)
  BY DEF S!sort_check, S!Connectives, S!Comparisons, S!BvOps, S!BvComparisons, S!BvSame,
      S!StrTests
<1>2. S!compute_sort(op, s) = S!repeat_sort(op, s)
  BY DEF S!compute_sort, S!Connectives, S!Comparisons, S!BvOps, S!BvComparisons, S!BvSame,
      S!StrTests
<1>3. S!Rank(op, s) = IF n = 1 /\ S!IsBv(s[1]) THEN {S!BV(s[1].width * op.i[1])} ELSE {}
  BY DEF S!Rank, S!Connectives, S!Comparisons, S!BvOps, S!BvComparisons, S!BvSame, S!StrTests
<1>4. S!get_arity(op.p)[1] = 1 /\ S!get_arity(op.p)[2] = 1
  BY DEF S!get_arity, S!Unary, S!Ternary, S!Nary
<1>4a. S!check_sortedness(op, s) <=> n >= 1 /\ n <= 1 /\ S!bv_sorts(s)
  BY <1>1, <1>4 DEF S!check_sortedness
<1>5. S!check_sortedness(op, s) <=> n = 1 /\ S!bv_sorts(s)
  <2>1. n >= 1 /\ n <= 1 <=> n = 1
    OBVIOUS
  <2> QED BY <1>4a, <2>1
<1>6. /\ n = 1 => DOMAIN s = {1}
      /\ n = 2 => DOMAIN s = {1, 2}
      /\ n = 3 => DOMAIN s = {1, 2, 3}
      /\ n >= 1 => 1 \in DOMAIN s
      /\ n <= S!INT_MAX
  BY KindsTell
<1>7. S!bv_sorts(s) <=> \A k \in DOMAIN s : S!IsBv(s[k])
  BY KindsTell
<1>0. op.i[1] \in Nat /\ (n = 1 /\ S!IsBv(s[1]) => s[1].width \in Nat)
  BY <1>6, SortFacts DEF S!IsBv, S!IsOperator, S!Indices
<1>8. S!check_sortedness(op, s) /\ ~S!Lenient(op, s) /\ op.p # "Abs"
        => S!Rank(op, s) = {S!compute_sort(op, s)}
  BY <1>2, <1>3, <1>5, <1>6, <1>7, <1>0
     DEF S!If, S!All, S!Same, S!IsBv, S!Lenient, S!Mixed, S!repeat_sort
<1>9. S!Rank(op, s) # {} /\ ~S!Strict(op, s) => S!check_sortedness(op, s)
  BY <1>2, <1>3, <1>5, <1>6, <1>7, <1>0
     DEF S!If, S!All, S!Same, S!IsBv, S!Strict, S!Unary, S!Ternary, S!Nary, S!repeat_sort
<1>10. S!Rank(op, s) # {} => S!compute_sort(op, s) \in S!Rank(op, s)
  BY <1>2, <1>3, <1>5, <1>6, <1>7, <1>0 DEF S!If, S!All, S!Same, S!IsBv, S!repeat_sort
<1> QED BY <1>8, <1>9, <1>10 DEF S!InferenceRight

\* Sort inference is right for BV_To_Nat.
LEMMA InferBvToNat ==
  ASSUME NEW op, NEW s, NEW n \in Nat, Len(s) = n, S!IsOperator(op), S!AreSorts(s),
      op.p = "BV_To_Nat"
  PROVE  S!InferenceRight(op, s)
<1>1. S!sort_check(op.p, s) <=> S!bv_sorts(s)
  BY DEF S!sort_check, S!Connectives, S!Comparisons, S!BvOps, S!BvComparisons, S!BvSame,
      S!StrTests
<1>2. S!compute_sort(op, s) = S!INT
  BY DEF S!compute_sort, S!Connectives, S!Comparisons, S!BvOps, S!BvComparisons, S!BvSame,
      S!StrTests
<1>3. S!Rank(op, s) = S!If(n = 1 /\ S!IsBv(s[1]), S!INT)
  BY DEF S!Rank, S!Connectives, S!Comparisons, S!BvOps, S!BvComparisons, S!BvSame, S!StrTests
<1>4. S!get_arity(op.p)[1] = 1 /\ S!get_arity(op.p)[2] = 1
  BY DEF S!get_arity, S!Unary, S!Ternary, S!Nary
<1>4a. S!check_sortedness(op, s) <=> n >= 1 /\ n <= 1 /\ S!bv_sorts(s)
  BY <1>1, <1>4 DEF S!check_sortedness
<1>5. S!check_sortedness(op, s) <=> n = 1 /\ S!bv_sorts(s)
  <2>1. n >= 1 /\ n <= 1 <=> n = 1
    OBVIOUS
  <2> QED BY <1>4a, <2>1
<1>6. /\ n = 1 => DOMAIN s = {1}
      /\ n = 2 => DOMAIN s = {1, 2}
      /\ n = 3 => DOMAIN s = {1, 2, 3}
      /\ n >= 1 => 1 \in DOMAIN s
      /\ n <= S!INT_MAX
  BY KindsTell
<1>7. S!bv_sorts(s) <=> \A k \in DOMAIN s : S!IsBv(s[k])
  BY KindsTell
<1>8. S!check_sortedness(op, s) /\ ~S!Lenient(op, s) /\ op.p # "Abs"
        => S!Rank(op, s) = {S!compute_sort(op, s)}
  BY <1>2, <1>3, <1>5, <1>6, <1>7
     DEF S!If, S!All, S!Same, S!IsBv, S!Lenient, S!Mixed
<1>9. S!Rank(op, s) # {} /\ ~S!Strict(op, s) => S!check_sortedness(op, s)
  BY <1>2, <1>3, <1>5, <1>6, <1>7
     DEF S!If, S!All, S!Same, S!IsBv, S!Strict, S!Unary, S!Ternary, S!Nary
<1>10. S!Rank(op, s) # {} => S!compute_sort(op, s) \in S!Rank(op, s)
  BY <1>2, <1>3, <1>5, <1>6, <1>7 DEF S!If, S!All, S!Same, S!IsBv
<1> QED BY <1>8, <1>9, <1>10 DEF S!InferenceRight

\* Sort inference is right for Int_To_BV.
LEMMA InferIntToBv ==
  ASSUME NEW op, NEW s, NEW n \in Nat, Len(s) = n, S!IsOperator(op), S!AreSorts(s),
      op.p = "Int_To_BV"
  PROVE  S!InferenceRight(op, s)
<1>1. S!sort_check(op.p, s) <=> S!int_sorts(s)
  BY DEF S!sort_check, S!Connectives, S!Comparisons, S!BvOps, S!BvComparisons, S!BvSame,
      S!StrTests
<1>2. S!compute_sort(op, s) = S!BV(op.i[1])
  BY DEF S!compute_sort, S!Connectives, S!Comparisons, S!BvOps, S!BvComparisons, S!BvSame,
      S!StrTests
<1>3. S!Rank(op, s) = S!If(n = 1 /\ s[1] = S!INT, S!BV(op.i[1]))
  BY DEF S!Rank, S!Connectives, S!Comparisons, S!BvOps, S!BvComparisons, S!BvSame, S!StrTests
<1>4. S!get_arity(op.p)[1] = 1 /\ S!get_arity(op.p)[2] = 1
  BY DEF S!get_arity, S!Unary, S!Ternary, S!Nary
<1>4a. S!check_sortedness(op, s) <=> n >= 1 /\ n <= 1 /\ S!int_sorts(s)
  BY <1>1, <1>4 DEF S!check_sortedness
<1>5. S!check_sortedness(op, s) <=> n = 1 /\ S!int_sorts(s)
  <2>1. n >= 1 /\ n <= 1 <=> n = 1
    OBVIOUS
  <2> QED BY <1>4a, <2>1
<1>6. /\ n = 1 => DOMAIN s = {1}
      /\ n = 2 => DOMAIN s = {1, 2}
      /\ n = 3 => DOMAIN s = {1, 2, 3}
      /\ n >= 1 => 1 \in DOMAIN s
      /\ n <= S!INT_MAX
  BY KindsTell
<1>7. S!int_sorts(s) <=> S!All(s, S!INT)
  BY KindsTell
<1>8. S!check_sortedness(op, s) /\ ~S!Lenient(op, s) /\ op.p # "Abs"
        => S!Rank(op, s) = {S!compute_sort(op, s)}
  BY <1>2, <1>3, <1>5, <1>6, <1>7
     DEF S!If, S!All, S!Same, S!IsBv, S!Lenient, S!Mixed
<1>9. S!Rank(op, s) # {} /\ ~S!Strict(op, s) => S!check_sortedness(op, s)
  BY <1>2, <1>3, <1>5, <1>6, <1>7
     DEF S!If, S!All, S!Same, S!IsBv, S!Strict, S!Unary, S!Ternary, S!Nary
<1>10. S!Rank(op, s) # {} => S!compute_sort(op, s) \in S!Rank(op, s)
  BY <1>2, <1>3, <1>5, <1>6, <1>7 DEF S!If, S!All, S!Same, S!IsBv
<1> QED BY <1>8, <1>9, <1>10 DEF S!InferenceRight

\* Sort inference is right for the comparisons of strings.
LEMMA InferStrTests ==
  ASSUME NEW op, NEW s, NEW n \in Nat, Len(s) = n, S!IsOperator(op), S!AreSorts(s),
      op.p \in S!StrTests
  PROVE  S!InferenceRight(op, s)
<1>1. S!sort_check(op.p, s) <=> S!string_sorts(s)
  BY DEF S!sort_check, S!Connectives, S!Comparisons, S!BvOps, S!BvComparisons, S!BvSame,
      S!StrTests
<1>2. S!compute_sort(op, s) = S!BOOL
  BY DEF S!compute_sort, S!Connectives, S!Comparisons, S!BvOps, S!BvComparisons, S!BvSame,
      S!StrTests
<1>3. S!Rank(op, s) = S!If(n = 2 /\ S!All(s, S!StringSort), S!BOOL)
  BY DEF S!Rank, S!Connectives, S!Comparisons, S!BvOps, S!BvComparisons, S!BvSame, S!StrTests
<1>4. S!get_arity(op.p)[1] = 2 /\ S!get_arity(op.p)[2] = 2
  BY DEF S!get_arity, S!Unary, S!Ternary, S!Nary, S!StrTests
<1>4a. S!check_sortedness(op, s) <=> n >= 2 /\ n <= 2 /\ S!string_sorts(s)
  BY <1>1, <1>4 DEF S!check_sortedness
<1>5. S!check_sortedness(op, s) <=> n = 2 /\ S!string_sorts(s)
  <2>1. n >= 2 /\ n <= 2 <=> n = 2
    OBVIOUS
  <2> QED BY <1>4a, <2>1
<1>6. /\ n = 1 => DOMAIN s = {1}
      /\ n = 2 => DOMAIN s = {1, 2}
      /\ n = 3 => DOMAIN s = {1, 2, 3}
      /\ n >= 1 => 1 \in DOMAIN s
      /\ n <= S!INT_MAX
  BY KindsTell
<1>7. S!string_sorts(s) <=> S!All(s, S!StringSort)
  BY KindsTell
<1>8. S!check_sortedness(op, s) /\ ~S!Lenient(op, s) /\ op.p # "Abs"
        => S!Rank(op, s) = {S!compute_sort(op, s)}
  BY <1>2, <1>3, <1>5, <1>6, <1>7
     DEF S!If, S!All, S!Same, S!IsBv, S!Lenient, S!Mixed
<1>9. S!Rank(op, s) # {} /\ ~S!Strict(op, s) => S!check_sortedness(op, s)
  BY <1>2, <1>3, <1>5, <1>6, <1>7
     DEF S!If, S!All, S!Same, S!IsBv, S!Strict, S!Unary, S!Ternary, S!Nary, S!StrTests
<1>10. S!Rank(op, s) # {} => S!compute_sort(op, s) \in S!Rank(op, s)
  BY <1>2, <1>3, <1>5, <1>6, <1>7 DEF S!If, S!All, S!Same, S!IsBv
<1> QED BY <1>8, <1>9, <1>10 DEF S!InferenceRight

\* Sort inference is right for StrIsDigit.
LEMMA InferStrIsDigit ==
  ASSUME NEW op, NEW s, NEW n \in Nat, Len(s) = n, S!IsOperator(op), S!AreSorts(s),
      op.p = "StrIsDigit"
  PROVE  S!InferenceRight(op, s)
<1>1. S!sort_check(op.p, s) <=> S!string_sorts(s)
  BY DEF S!sort_check, S!Connectives, S!Comparisons, S!BvOps, S!BvComparisons, S!BvSame,
      S!StrTests
<1>2. S!compute_sort(op, s) = S!BOOL
  BY DEF S!compute_sort, S!Connectives, S!Comparisons, S!BvOps, S!BvComparisons, S!BvSame,
      S!StrTests
<1>3. S!Rank(op, s) = S!If(n = 1 /\ s[1] = S!StringSort, S!BOOL)
  BY DEF S!Rank, S!Connectives, S!Comparisons, S!BvOps, S!BvComparisons, S!BvSame, S!StrTests
<1>4. S!get_arity(op.p)[1] = 1 /\ S!get_arity(op.p)[2] = 1
  BY DEF S!get_arity, S!Unary, S!Ternary, S!Nary
<1>4a. S!check_sortedness(op, s) <=> n >= 1 /\ n <= 1 /\ S!string_sorts(s)
  BY <1>1, <1>4 DEF S!check_sortedness
<1>5. S!check_sortedness(op, s) <=> n = 1 /\ S!string_sorts(s)
  <2>1. n >= 1 /\ n <= 1 <=> n = 1
    OBVIOUS
  <2> QED BY <1>4a, <2>1
<1>6. /\ n = 1 => DOMAIN s = {1}
      /\ n = 2 => DOMAIN s = {1, 2}
      /\ n = 3 => DOMAIN s = {1, 2, 3}
      /\ n >= 1 => 1 \in DOMAIN s
      /\ n <= S!INT_MAX
  BY KindsTell
<1>7. S!string_sorts(s) <=> S!All(s, S!StringSort)
  BY KindsTell
<1>8. S!check_sortedness(op, s) /\ ~S!Lenient(op, s) /\ op.p # "Abs"
        => S!Rank(op, s) = {S!compute_sort(op, s)}
  BY <1>2, <1>3, <1>5, <1>6, <1>7
     DEF S!If, S!All, S!Same, S!IsBv, S!Lenient, S!Mixed
<1>9. S!Rank(op, s) # {} /\ ~S!Strict(op, s) => S!check_sortedness(op, s)
  BY <1>2, <1>3, <1>5, <1>6, <1>7
     DEF S!If, S!All, S!Same, S!IsBv, S!Strict, S!Unary, S!Ternary, S!Nary
<1>10. S!Rank(op, s) # {} => S!compute_sort(op, s) \in S!Rank(op, s)
  BY <1>2, <1>3, <1>5, <1>6, <1>7 DEF S!If, S!All, S!Same, S!IsBv
<1> QED BY <1>8, <1>9, <1>10 DEF S!InferenceRight

\* Sort inference is right for StrLen.
LEMMA InferStrLen ==
  ASSUME NEW op, NEW s, NEW n \in Nat, Len(s) = n, S!IsOperator(op), S!AreSorts(s),
      op.p = "StrLen"
  PROVE  S!InferenceRight(op, s)
<1>1. S!sort_check(op.p, s) <=> S!string_sorts(s)
  BY DEF S!sort_check, S!Connectives, S!Comparisons, S!BvOps, S!BvComparisons, S!BvSame,
      S!StrTests
<1>2. S!compute_sort(op, s) = S!INT
  BY DEF S!compute_sort, S!Connectives, S!Comparisons, S!BvOps, S!BvComparisons, S!BvSame,
      S!StrTests
<1>3. S!Rank(op, s) = S!If(n = 1 /\ s[1] = S!StringSort, S!INT)
  BY DEF S!Rank, S!Connectives, S!Comparisons, S!BvOps, S!BvComparisons, S!BvSame, S!StrTests
<1>4. S!get_arity(op.p)[1] = 1 /\ S!get_arity(op.p)[2] = 1
  BY DEF S!get_arity, S!Unary, S!Ternary, S!Nary
<1>4a. S!check_sortedness(op, s) <=> n >= 1 /\ n <= 1 /\ S!string_sorts(s)
  BY <1>1, <1>4 DEF S!check_sortedness
<1>5. S!check_sortedness(op, s) <=> n = 1 /\ S!string_sorts(s)
  <2>1. n >= 1 /\ n <= 1 <=> n = 1
    OBVIOUS
  <2> QED BY <1>4a, <2>1
<1>6. /\ n = 1 => DOMAIN s = {1}
      /\ n = 2 => DOMAIN s = {1, 2}
      /\ n = 3 => DOMAIN s = {1, 2, 3}
      /\ n >= 1 => 1 \in DOMAIN s
      /\ n <= S!INT_MAX
  BY KindsTell
<1>7. S!string_sorts(s) <=> S!All(s, S!StringSort)
  BY KindsTell
<1>8. S!check_sortedness(op, s) /\ ~S!Lenient(op, s) /\ op.p # "Abs"
        => S!Rank(op, s) = {S!compute_sort(op, s)}
  BY <1>2, <1>3, <1>5, <1>6, <1>7
     DEF S!If, S!All, S!Same, S!IsBv, S!Lenient, S!Mixed
<1>9. S!Rank(op, s) # {} /\ ~S!Strict(op, s) => S!check_sortedness(op, s)
  BY <1>2, <1>3, <1>5, <1>6, <1>7
     DEF S!If, S!All, S!Same, S!IsBv, S!Strict, S!Unary, S!Ternary, S!Nary
<1>10. S!Rank(op, s) # {} => S!compute_sort(op, s) \in S!Rank(op, s)
  BY <1>2, <1>3, <1>5, <1>6, <1>7 DEF S!If, S!All, S!Same, S!IsBv
<1> QED BY <1>8, <1>9, <1>10 DEF S!InferenceRight

\* Sort inference is right for StrConcat.
LEMMA InferStrConcat ==
  ASSUME NEW op, NEW s, NEW n \in Nat, Len(s) = n, S!IsOperator(op), S!AreSorts(s),
      op.p = "StrConcat"
  PROVE  S!InferenceRight(op, s)
<1>1. S!sort_check(op.p, s) <=> S!string_sorts(s)
  BY DEF S!sort_check, S!Connectives, S!Comparisons, S!BvOps, S!BvComparisons, S!BvSame,
      S!StrTests
<1>2. S!compute_sort(op, s) = S!StringSort
  BY DEF S!compute_sort, S!Connectives, S!Comparisons, S!BvOps, S!BvComparisons, S!BvSame,
      S!StrTests
<1>3. S!Rank(op, s) = S!If(n >= 2 /\ S!All(s, S!StringSort), S!StringSort)
  BY DEF S!Rank, S!Connectives, S!Comparisons, S!BvOps, S!BvComparisons, S!BvSame, S!StrTests
<1>4. S!get_arity(op.p)[1] = 2 /\ S!get_arity(op.p)[2] = S!INT_MAX
  BY DEF S!get_arity, S!Unary, S!Ternary, S!Nary
<1>5. S!check_sortedness(op, s) <=> n >= 2 /\ n <= S!INT_MAX /\ S!string_sorts(s)
  BY <1>1, <1>4 DEF S!check_sortedness
<1>6. /\ n = 1 => DOMAIN s = {1}
      /\ n = 2 => DOMAIN s = {1, 2}
      /\ n = 3 => DOMAIN s = {1, 2, 3}
      /\ n >= 1 => 1 \in DOMAIN s
      /\ n <= S!INT_MAX
  BY KindsTell
<1>7. S!string_sorts(s) <=> S!All(s, S!StringSort)
  BY KindsTell
<1>8. S!check_sortedness(op, s) /\ ~S!Lenient(op, s) /\ op.p # "Abs"
        => S!Rank(op, s) = {S!compute_sort(op, s)}
  BY <1>2, <1>3, <1>5, <1>6, <1>7
     DEF S!If, S!All, S!Same, S!IsBv, S!Lenient, S!Mixed
<1>9. S!Rank(op, s) # {} /\ ~S!Strict(op, s) => S!check_sortedness(op, s)
  BY <1>2, <1>3, <1>5, <1>6, <1>7
     DEF S!If, S!All, S!Same, S!IsBv, S!Strict, S!Unary, S!Ternary, S!Nary
<1>10. S!Rank(op, s) # {} => S!compute_sort(op, s) \in S!Rank(op, s)
  BY <1>2, <1>3, <1>5, <1>6, <1>7 DEF S!If, S!All, S!Same, S!IsBv
<1> QED BY <1>8, <1>9, <1>10 DEF S!InferenceRight

\* Sort inference is right for StrReplace and StrReplaceAll.
LEMMA InferStrReplace ==
  ASSUME NEW op, NEW s, NEW n \in Nat, Len(s) = n, S!IsOperator(op), S!AreSorts(s),
      op.p \in {"StrReplace", "StrReplaceAll"}
  PROVE  S!InferenceRight(op, s)
<1>1. S!sort_check(op.p, s) <=> S!string_sorts(s)
  BY DEF S!sort_check, S!Connectives, S!Comparisons, S!BvOps, S!BvComparisons, S!BvSame,
      S!StrTests
<1>2. S!compute_sort(op, s) = S!StringSort
  BY DEF S!compute_sort, S!Connectives, S!Comparisons, S!BvOps, S!BvComparisons, S!BvSame,
      S!StrTests
<1>3. S!Rank(op, s) = S!If(n = 3 /\ S!All(s, S!StringSort), S!StringSort)
  BY DEF S!Rank, S!Connectives, S!Comparisons, S!BvOps, S!BvComparisons, S!BvSame, S!StrTests
<1>4. S!get_arity(op.p)[1] = 3 /\ S!get_arity(op.p)[2] = 3
  BY DEF S!get_arity, S!Unary, S!Ternary, S!Nary
<1>4a. S!check_sortedness(op, s) <=> n >= 3 /\ n <= 3 /\ S!string_sorts(s)
  BY <1>1, <1>4 DEF S!check_sortedness
<1>5. S!check_sortedness(op, s) <=> n = 3 /\ S!string_sorts(s)
  <2>1. n >= 3 /\ n <= 3 <=> n = 3
    OBVIOUS
  <2> QED BY <1>4a, <2>1
<1>6. /\ n = 1 => DOMAIN s = {1}
      /\ n = 2 => DOMAIN s = {1, 2}
      /\ n = 3 => DOMAIN s = {1, 2, 3}
      /\ n >= 1 => 1 \in DOMAIN s
      /\ n <= S!INT_MAX
  BY KindsTell
<1>7. S!string_sorts(s) <=> S!All(s, S!StringSort)
  BY KindsTell
<1>8. S!check_sortedness(op, s) /\ ~S!Lenient(op, s) /\ op.p # "Abs"
        => S!Rank(op, s) = {S!compute_sort(op, s)}
  BY <1>2, <1>3, <1>5, <1>6, <1>7
     DEF S!If, S!All, S!Same, S!IsBv, S!Lenient, S!Mixed
<1>9. S!Rank(op, s) # {} /\ ~S!Strict(op, s) => S!check_sortedness(op, s)
  BY <1>2, <1>3, <1>5, <1>6, <1>7
     DEF S!If, S!All, S!Same, S!IsBv, S!Strict, S!Unary, S!Ternary, S!Nary
<1>10. S!Rank(op, s) # {} => S!compute_sort(op, s) \in S!Rank(op, s)
  BY <1>2, <1>3, <1>5, <1>6, <1>7 DEF S!If, S!All, S!Same, S!IsBv
<1> QED BY <1>8, <1>9, <1>10 DEF S!InferenceRight

\* Sort inference is right for StrSubstr.
LEMMA InferStrSubstr ==
  ASSUME NEW op, NEW s, NEW n \in Nat, Len(s) = n, S!IsOperator(op), S!AreSorts(s),
      op.p = "StrSubstr"
  PROVE  S!InferenceRight(op, s)
<1>1. S!sort_check(op.p, s) <=> S!check_substr_sorts(s)
  BY DEF S!sort_check, S!Connectives, S!Comparisons, S!BvOps, S!BvComparisons, S!BvSame,
      S!StrTests
<1>2. S!compute_sort(op, s) = S!StringSort
  BY DEF S!compute_sort, S!Connectives, S!Comparisons, S!BvOps, S!BvComparisons, S!BvSame,
      S!StrTests
<1>3. S!Rank(op, s) = S!If(n = 3 /\ s = <<S!StringSort, S!INT, S!INT>>, S!StringSort)
  BY DEF S!Rank, S!Connectives, S!Comparisons, S!BvOps, S!BvComparisons, S!BvSame, S!StrTests
<1>4. S!get_arity(op.p)[1] = 3 /\ S!get_arity(op.p)[2] = 3
  BY DEF S!get_arity, S!Unary, S!Ternary, S!Nary
<1>4a. S!check_sortedness(op, s) <=> n >= 3 /\ n <= 3 /\ S!check_substr_sorts(s)
  BY <1>1, <1>4 DEF S!check_sortedness
<1>5. S!check_sortedness(op, s) <=> n = 3 /\ S!check_substr_sorts(s)
  <2>1. n >= 3 /\ n <= 3 <=> n = 3
    OBVIOUS
  <2> QED BY <1>4a, <2>1
<1>6. /\ n = 1 => DOMAIN s = {1}
      /\ n = 2 => DOMAIN s = {1, 2}
      /\ n = 3 => DOMAIN s = {1, 2, 3}
      /\ n >= 1 => 1 \in DOMAIN s
      /\ n <= S!INT_MAX
  BY KindsTell
<1>7. (S!arithmetic_sorts(s) <=> \A k \in DOMAIN s : s[k] \in {S!INT,
    S!REAL}) /\ (S!equal_sorts(s) <=> S!Same(s)) /\ (S!int_sorts(s) <=> S!All(s, S!INT))
  BY KindsTell
<1>0. n = 3 => (\A k \in 1..n : s[k].sk = "STRING" <=> s[k] = S!StringSort) /\ s = <<s[1], s[2],
    s[3]>>
  <2>1. s \in Seq({s[k] : k \in DOMAIN s})
    BY DEF S!AreSorts, S!IsSequence
  <2>2. n = 3 => s = <<s[1], s[2], s[3]>>
    BY <2>1
  <2>3. \A k \in DOMAIN s : s[k].sk = "STRING" <=> s[k] = S!StringSort
    BY SortFacts
  <2> QED BY <1>6, <2>2, <2>3
<1>8. S!check_sortedness(op, s) /\ ~S!Lenient(op, s) /\ op.p # "Abs"
        => S!Rank(op, s) = {S!compute_sort(op, s)}
  BY <1>2, <1>3, <1>5, <1>6, <1>7, <1>0
     DEF S!If, S!All, S!Same, S!IsBv, S!Lenient, S!Mixed, S!check_substr_sorts
<1>9. S!Rank(op, s) # {} /\ ~S!Strict(op, s) => S!check_sortedness(op, s)
  BY <1>2, <1>3, <1>5, <1>6, <1>7, <1>0
     DEF S!If, S!All, S!Same, S!IsBv, S!Strict, S!Unary, S!Ternary, S!Nary, S!check_substr_sorts
<1>10. S!Rank(op, s) # {} => S!compute_sort(op, s) \in S!Rank(op, s)
  BY <1>2, <1>3, <1>5, <1>6, <1>7, <1>0 DEF S!If, S!All, S!Same, S!IsBv, S!check_substr_sorts
<1> QED BY <1>8, <1>9, <1>10 DEF S!InferenceRight

\* Sort inference is right for StrAt.
LEMMA InferStrAt ==
  ASSUME NEW op, NEW s, NEW n \in Nat, Len(s) = n, S!IsOperator(op), S!AreSorts(s), op.p = "StrAt"
  PROVE  S!InferenceRight(op, s)
<1>1. S!sort_check(op.p, s) <=> S!check_charat_sorts(s)
  BY DEF S!sort_check, S!Connectives, S!Comparisons, S!BvOps, S!BvComparisons, S!BvSame,
      S!StrTests
<1>2. S!compute_sort(op, s) = S!StringSort
  BY DEF S!compute_sort, S!Connectives, S!Comparisons, S!BvOps, S!BvComparisons, S!BvSame,
      S!StrTests
<1>3. S!Rank(op, s) = S!If(n = 2 /\ s = <<S!StringSort, S!INT>>, S!StringSort)
  BY DEF S!Rank, S!Connectives, S!Comparisons, S!BvOps, S!BvComparisons, S!BvSame, S!StrTests
<1>4. S!get_arity(op.p)[1] = 2 /\ S!get_arity(op.p)[2] = 2
  BY DEF S!get_arity, S!Unary, S!Ternary, S!Nary
<1>4a. S!check_sortedness(op, s) <=> n >= 2 /\ n <= 2 /\ S!check_charat_sorts(s)
  BY <1>1, <1>4 DEF S!check_sortedness
<1>5. S!check_sortedness(op, s) <=> n = 2 /\ S!check_charat_sorts(s)
  <2>1. n >= 2 /\ n <= 2 <=> n = 2
    OBVIOUS
  <2> QED BY <1>4a, <2>1
<1>6. /\ n = 1 => DOMAIN s = {1}
      /\ n = 2 => DOMAIN s = {1, 2}
      /\ n = 3 => DOMAIN s = {1, 2, 3}
      /\ n >= 1 => 1 \in DOMAIN s
      /\ n <= S!INT_MAX
  BY KindsTell
<1>7. (S!arithmetic_sorts(s) <=> \A k \in DOMAIN s : s[k] \in {S!INT,
    S!REAL}) /\ (S!equal_sorts(s) <=> S!Same(s)) /\ (S!int_sorts(s) <=> S!All(s, S!INT))
  BY KindsTell
<1>0. n = 2 => (\A k \in 1..n : s[k].sk = "STRING" <=> s[k] = S!StringSort) /\ s = <<s[1], s[2]>>
  <2>1. s \in Seq({s[k] : k \in DOMAIN s})
    BY DEF S!AreSorts, S!IsSequence
  <2>2. n = 2 => s = <<s[1], s[2]>>
    BY <2>1
  <2>3. \A k \in DOMAIN s : s[k].sk = "STRING" <=> s[k] = S!StringSort
    BY SortFacts
  <2> QED BY <1>6, <2>2, <2>3
<1>8. S!check_sortedness(op, s) /\ ~S!Lenient(op, s) /\ op.p # "Abs"
        => S!Rank(op, s) = {S!compute_sort(op, s)}
  BY <1>2, <1>3, <1>5, <1>6, <1>7, <1>0
     DEF S!If, S!All, S!Same, S!IsBv, S!Lenient, S!Mixed, S!check_charat_sorts
<1>9. S!Rank(op, s) # {} /\ ~S!Strict(op, s) => S!check_sortedness(op, s)
  BY <1>2, <1>3, <1>5, <1>6, <1>7, <1>0
     DEF S!If, S!All, S!Same, S!IsBv, S!Strict, S!Unary, S!Ternary, S!Nary, S!check_charat_sorts
<1>10. S!Rank(op, s) # {} => S!compute_sort(op, s) \in S!Rank(op, s)
  BY <1>2, <1>3, <1>5, <1>6, <1>7, <1>0 DEF S!If, S!All, S!Same, S!IsBv, S!check_charat_sorts
<1> QED BY <1>8, <1>9, <1>10 DEF S!InferenceRight

\* Sort inference is right for StrIndexof.
LEMMA InferStrIndexof ==
  ASSUME NEW op, NEW s, NEW n \in Nat, Len(s) = n, S!IsOperator(op), S!AreSorts(s),
      op.p = "StrIndexof"
  PROVE  S!InferenceRight(op, s)
<1>1. S!sort_check(op.p, s) <=> S!check_indexof_sorts(s)
  BY DEF S!sort_check, S!Connectives, S!Comparisons, S!BvOps, S!BvComparisons, S!BvSame,
      S!StrTests
<1>2. S!compute_sort(op, s) = S!INT
  BY DEF S!compute_sort, S!Connectives, S!Comparisons, S!BvOps, S!BvComparisons, S!BvSame,
      S!StrTests
<1>3. S!Rank(op, s) = S!If(n = 3 /\ s = <<S!StringSort, S!StringSort, S!INT>>, S!INT)
  BY DEF S!Rank, S!Connectives, S!Comparisons, S!BvOps, S!BvComparisons, S!BvSame, S!StrTests
<1>4. S!get_arity(op.p)[1] = 3 /\ S!get_arity(op.p)[2] = 3
  BY DEF S!get_arity, S!Unary, S!Ternary, S!Nary
<1>4a. S!check_sortedness(op, s) <=> n >= 3 /\ n <= 3 /\ S!check_indexof_sorts(s)
  BY <1>1, <1>4 DEF S!check_sortedness
<1>5. S!check_sortedness(op, s) <=> n = 3 /\ S!check_indexof_sorts(s)
  <2>1. n >= 3 /\ n <= 3 <=> n = 3
    OBVIOUS
  <2> QED BY <1>4a, <2>1
<1>6. /\ n = 1 => DOMAIN s = {1}
      /\ n = 2 => DOMAIN s = {1, 2}
      /\ n = 3 => DOMAIN s = {1, 2, 3}
      /\ n >= 1 => 1 \in DOMAIN s
      /\ n <= S!INT_MAX
  BY KindsTell
<1>7. (S!arithmetic_sorts(s) <=> \A k \in DOMAIN s : s[k] \in {S!INT,
    S!REAL}) /\ (S!equal_sorts(s) <=> S!Same(s)) /\ (S!int_sorts(s) <=> S!All(s, S!INT))
  BY KindsTell
<1>0. n = 3 => (\A k \in 1..n : s[k].sk = "STRING" <=> s[k] = S!StringSort) /\ s = <<s[1], s[2],
    s[3]>>
  <2>1. s \in Seq({s[k] : k \in DOMAIN s})
    BY DEF S!AreSorts, S!IsSequence
  <2>2. n = 3 => s = <<s[1], s[2], s[3]>>
    BY <2>1
  <2>3. \A k \in DOMAIN s : s[k].sk = "STRING" <=> s[k] = S!StringSort
    BY SortFacts
  <2> QED BY <1>6, <2>2, <2>3
<1>8. S!check_sortedness(op, s) /\ ~S!Lenient(op, s) /\ op.p # "Abs"
        => S!Rank(op, s) = {S!compute_sort(op, s)}
  BY <1>2, <1>3, <1>5, <1>6, <1>7, <1>0
     DEF S!If, S!All, S!Same, S!IsBv, S!Lenient, S!Mixed, S!check_indexof_sorts
<1>9. S!Rank(op, s) # {} /\ ~S!Strict(op, s) => S!check_sortedness(op, s)
  BY <1>2, <1>3, <1>5, <1>6, <1>7, <1>0
     DEF S!If, S!All, S!Same, S!IsBv, S!Strict, S!Unary, S!Ternary, S!Nary, S!check_indexof_sorts
<1>10. S!Rank(op, s) # {} => S!compute_sort(op, s) \in S!Rank(op, s)
  BY <1>2, <1>3, <1>5, <1>6, <1>7, <1>0 DEF S!If, S!All, S!Same, S!IsBv, S!check_indexof_sorts
<1> QED BY <1>8, <1>9, <1>10 DEF S!InferenceRight

\* Sort inference is right for Select.
LEMMA InferSelect ==
  ASSUME NEW op, NEW s, NEW n \in Nat, Len(s) = n, S!IsOperator(op), S!AreSorts(s),
      op.p = "Select"
  PROVE  S!InferenceRight(op, s)
<1>1. S!sort_check(op.p, s) <=> S!check_select_sorts(s)
  BY DEF S!sort_check, S!Connectives, S!Comparisons, S!BvOps, S!BvComparisons, S!BvSame,
      S!StrTests
<1>2. S!compute_sort(op, s) = s[1].elem
  BY DEF S!compute_sort, S!Connectives, S!Comparisons, S!BvOps, S!BvComparisons, S!BvSame,
      S!StrTests
<1>3. S!Rank(op, s) = IF n = 2 /\ s[1].sk = "ARRAY" THEN S!If(s[2] = s[1].index,
    s[1].elem) ELSE {}
  BY DEF S!Rank, S!Connectives, S!Comparisons, S!BvOps, S!BvComparisons, S!BvSame, S!StrTests
<1>4. S!get_arity(op.p)[1] = 2 /\ S!get_arity(op.p)[2] = 2
  BY DEF S!get_arity, S!Unary, S!Ternary, S!Nary
<1>4a. S!check_sortedness(op, s) <=> n >= 2 /\ n <= 2 /\ S!check_select_sorts(s)
  BY <1>1, <1>4 DEF S!check_sortedness
<1>5. S!check_sortedness(op, s) <=> n = 2 /\ S!check_select_sorts(s)
  <2>1. n >= 2 /\ n <= 2 <=> n = 2
    OBVIOUS
  <2> QED BY <1>4a, <2>1
<1>6. /\ n = 1 => DOMAIN s = {1}
      /\ n = 2 => DOMAIN s = {1, 2}
      /\ n = 3 => DOMAIN s = {1, 2, 3}
      /\ n >= 1 => 1 \in DOMAIN s
      /\ n <= S!INT_MAX
  BY KindsTell
<1>7. (S!arithmetic_sorts(s) <=> \A k \in DOMAIN s : s[k] \in {S!INT,
    S!REAL}) /\ (S!equal_sorts(s) <=> S!Same(s)) /\ (S!int_sorts(s) <=> S!All(s, S!INT))
  BY KindsTell
<1>8. S!check_sortedness(op, s) /\ ~S!Lenient(op, s) /\ op.p # "Abs"
        => S!Rank(op, s) = {S!compute_sort(op, s)}
  BY <1>2, <1>3, <1>5, <1>6, <1>7
     DEF S!If, S!All, S!Same, S!IsBv, S!Lenient, S!Mixed, S!check_select_sorts
<1>9. S!Rank(op, s) # {} /\ ~S!Strict(op, s) => S!check_sortedness(op, s)
  BY <1>2, <1>3, <1>5, <1>6, <1>7
     DEF S!If, S!All, S!Same, S!IsBv, S!Strict, S!Unary, S!Ternary, S!Nary, S!check_select_sorts
<1>10. S!Rank(op, s) # {} => S!compute_sort(op, s) \in S!Rank(op, s)
  BY <1>2, <1>3, <1>5, <1>6, <1>7 DEF S!If, S!All, S!Same, S!IsBv, S!check_select_sorts
<1> QED BY <1>8, <1>9, <1>10 DEF S!InferenceRight

\* Sort inference is right for Store.
LEMMA InferStore ==
  ASSUME NEW op, NEW s, NEW n \in Nat, Len(s) = n, S!IsOperator(op), S!AreSorts(s), op.p = "Store"
  PROVE  S!InferenceRight(op, s)
<1>1. S!sort_check(op.p, s) <=> S!check_store_sorts(s)
  BY DEF S!sort_check, S!Connectives, S!Comparisons, S!BvOps, S!BvComparisons, S!BvSame,
      S!StrTests
<1>2. S!compute_sort(op, s) = s[1]
  BY DEF S!compute_sort, S!Connectives, S!Comparisons, S!BvOps, S!BvComparisons, S!BvSame,
      S!StrTests
<1>3. S!Rank(op, s) = IF n = 3 /\ s[1].sk = "ARRAY" THEN S!If(s[2] = s[1].index /\ s[3] = s[1].elem, s[1]) ELSE {}
  BY DEF S!Rank, S!Connectives, S!Comparisons, S!BvOps, S!BvComparisons, S!BvSame, S!StrTests
<1>4. S!get_arity(op.p)[1] = 3 /\ S!get_arity(op.p)[2] = 3
  BY DEF S!get_arity, S!Unary, S!Ternary, S!Nary
<1>4a. S!check_sortedness(op, s) <=> n >= 3 /\ n <= 3 /\ S!check_store_sorts(s)
  BY <1>1, <1>4 DEF S!check_sortedness
<1>5. S!check_sortedness(op, s) <=> n = 3 /\ S!check_store_sorts(s)
  <2>1. n >= 3 /\ n <= 3 <=> n = 3
    OBVIOUS
  <2> QED BY <1>4a, <2>1
<1>6. /\ n = 1 => DOMAIN s = {1}
      /\ n = 2 => DOMAIN s = {1, 2}
      /\ n = 3 => DOMAIN s = {1, 2, 3}
      /\ n >= 1 => 1 \in DOMAIN s
      /\ n <= S!INT_MAX
  BY KindsTell
<1>7. (S!arithmetic_sorts(s) <=> \A k \in DOMAIN s : s[k] \in {S!INT,
    S!REAL}) /\ (S!equal_sorts(s) <=> S!Same(s)) /\ (S!int_sorts(s) <=> S!All(s, S!INT))
  BY KindsTell
<1>8. S!check_sortedness(op, s) /\ ~S!Lenient(op, s) /\ op.p # "Abs"
        => S!Rank(op, s) = {S!compute_sort(op, s)}
  BY <1>2, <1>3, <1>5, <1>6, <1>7
     DEF S!If, S!All, S!Same, S!IsBv, S!Lenient, S!Mixed, S!check_store_sorts
<1>9. S!Rank(op, s) # {} /\ ~S!Strict(op, s) => S!check_sortedness(op, s)
  BY <1>2, <1>3, <1>5, <1>6, <1>7
     DEF S!If, S!All, S!Same, S!IsBv, S!Strict, S!Unary, S!Ternary, S!Nary, S!check_store_sorts
<1>10. S!Rank(op, s) # {} => S!compute_sort(op, s) \in S!Rank(op, s)
  BY <1>2, <1>3, <1>5, <1>6, <1>7 DEF S!If, S!All, S!Same, S!IsBv, S!check_store_sorts
<1> QED BY <1>8, <1>9, <1>10 DEF S!InferenceRight

\* Apply: a function and as many arguments as its domain has sorts.
LEMMA InferApply ==
  ASSUME NEW op, NEW s, NEW n \in Nat, Len(s) = n, S!IsOperator(op), S!AreSorts(s), op.p = "Apply"
  PROVE  S!InferenceRight(op, s)
<1>1. S!sort_check(op.p, s) <=> S!check_apply_sorts(s)
  BY DEF S!sort_check, S!Connectives, S!Comparisons, S!BvOps, S!BvComparisons, S!BvSame,
      S!StrTests
<1>2. S!compute_sort(op, s) = s[1].codomain
  BY DEF S!compute_sort, S!Connectives, S!Comparisons, S!BvOps, S!BvComparisons, S!BvSame,
      S!StrTests
<1>3. S!Rank(op, s) = IF n >= 2 /\ s[1].sk = "FUNCTION" THEN S!If(Tail(s) = s[1].domain,
    s[1].codomain) ELSE {}
  BY DEF S!Rank, S!Connectives, S!Comparisons, S!BvOps, S!BvComparisons, S!BvSame, S!StrTests
<1>4. S!get_arity(op.p)[1] = 2 /\ S!get_arity(op.p)[2] = S!INT_MAX
  BY DEF S!get_arity, S!Unary, S!Ternary, S!Nary
<1>5. S!check_sortedness(op, s) <=> n >= 2 /\ n <= S!INT_MAX /\ S!check_apply_sorts(s)
  BY <1>1, <1>4 DEF S!check_sortedness
<1>6. /\ n = 1 => DOMAIN s = {1}
      /\ n = 2 => DOMAIN s = {1, 2}
      /\ n = 3 => DOMAIN s = {1, 2, 3}
      /\ n >= 1 => 1 \in DOMAIN s
      /\ n <= S!INT_MAX
  BY KindsTell
<1>7. (S!arithmetic_sorts(s) <=> \A k \in DOMAIN s : s[k] \in {S!INT,
    S!REAL}) /\ (S!equal_sorts(s) <=> S!Same(s)) /\ (S!int_sorts(s) <=> S!All(s, S!INT))
  BY KindsTell
<1>0. n >= 2 /\ s[1].sk = "FUNCTION" => (S!check_apply_sorts(s) <=> Tail(s) = s[1].domain)
  <2> DEFINE d == s[1].domain
  <2> SUFFICES ASSUME n >= 2, s[1].sk = "FUNCTION" PROVE S!check_apply_sorts(s) <=> Tail(s) = d
    OBVIOUS
  <2>1. s \in Seq({s[k] : k \in DOMAIN s})
    BY DEF S!AreSorts, S!IsSequence
  <2>2. S!IsSequence(d)
    BY <1>6, SortFacts
  <2> HIDE DEF d
  <2>3. Len(d) \in Nat /\ DOMAIN d = 1..Len(d) /\ d = [i \in 1..Len(d) |-> d[i]]
    BY <2>2 DEF S!IsSequence
  <2>4. Tail(s) = [i \in 1..n - 1 |-> s[i + 1]]
    <3>1. s # <<>>
      BY <2>1
    <3>2. /\ Tail(s) \in Seq({s[k] : k \in DOMAIN s})
          /\ Len(Tail(s)) = n - 1
          /\ \A i \in 1..Len(Tail(s)) : Tail(s)[i] = s[i + 1]
      BY <2>1, <3>1, HeadTailProperties
    <3> DEFINE t == Tail(s)
    <3> HIDE DEF t
    <3>3. t \in Seq({s[k] : k \in DOMAIN s}) /\ Len(t) = n - 1 /\ \A i \in 1..n - 1 : t[i] = s[i + 1]
      BY <3>2 DEF t
    <3>4. DOMAIN t = 1..n - 1 /\ t = [i \in DOMAIN t |-> t[i]]
      BY <3>3
    <3>5. t = [i \in 1..n - 1 |-> s[i + 1]]
      BY <3>3, <3>4
    <3> QED BY <3>5 DEF t
  <2>5. S!check_apply_sorts(s) <=> Len(d) + 1 = n /\ \A k \in DOMAIN d : d[k] = s[k + 1]
    BY DEF S!check_apply_sorts, d
  <2>6. ASSUME Len(d) + 1 = n, \A k \in DOMAIN d : d[k] = s[k + 1] PROVE Tail(s) = d
    BY <2>3, <2>4, <2>6
  <2>7. ASSUME Tail(s) = d PROVE Len(d) + 1 = n /\ \A k \in DOMAIN d : d[k] = s[k + 1]
    <3>1. DOMAIN d = 1..n - 1
      BY <2>4, <2>7
    <3>2. Len(d) = n - 1
      BY <2>3, <3>1
    <3> QED BY <2>4, <2>7, <3>1, <3>2
  <2> QED BY <2>5, <2>6, <2>7
<1>8. S!check_sortedness(op, s) /\ ~S!Lenient(op, s) /\ op.p # "Abs"
        => S!Rank(op, s) = {S!compute_sort(op, s)}
  BY <1>2, <1>3, <1>5, <1>6, <1>7, <1>0
     DEF S!If, S!All, S!Same, S!IsBv, S!Lenient, S!Mixed, S!check_apply_sorts
<1>9. S!Rank(op, s) # {} /\ ~S!Strict(op, s) => S!check_sortedness(op, s)
  BY <1>2, <1>3, <1>5, <1>6, <1>7, <1>0
     DEF S!If, S!All, S!Same, S!IsBv, S!Strict, S!Unary, S!Ternary, S!Nary, S!check_apply_sorts
<1>10. S!Rank(op, s) # {} => S!compute_sort(op, s) \in S!Rank(op, s)
  BY <1>2, <1>3, <1>5, <1>6, <1>7, <1>0 DEF S!If, S!All, S!Same, S!IsBv, S!check_apply_sorts
<1> QED BY <1>8, <1>9, <1>10 DEF S!InferenceRight

\* check_sortedness and compute_sort, for every operator and every list of sorts:
\* what is accepted has the sort SMT-LIB gives it, and the other way round, but
\* for the differences named.
THEOREM InferenceIsRight ==
  ASSUME NEW op \in Operators, NEW s \in ArgumentSorts
  PROVE  S!InferenceRight(op, s)
<1>1. S!IsOperator(op) /\ S!AreSorts(s)
  BY UtilitiesAssumption
<1>2. Len(s) \in Nat
  BY <1>1, KindsTell
<1>3. op.p \in S!PrimOps
  BY <1>1 DEF S!IsOperator
<1>4. CASE op.p \in S!Connectives
  BY <1>1, <1>2, <1>4, InferConnectives
<1>5. CASE op.p = "Not"
  BY <1>1, <1>2, <1>5, InferNot
<1>6. CASE op.p = "Ite"
  BY <1>1, <1>2, <1>6, InferIte
<1>7. CASE op.p \in {"Equal", "Distinct"}
  BY <1>1, <1>2, <1>7, InferEqual
<1>8. CASE op.p \in {"Plus", "Minus", "Mult"}
  BY <1>1, <1>2, <1>8, InferSum
<1>9. CASE op.p = "Negate"
  BY <1>1, <1>2, <1>9, InferNegate
<1>10. CASE op.p = "Div"
  BY <1>1, <1>2, <1>10, InferDiv
<1>11. CASE op.p \in {"IntDiv", "Mod"}
  BY <1>1, <1>2, <1>11, InferIntDiv
<1>12. CASE op.p = "Pow"
  BY <1>1, <1>2, <1>12, InferPow
<1>13. CASE op.p = "Abs"
  BY <1>1, <1>2, <1>13, InferAbs
<1>14. CASE op.p \in S!Comparisons
  BY <1>1, <1>2, <1>14, InferComparisons
<1>15. CASE op.p = "To_Real"
  BY <1>1, <1>2, <1>15, InferToReal
<1>16. CASE op.p = "To_Int"
  BY <1>1, <1>2, <1>16, InferToInt
<1>17. CASE op.p = "Is_Int"
  BY <1>1, <1>2, <1>17, InferIsInt
<1>18. CASE op.p = "Concat"
  BY <1>1, <1>2, <1>18, InferConcat
<1>19. CASE op.p = "Extract"
  BY <1>1, <1>2, <1>19, InferExtract
<1>20. CASE op.p \in S!BvSame
  BY <1>1, <1>2, <1>20, InferBvSame
<1>21. CASE op.p \in S!BvOps
  BY <1>1, <1>2, <1>21, InferBvOps
<1>22. CASE op.p = "BVComp"
  BY <1>1, <1>2, <1>22, InferBVComp
<1>23. CASE op.p \in S!BvComparisons
  BY <1>1, <1>2, <1>23, InferBvComparisons
<1>24. CASE op.p \in {"Zero_Extend", "Sign_Extend"}
  BY <1>1, <1>2, <1>24, InferExtend
<1>25. CASE op.p = "Repeat"
  BY <1>1, <1>2, <1>25, InferRepeat
<1>26. CASE op.p = "BV_To_Nat"
  BY <1>1, <1>2, <1>26, InferBvToNat
<1>27. CASE op.p = "Int_To_BV"
  BY <1>1, <1>2, <1>27, InferIntToBv
<1>28. CASE op.p \in S!StrTests
  BY <1>1, <1>2, <1>28, InferStrTests
<1>29. CASE op.p = "StrIsDigit"
  BY <1>1, <1>2, <1>29, InferStrIsDigit
<1>30. CASE op.p = "StrLen"
  BY <1>1, <1>2, <1>30, InferStrLen
<1>31. CASE op.p = "StrConcat"
  BY <1>1, <1>2, <1>31, InferStrConcat
<1>32. CASE op.p \in {"StrReplace", "StrReplaceAll"}
  BY <1>1, <1>2, <1>32, InferStrReplace
<1>33. CASE op.p = "StrSubstr"
  BY <1>1, <1>2, <1>33, InferStrSubstr
<1>34. CASE op.p = "StrAt"
  BY <1>1, <1>2, <1>34, InferStrAt
<1>35. CASE op.p = "StrIndexof"
  BY <1>1, <1>2, <1>35, InferStrIndexof
<1>36. CASE op.p = "Select"
  BY <1>1, <1>2, <1>36, InferSelect
<1>37. CASE op.p = "Store"
  BY <1>1, <1>2, <1>37, InferStore
<1>38. CASE op.p = "Apply"
  BY <1>1, <1>2, <1>38, InferApply
<1> QED BY <1>3, <1>4, <1>5, <1>6, <1>7, <1>8, <1>9, <1>10, <1>11, <1>12, <1>13, <1>14, <1>15,
    <1>16, <1>17, <1>18, <1>19, <1>20, <1>21, <1>22, <1>23, <1>24, <1>25, <1>26, <1>27, <1>28,
        <1>29, <1>30, <1>31, <1>32, <1>33, <1>34, <1>35, <1>36, <1>37, <1>38 DEF S!PrimOps,
            S!OtherOps

\* A question is about an operator and sorts that the library knows.
QueryInv == query \in {<<>>} \cup (Operators \X ArgumentSorts)

\* And so it is for any that may be asked about.
LEMMA QueryInvImplies == QueryInv => Inferred
<1> SUFFICES ASSUME QueryInv, query # <<>> PROVE S!InferenceRight(query[1], query[2])
  BY DEF Inferred
<1>1. query[1] \in Operators /\ query[2] \in ArgumentSorts
  BY DEF QueryInv
<1> QED BY <1>1, InferenceIsRight

\* Ask() keeps to operators and sorts that the library knows.
LEMMA QueryStep == QueryInv /\ (Ask \/ UNCHANGED query) => QueryInv'
BY DEF QueryInv, Ask

------------------------------------------------------------------------------
(* UnsatCoreReducer: its operators.                                        *)

Injects(f) == \A t, u \in DOMAIN f : f[t] = f[u] => t = u

\* The terms given that the labels in ls stand for.
Marked(ls) == {t \in R!Given : labels[t] \in ls}
Gone == {Transfer(a) : a \in R!Elements(out_rem)}

Marks(upto) ==
  /\ \A i \in 1..upto : cand_res[i] \in DOMAIN labels
  /\ asserted = {<<labels[cand_res[i]], cand_res[i]>> : i \in 1..upto}
  /\ bool_assump \in Seq({labels[t] : t \in DOMAIN labels}) /\ Len(bool_assump) = upto
  /\ \A i \in 1..upto : bool_assump[i] = labels[cand_res[i]]

MarkedAll ==
  /\ R!Given \subseteq DOMAIN labels
  /\ asserted = {<<labels[t], t>> : t \in R!Given}
  /\ bool_assump \in Seq({labels[t] : t \in R!Given})

LabelInv ==
  /\ job.how \in {"reduce", "linear"}
  /\ R!Elements(cand_res) = R!Given /\ out_rem = <<>> /\ position = 1 /\ cur_iter = 0
  /\ \E upto \in 0..Len(cand_res) : Marks(upto)

ReduceInv ==
  /\ job.how = "reduce" /\ MarkedAll /\ cur_iter \in Nat
  /\ out_rem \in Seq(R!Elements(job.assump))
  /\ R!Elements(cand_res) \cup Gone = R!Given /\ R!Elements(cand_res) \cap Gone = {}
  /\ R!Elements(bool_assump) = {labels[t] : t \in R!Elements(cand_res)}
  /\ cur_iter = 0 => R!Elements(cand_res) = R!Given

Needed(upto) ==
  \A i \in 1..upto, t \in R!Given :
    bool_assump[i] = labels[t] =>
      ~R!Contradict(Marked(R!Elements(bool_assump)) \ {t})

LinearInv ==
  /\ job.how = "linear" /\ MarkedAll /\ R!Elements(cand_res) = R!Given
  /\ \/ Marked(R!Elements(bool_assump)) = R!Given
     \/ R!Contradict(Marked(R!Elements(bool_assump)))
  /\ position \in 1..Len(bool_assump) + 1 /\ Needed(position - 1)
  /\ job.iter = 0 => cur_iter = 0

RunInv ==
  /\ level = 1 /\ {} \notin job.conflicts
  /\ job.assump \in Seq(R!Elements(job.assump)) /\ cand_res \in Seq(R!Given)
  /\ \/ pc = "label" /\ LabelInv
     \/ pc = "reduce" /\ ReduceInv
     \/ pc = "linear" /\ LinearInv

CoreInv ==
  /\ IsFiniteSet(DOMAIN labels) /\ Injects(labels)
  /\ \/ pc = "idle" /\ Reduced
     \/ pc # "idle" /\ RunInv

\* The function that Filter defines exists, and is the one it uses.
LEMMA FilterFunction ==
  ASSUME NEW X, NEW s \in Seq(X), NEW set
  PROVE  \E f \in [0..Len(s) -> Seq(X)] :
           /\ R!Filter(s, set) = f[Len(s)]
           /\ f[0] = <<>>
           /\ \A i \in 1..Len(s) :
                f[i] = IF s[i] \in set THEN Append(f[i - 1], s[i]) ELSE f[i - 1]
<1> DEFINE n == Len(s)
           Dom == 0..n
           Body(i, g) == IF i = 0 THEN <<>>
                         ELSE IF s[i] \in set THEN Append(g[i - 1], s[i]) ELSE g[i - 1]
           h == [i \in Dom |-> i]
           F == [p \in Dom \X [Dom -> Seq(X)] |-> Body(p[1], p[2])]
<1>1. n \in Nat /\ \A i \in 1..n : s[i] \in X
  OBVIOUS
<1>2. h \in [Dom -> Nat]
  BY <1>1
<1>3. ASSUME NEW i \in Dom, NEW g \in [Dom -> Seq(X)] PROVE Body(i, g) \in Seq(X)
  <2>1. CASE i = 0
    BY <2>1
  <2>2. CASE i # 0
    <3>1. i - 1 \in Dom /\ i \in 1..n
      BY <2>2, <1>1
    <3>2. g[i - 1] \in Seq(X) /\ s[i] \in X
      BY <3>1, <1>1
    <3> QED BY <3>2, <2>2, AppendProperties
  <2> QED BY <2>1, <2>2
<1>4. F \in [Dom \X [Dom -> Seq(X)] -> Seq(X)]
  <2> HIDE DEF Body, Dom
  <2> QED BY <1>3
<1>5. ASSUME NEW i \in Dom, NEW g1 \in [Dom -> Seq(X)], NEW g2 \in [Dom -> Seq(X)],
             \A e \in Dom : h[e] < h[i] => g1[e] = g2[e]
      PROVE  F[<<i, g1>>] = F[<<i, g2>>]
  <2>1. F[<<i, g1>>] = Body(i, g1) /\ F[<<i, g2>>] = Body(i, g2)
    <3> HIDE DEF Body, Dom
    <3> QED OBVIOUS
  <2>2. CASE i = 0
    BY <2>1, <2>2
  <2>3. CASE i # 0
    <3>1. i - 1 \in Dom /\ i - 1 < i
      BY <2>3, <1>1
    <3>2. g1[i - 1] = g2[i - 1]
      BY <3>1, <1>5
    <3> QED BY <2>1, <3>2
  <2> QED BY <2>2, <2>3
<1>6. Seq(X) # {}
  BY <<>> \in Seq(X)
<1>7. PICK f \in [Dom -> Seq(X)] : \A i \in Dom : f[i] = F[<<i, f>>]
  <2>1. \A i \in Dom, g1, g2 \in [Dom -> Seq(X)] :
          (\A e \in Dom : h[e] < h[i] => g1[e] = g2[e]) => F[<<i, g1>>] = F[<<i, g2>>]
    <3> HIDE DEF F, h, Dom
    <3> QED BY <1>5
  <2>2. WellRecursive(Dom, Seq(X), h, F)
    <3> HIDE DEF F, h, Dom
    <3> QED BY <1>2, <1>4, <1>6, <2>1 DEF WellRecursive
  <2> HIDE DEF F, h, Dom
  <2> QED BY <2>2, Recursion
<1>8. \A i \in Dom : f[i] = Body(i, f)
  <2> HIDE DEF Body, Dom
  <2> QED BY <1>7
<1> DEFINE Is(g) == g = [i \in Dom |-> Body(i, g)]
           c == CHOOSE g : Is(g)
<1>9. Is(f)
  <2> HIDE DEF Body, Dom
  <2> QED BY <1>8
<1>10. Is(c)
  <2> HIDE DEF Is
  <2> QED BY <1>9
<1>11. R!Filter(s, set) = c[n]
  BY DEF R!Filter
<1>12. \A i \in Dom : c[i] = Body(i, c)
  <2> HIDE DEF c, Body, Dom
  <2> QED BY <1>10
<1> HIDE DEF c
<1>13. ASSUME NEW i \in Nat PROVE i \in {j \in Nat : j \in Dom => c[j] \in Seq(X)}
  <2> DEFINE Good == {j \in Nat : j \in Dom => c[j] \in Seq(X)}
  <2>1. 0 \in Good
    <3>1. 0 \in Dom
      BY <1>1
    <3>2. c[0] = Body(0, c)
      <4> HIDE DEF Body, Dom
      <4> QED BY <1>12, <3>1
    <3>3. c[0] = <<>>
      BY <3>2
    <3>4. c[0] \in Seq(X)
      BY <3>3
    <3> QED BY <3>4
  <2>2. ASSUME NEW j \in Nat, j \in Good PROVE j + 1 \in Good
    <3> SUFFICES ASSUME j + 1 \in Dom PROVE c[j + 1] \in Seq(X)
      OBVIOUS
    <3>1. j \in Dom /\ j + 1 \in 1..n
      BY <1>1
    <3>2. c[j] \in Seq(X) /\ s[j + 1] \in X
      BY <2>2, <3>1, <1>1
    <3>3. c[j + 1] = IF s[j + 1] \in set THEN Append(c[j], s[j + 1]) ELSE c[j]
      BY <1>12, <3>1
    <3> QED BY <3>2, <3>3, AppendProperties
  <2> HIDE DEF Good
  <2>3. Nat \subseteq Good
    BY <2>1, <2>2, Induction
  <2> QED BY <2>3 DEF Good
<1>14. c \in [Dom -> Seq(X)]
  <2>1. \A i \in Dom : c[i] \in Seq(X)
    BY <1>13, <1>1
  <2>2. c = [i \in Dom |-> c[i]]
    <3> HIDE DEF Body, Dom
    <3> QED BY <1>10
  <2> HIDE DEF Dom, Is
  <2> QED BY <2>1, <2>2
<1>15. c[0] = <<>> /\ \A i \in 1..n : c[i] = IF s[i] \in set THEN Append(c[i - 1],
    s[i]) ELSE c[i - 1]
  BY <1>1, <1>12
<1> QED BY <1>11, <1>14, <1>15

\* Filter keeps what is in set and, while all is, the places of what it keeps.
LEMMA FilterProperties ==
  ASSUME NEW X, NEW s \in Seq(X), NEW set
  PROVE  /\ R!Filter(s, set) \in Seq(X)
         /\ R!Elements(R!Filter(s, set)) = R!Elements(s) \cap set
         /\ \A p \in 0..Len(s) : (\A i \in 1..p : s[i] \in set) =>
              Len(R!Filter(s, set)) >= p /\ \A i \in 1..p : R!Filter(s, set)[i] = s[i]
<1>1. PICK f \in [0..Len(s) -> Seq(X)] :
           /\ R!Filter(s, set) = f[Len(s)]
           /\ f[0] = <<>>
           /\ \A i \in 1..Len(s) :
                f[i] = IF s[i] \in set THEN Append(f[i - 1], s[i]) ELSE f[i - 1]
  BY FilterFunction
<1>2. Len(s) \in Nat /\ DOMAIN s = 1..Len(s) /\ \A i \in 1..Len(s) : s[i] \in X
  OBVIOUS
<1> DEFINE Good(i) ==
             /\ R!Elements(f[i]) = {s[j] : j \in {k \in 1..i : s[k] \in set}}
             /\ Len(f[i]) <= i
             /\ \A p \in 0..i : (\A j \in 1..p : s[j] \in set) =>
                  Len(f[i]) >= p /\ \A j \in 1..p : f[i][j] = s[j]
           All == {i \in Nat : i <= Len(s) => Good(i)}
<1>3. 0 \in All
  BY <1>1 DEF R!Elements
<1>4. ASSUME NEW i \in Nat, i \in All PROVE i + 1 \in All
  <2> SUFFICES ASSUME i + 1 <= Len(s) PROVE Good(i + 1)
    OBVIOUS
  <2>1. i \in 0..Len(s) /\ i + 1 \in 1..Len(s) /\ (i + 1) - 1 = i
    BY <1>2
  <2>2. Good(i)
    BY <1>4, <2>1
  <2>3. f[i] \in Seq(X) /\ s[i + 1] \in X /\ Len(f[i]) \in Nat
    BY <2>1, <1>1, <1>2
  <2>4. f[i + 1] = IF s[i + 1] \in set THEN Append(f[i], s[i + 1]) ELSE f[i]
    BY <2>1, <1>1
  <2>5. CASE s[i + 1] \notin set
    <3>1. f[i + 1] = f[i]
      BY <2>4, <2>5
    <3>2. {k \in 1..i + 1 : s[k] \in set} = {k \in 1..i : s[k] \in set}
      BY <2>5
    <3>3. ASSUME NEW p \in 0..i + 1, \A j \in 1..p : s[j] \in set PROVE p \in 0..i
      BY <3>3, <2>5
    <3> QED BY <2>2, <2>3, <3>1, <3>2, <3>3
  <2>6. CASE s[i + 1] \in set
    <3> DEFINE g == f[i]
               a == f[i + 1]
    <3>1. /\ a \in Seq(X) /\ Len(a) = Len(g) + 1 /\ g \in Seq(X)
          /\ \A j \in 1..Len(g) : a[j] = g[j]
          /\ a[Len(g) + 1] = s[i + 1]
      BY <2>3, <2>4, <2>6, AppendProperties
    <3>2. R!Elements(a) = R!Elements(g) \cup {s[i + 1]}
      <4> HIDE DEF a, g
      <4>1. DOMAIN a = 1..Len(g) + 1 /\ DOMAIN g = 1..Len(g) /\ Len(g) \in Nat
        BY <3>1
      <4>2. DOMAIN a = DOMAIN g \cup {Len(g) + 1}
        BY <4>1
      <4>3. /\ \A j \in DOMAIN g : a[j] = g[j]
            /\ a[Len(g) + 1] = s[i + 1]
        BY <3>1, <4>1
      <4> QED BY <4>2, <4>3, Zenon DEF R!Elements
    <3>3. {s[j] : j \in {k \in 1..i + 1 : s[k] \in set}}
            = {s[j] : j \in {k \in 1..i : s[k] \in set}} \cup {s[i + 1]}
      BY <2>6
    <3>4. Len(a) <= i + 1
      BY <2>2, <2>3, <3>1
    <3>5. ASSUME NEW p \in 0..i + 1, \A j \in 1..p : s[j] \in set
          PROVE  Len(a) >= p /\ \A j \in 1..p : a[j] = s[j]
      <4>1. CASE p \in 0..i
        <5>1. Len(g) >= p /\ \A j \in 1..p : g[j] = s[j]
          BY <2>2, <3>5, <4>1
        <5> HIDE DEF a, g
        <5>2. Len(g) \in Nat /\ p \in Nat
          BY <3>1
        <5> QED BY <5>1, <5>2, <3>1
      <4>2. CASE p = i + 1
        <5>1. \A j \in 1..i : s[j] \in set
          BY <3>5, <4>2
        <5>2. i \in 0..i
          OBVIOUS
        <5>3. Len(g) >= i /\ \A j \in 1..i : g[j] = s[j]
          BY <2>2, <5>1, <5>2
        <5>4. Len(g) = i
          BY <2>2, <5>3, <2>3
        <5> HIDE DEF a, g
        <5> QED BY <5>3, <5>4, <3>1, <4>2
      <4> QED BY <4>1, <4>2
    <3> QED BY <2>2, <3>2, <3>3, <3>4, <3>5
  <2> QED BY <2>5, <2>6
<1>5. Good(Len(s))
  <2> HIDE DEF Good
  <2>1. Nat \subseteq All
    <3> HIDE DEF All
    <3> QED BY <1>3, <1>4, Induction
  <2> QED BY <2>1, <1>2
<1>6. {s[j] : j \in {k \in 1..Len(s) : s[k] \in set}} = R!Elements(s) \cap set
  BY <1>2 DEF R!Elements
<1>7. f[Len(s)] \in Seq(X)
  BY <1>2
<1> QED BY <1>1, <1>5, <1>6, <1>7

\* Cardinality is the same operator in the module of the reducer.
LEMMA ReducerCardinality ==
  ASSUME NEW X PROVE R!Cardinality(X) = Cardinality(X)
BY DEF R!Cardinality, Cardinality

\* label(): of Cardinality + 1 names one is free, so that a new one is.
LEMMA NewLabel ==
  ASSUME NEW known, NEW t, IsFiniteSet(DOMAIN known)
  PROVE  R!new_label(known, t) \notin {known[u] : u \in DOMAIN known}
<1> DEFINE taken == {known[u] : u \in DOMAIN known}
           f == [u \in DOMAIN known |-> known[u]]
           n == Cardinality(taken)
           g == [i \in 0..n |-> <<Hash(t), i>>]
           free == R!Free(Hash(t), taken)
           c == R!First(free)
<1>1. f \in Surjection(DOMAIN known, taken)
  BY DEF Surjection
<1>2. IsFiniteSet(taken) /\ n \in Nat
  <2> HIDE DEF f, taken
  <2> QED BY <1>1, FS_Surjection, FS_CardinalityType
<1>3. \E i \in free : \A j \in free : i <= j
  <2>1. IsFiniteSet(0..n) /\ Cardinality(0..n) = n + 1
    <3> HIDE DEF n
    <3> QED BY <1>2, FS_Interval
  <2>2. free # {}
    <3> SUFFICES ASSUME free = {} PROVE FALSE
      OBVIOUS
    <3>0. \A i \in 0..n : <<Hash(t), i>> \in taken
      <4>1. free = {i \in 0..n : <<Hash(t), i>> \notin taken}
        BY ReducerCardinality DEF R!Free
      <4> HIDE DEF free, taken
      <4> QED BY <4>1
    <3>1. g \in [0..n -> taken]
      <4> HIDE DEF taken, n
      <4> QED BY <3>0
    <3>2. \A i, j \in 0..n : g[i] = g[j] => i = j
      <4> HIDE DEF taken, n
      <4> QED OBVIOUS
    <3>3. Cardinality(taken) < Cardinality(0..n)
      BY <1>2, <2>1
    <3> HIDE DEF g, taken
    <3>4. \E i, j \in 0..n : i # j /\ g[i] = g[j]
      BY <3>1, <3>3, <1>2, <2>1, FS_PigeonHole
    <3> QED BY <3>2, <3>4
  <2>3. free \subseteq Nat
    BY <1>2 DEF R!Free
  <2> HIDE DEF free
  <2> QED BY <2>2, <2>3, Least
<1>4. c \in free
  <2> HIDE DEF free
  <2> QED BY <1>3 DEF R!First
<1>5. R!new_label(known, t) = <<Hash(t), c>>
  BY DEF R!new_label
<1>6. <<Hash(t), c>> \notin taken
  <2> HIDE DEF c
  <2> QED BY <1>4 DEF R!Free
<1> QED BY <1>5, <1>6

\* label() keeps the labels there are, and no two terms have one.
LEMMA LabelProperties ==
  ASSUME NEW known, NEW t, IsFiniteSet(DOMAIN known), Injects(known)
  PROVE  /\ IsFiniteSet(DOMAIN R!label(known, t)) /\ Injects(R!label(known, t))
         /\ t \in DOMAIN R!label(known, t)
         /\ \A u \in DOMAIN known : /\ u \in DOMAIN R!label(known, t)
                                    /\ R!label(known, t)[u] = known[u]
<1> DEFINE k == R!label(known, t)
<1>1. CASE t \in DOMAIN known
  <2>1. k = known
    BY <1>1 DEF R!label
  <2> QED BY <1>1, <2>1
<1>2. CASE t \notin DOMAIN known
  <2>1. k = [u \in DOMAIN known \cup {t} |-> IF u = t THEN R!new_label(known, t) ELSE known[u]]
    BY <1>2 DEF R!label
  <2> HIDE DEF k
  <2>2. DOMAIN k = DOMAIN known \cup {t}
    BY <2>1
  <2>3. IsFiniteSet(DOMAIN k)
    BY <2>2, FS_AddElement
  <2>4. \A u \in DOMAIN known : k[u] = known[u] /\ k[u] # k[t]
    <3>1. \A u \in DOMAIN known : k[u] = known[u] /\ u # t
      BY <2>1, <1>2
    <3>2. k[t] = R!new_label(known, t)
      BY <2>1
    <3>3. \A u \in DOMAIN known : known[u] # R!new_label(known, t)
      BY NewLabel
    <3> QED BY <3>1, <3>2, <3>3
  <2>5. Injects(k)
    BY <2>2, <2>4 DEF Injects
  <2> QED BY <2>2, <2>3, <2>4, <2>5 DEF k
<1> QED BY <1>1, <1>2

\* to_ext_assump: a transferred assumption leads back to one of the caller's.
LEMMA ToExtAssump ==
  ASSUME job.assump \in Seq(R!Elements(job.assump)), NEW t \in R!Given
  PROVE  /\ R!to_ext_assump(t) \in R!Elements(job.assump)
         /\ Transfer(R!to_ext_assump(t)) = t
<1> DEFINE a == job.assump
           n == Len(a)
           same == {i \in DOMAIN a : Transfer(a[i]) = t}
           from == {n - i : i \in same}
           Latest(i) == Transfer(a[i]) = t /\ \A j \in DOMAIN a : Transfer(a[j]) = t => j <= i
<1>1. DOMAIN a = 1..n /\ n \in Nat
  BY LenProperties
<1>2. same # {} /\ same \subseteq 1..n
  BY <1>1 DEF R!Given, R!Elements
<1>3. from # {} /\ from \subseteq Nat
  <2>1. \A i \in same : n - i \in Nat
    <3> HIDE DEF same
    <3> QED BY <1>1, <1>2
  <2> HIDE DEF same, n
  <2> QED BY <1>2, <2>1
<1>4. PICK d \in from : \A e \in from : d <= e
  <2> HIDE DEF from
  <2> QED BY <1>3, Least
<1>5. PICK i \in same : d = n - i
  OBVIOUS
<1>6. \A j \in same : j <= i
  <2> SUFFICES ASSUME NEW j \in same PROVE j <= i
    OBVIOUS
  <2>1. d <= n - j
    BY <1>4
  <2>2. i \in Nat /\ j \in Nat
    BY <1>1
  <2>3. n \in Nat
    BY <1>1
  <2> HIDE DEF same, n
  <2> QED BY <2>1, <2>2, <2>3, <1>5
<1>7. \E k \in DOMAIN a : Latest(k)
  BY <1>6
<1> DEFINE c == CHOOSE k \in DOMAIN a : Latest(k)
<1>8. c \in DOMAIN a /\ Latest(c)
  <2> HIDE DEF Latest
  <2> QED BY <1>7
<1>9. R!to_ext_assump(t) = a[c]
  BY DEF R!to_ext_assump
<1> HIDE DEF c
<1> QED BY <1>8, <1>9 DEF R!Elements

\* So do all of a sequence of them.
LEMMA ExternalElements ==
  ASSUME job.assump \in Seq(R!Elements(job.assump)), NEW s \in Seq(R!Given)
  PROVE  /\ R!External(s) \in Seq(R!Elements(job.assump))
         /\ {Transfer(a) : a \in R!Elements(R!External(s))} = R!Elements(s)
<1> DEFINE e == R!External(s)
           X == R!Elements(job.assump)
<1>1. DOMAIN s = 1..Len(s) /\ Len(s) \in Nat
  BY LenProperties
<1>2. e = [i \in 1..Len(s) |-> R!to_ext_assump(s[i])]
  BY <1>1 DEF R!External
<1> HIDE DEF e
<1>3. \A i \in 1..Len(s) : s[i] \in R!Given
  BY ElementOfSeq
<1>4. \A i \in 1..Len(s) : R!to_ext_assump(s[i]) \in X /\ Transfer(R!to_ext_assump(s[i])) = s[i]
  <2> HIDE DEF X
  <2> QED BY <1>3, ToExtAssump DEF X
<1>5. e \in [1..Len(s) -> X]
  <2> HIDE DEF X
  <2> QED BY <1>2, <1>4
<1>6. e \in Seq(X)
  <2> HIDE DEF X
  <2> QED BY <1>5, <1>1
<1>7. R!Elements(e) = {R!to_ext_assump(s[i]) : i \in 1..Len(s)}
  BY <1>2 DEF R!Elements
<1>8. {Transfer(a) : a \in R!Elements(e)} = {Transfer(R!to_ext_assump(s[i])) : i \in 1..Len(s)}
  BY <1>7
<1>9. {Transfer(a) : a \in R!Elements(e)} = {s[i] : i \in 1..Len(s)}
  BY <1>4, <1>8
<1> QED BY <1>1, <1>6, <1>9 DEF e, R!Elements

\* More assumptions contradict what fewer do.
LEMMA ContradictMore ==
  ASSUME NEW some, NEW more, some \subseteq more, R!Contradict(some)
  PROVE  R!Contradict(more)
BY DEF R!Contradict

\* With every assumption labelled, a set of labels means those it labels.
LEMMA MeantMarked ==
  ASSUME MarkedAll, NEW ls
  PROVE  R!Meant(ls) = Marked(ls)
<1>1. ASSUME NEW t \in Marked(ls) PROVE t \in R!Meant(ls)
  <2>1. <<labels[t], t>> \in asserted /\ labels[t] \in ls
    BY <1>1 DEF MarkedAll, Marked
  <2>2. <<labels[t], t>> \in {a \in asserted : a[1] \in ls} /\ <<labels[t], t>>[2] = t
    BY <2>1
  <2> QED BY <2>2 DEF R!Meant
<1>2. ASSUME NEW t \in R!Meant(ls) PROVE t \in Marked(ls)
  <2>1. PICK e \in asserted : e[1] \in ls /\ t = e[2]
    BY <1>2 DEF R!Meant
  <2>2. PICK u \in R!Given : e = <<labels[u], u>>
    BY DEF MarkedAll
  <2> QED BY <2>1, <2>2 DEF Marked
<1> QED BY <1>1, <1>2

------------------------------------------------------------------------------
(* UnsatCoreReducer: its steps.                                            *)

\* A sequence is one over any set that its elements are in.
LEMMA SeqOf ==
  ASSUME NEW X, NEW s, NEW n \in Nat, DOMAIN s = 1..n, NEW Y, s \in Seq(Y),
         \A i \in 1..n : s[i] \in X
  PROVE  s \in Seq(X)
<1>1. s \in [1..n -> X]
  <2>1. s \in [1..Len(s) -> Y]
    BY LenProperties
  <2> QED BY <2>1
<1> QED BY <1>1

\* The reducer starts idle, with no labels.
LEMMA CoreInit == R!Init => CoreInv
<1> SUFFICES ASSUME R!Init PROVE CoreInv
  OBVIOUS
<1>1. DOMAIN labels = {} /\ pc = "idle" /\ level = 0 /\ result = "none"
  BY DEF R!Init
<1>2. IsFiniteSet(DOMAIN labels) /\ Injects(labels)
  BY <1>1, FS_EmptySet DEF Injects
<1>3. Reduced
  BY <1>1 DEF Reduced, R!Reduced, R!LinearMinimal
<1> QED BY <1>1, <1>2, <1>3 DEF CoreInv

\* The routines share no state: what another does keeps the invariant.
LEMMA CoreStutter == CoreInv /\ UNCHANGED coreVars => CoreInv'
<1> SUFFICES ASSUME CoreInv, UNCHANGED coreVars PROVE CoreInv'
  OBVIOUS
<1>1. /\ calls' = calls /\ pc' = pc /\ job' = job /\ level' = level /\ asserted' = asserted
      /\ labels' = labels /\ cand_res' = cand_res /\ bool_assump' = bool_assump
      /\ position' = position /\ cur_iter' = cur_iter /\ out_red' = out_red
      /\ out_rem' = out_rem /\ result' = result
  BY DEF coreVars
<1>2. Reduced' = Reduced
  BY <1>1 DEF Reduced, R!Reduced, R!LinearMinimal, R!Least, R!Kept, R!Given, R!Contradict,
     R!Elements
<1>3. RunInv' = RunInv
  <2>1. R!Given' = R!Given /\ Gone' = Gone
    BY <1>1 DEF R!Given, R!Elements, Gone
  <2>2. \A ts : R!Contradict(ts)' = R!Contradict(ts)
    BY <1>1 DEF R!Contradict
  <2>3. MarkedAll' = MarkedAll /\ \A n : Marks(n)' = Marks(n)
    BY <1>1, <2>1 DEF MarkedAll, Marks
  <2>4. \A ls : Marked(ls)' = Marked(ls)
    BY <1>1, <2>1 DEF Marked
  <2>6. LabelInv' = LabelInv
    BY <1>1, <2>1, <2>3 DEF LabelInv, R!Elements
  <2>7. ReduceInv' = ReduceInv
    BY <1>1, <2>1, <2>3 DEF ReduceInv, R!Elements
  <2>8. LinearInv' = LinearInv
    <3>1. Marked(R!Elements(bool_assump))' = Marked(R!Elements(bool_assump))
      BY <1>1, <2>1 DEF Marked, R!Elements
    <3>2. R!Contradict(Marked(R!Elements(bool_assump)))'
            = R!Contradict(Marked(R!Elements(bool_assump)))
      BY <1>1, <3>1 DEF R!Contradict
    <3>3. Needed(position - 1)' = Needed(position - 1)
      BY <1>1, <2>1 DEF Needed, R!Elements, R!Contradict, Marked
    <3> QED BY <1>1, <2>1, <2>3, <3>1, <3>2, <3>3 DEF LinearInv, R!Elements
  <2> QED BY <1>1, <2>1, <2>6, <2>7, <2>8 DEF RunInv, R!Elements
<1> QED BY <1>1, <1>2, <1>3 DEF CoreInv, Injects

\* A call of either method starts with the caller's assumptions as candidates.
LEMMA StartStep ==
  ASSUME UtilitiesAssumption, NEW how \in {"reduce", "linear"}, CoreInv, R!Start(how)
  PROVE  CoreInv'
<1>1. PICK a \in Assumptions, c \in Conflicts, n \in Iterations :
        /\ pc = "idle"
        /\ job' = [assump |-> a, conflicts |-> c, iter |-> n, how |-> how]
        /\ out_red' = <<>> /\ out_rem' = <<>> /\ position' = 1 /\ cur_iter' = 0
        /\ IF {} \in c
           THEN /\ pc' = "idle" /\ result' = "true"
                /\ UNCHANGED <<level, asserted, labels, cand_res, bool_assump>>
           ELSE \E f \in R!Orders(DOMAIN a) :
                LET order == [i \in DOMAIN a |-> Transfer(a[f[i]])] IN
                /\ how = "linear" => order = R!Transferred(a) /\ R!Injective(order)
                /\ pc' = "label" /\ level' = level + 1 /\ result' = "none"
                /\ cand_res' = order /\ bool_assump' = <<>> /\ asserted' = {}
                /\ UNCHANGED labels
  BY DEF R!Start
<1>2. /\ job'.assump = a /\ job'.conflicts = c /\ job'.iter = n /\ job'.how = how
  BY <1>1
<1>3. level = 0 /\ IsFiniteSet(DOMAIN labels) /\ Injects(labels)
  BY <1>1 DEF CoreInv, Reduced, R!Reduced
<1>4. CASE {} \in c
  <2>1. pc' = "idle" /\ result' = "true" /\ level' = level /\ labels' = labels
    BY <1>1, <1>4
  <2>2. R!Elements(out_red') = {} /\ R!Kept' = {}
    BY <1>1 DEF R!Elements, R!Kept
  <2>3. R!Contradict(R!Kept)'
    BY <2>2, <1>2, <1>4 DEF R!Contradict
  <2>4. R!Least'
    BY <2>2 DEF R!Least
  <2>5. R!Reduced'
    BY <2>1, <2>2, <2>3, <1>2, <1>3, <1>4 DEF R!Reduced
  <2>6. Reduced'
    BY <2>4, <2>5 DEF Reduced, R!LinearMinimal
  <2> QED BY <2>1, <2>6, <1>3 DEF CoreInv, Injects
<1>5. CASE {} \notin c
  <2>1. PICK f \in R!Orders(DOMAIN a) :
          /\ pc' = "label" /\ level' = level + 1
          /\ cand_res' = [i \in DOMAIN a |-> Transfer(a[f[i]])]
          /\ bool_assump' = <<>> /\ asserted' = {} /\ labels' = labels
    BY <1>1, <1>5
  <2>2. a \in Seq(R!Elements(a))
    BY DEF UtilitiesAssumption, S!IsSequence, R!Elements
  <2>3. DOMAIN a = 1..Len(a) /\ Len(a) \in Nat
    BY <2>2, LenProperties
  <2>4. f \in [DOMAIN a -> DOMAIN a] /\ \A j \in DOMAIN a : \E i \in DOMAIN a : f[i] = j
    BY DEF R!Orders
  <2>5. R!Given' = {Transfer(a[i]) : i \in DOMAIN a}
    BY <1>2 DEF R!Given, R!Elements
  <2>6. R!Elements(cand_res') = R!Given'
    <3>1. R!Elements(cand_res') = {Transfer(a[f[i]]) : i \in DOMAIN a}
      BY <2>1 DEF R!Elements
    <3> QED BY <3>1, <2>4, <2>5
  <2>7. cand_res' \in Seq(R!Given')
    <3>1. \A i \in 1..Len(a) : Transfer(a[f[i]]) \in R!Given'
      BY <2>3, <2>4, <2>5
    <3>2. cand_res' \in [1..Len(a) -> R!Given']
      BY <2>1, <2>3, <3>1
    <3> QED BY <3>2, <2>3
  <2>8. Len(cand_res') \in Nat
    BY <2>7
  <2>9. Marks(0)'
    BY <2>1 DEF Marks
  <2>10. LabelInv'
    BY <1>1, <1>2, <2>6, <2>8, <2>9 DEF LabelInv
  <2>11. RunInv'
    BY <1>2, <1>3, <1>5, <2>1, <2>2, <2>7, <2>10 DEF RunInv
  <2> QED BY <1>3, <2>1, <2>11 DEF CoreInv, Injects
<1> QED BY <1>4, <1>5

\* The loop that labels them keeps no label twice, and ends with all labelled.
LEMMA LabelStep ==
  ASSUME CoreInv, R!LabelNext PROVE CoreInv'
<1>1. pc = "label" /\ RunInv /\ LabelInv /\ IsFiniteSet(DOMAIN labels) /\ Injects(labels)
  BY DEF R!LabelNext, CoreInv, RunInv
<1>2. PICK upto \in 0..Len(cand_res) : Marks(upto)
  BY <1>1 DEF LabelInv
<1> DEFINE n == Len(cand_res)
           t == cand_res[upto + 1]
<1>3. n \in Nat /\ DOMAIN cand_res = 1..n /\ cand_res \in Seq(R!Given)
  BY <1>1, LenProperties DEF RunInv
<1>4. /\ job' = job /\ level' = level /\ cand_res' = cand_res /\ position' = position
      /\ cur_iter' = cur_iter /\ out_rem' = out_rem
  BY DEF R!LabelNext
<1>5. R!Given' = R!Given /\ R!Elements(cand_res)' = R!Elements(cand_res)
  BY <1>4 DEF R!Given, R!Elements
<1>6. Len(bool_assump) = upto /\ upto \in Nat
  BY <1>2, <1>3 DEF Marks
<1>7. CASE upto + 1 > n
  <2>1. pc' = job.how /\ labels' = labels /\ bool_assump' = bool_assump /\ asserted' = asserted
    BY <1>6, <1>7 DEF R!LabelNext
  <2>2. upto = n
    <3>1. upto <= n
      BY <1>2
    <3> HIDE DEF n
    <3> QED BY <3>1, <1>3, <1>6, <1>7
  <2>3. R!Given = {cand_res[i] : i \in 1..n}
    BY <1>1, <1>3 DEF LabelInv, R!Elements
  <2>4. /\ \A i \in 1..n : cand_res[i] \in DOMAIN labels /\ bool_assump[i] = labels[cand_res[i]]
        /\ asserted = {<<labels[cand_res[i]], cand_res[i]>> : i \in 1..n}
        /\ bool_assump \in Seq({labels[u] : u \in DOMAIN labels})
    BY <1>2, <2>2 DEF Marks
  <2>5. DOMAIN bool_assump = 1..n
    BY <1>6, <2>2, <2>4, LenProperties
  <2>6. R!Elements(bool_assump) = {labels[u] : u \in R!Given}
    BY <2>3, <2>4, <2>5 DEF R!Elements
  <2>7. MarkedAll
    <3>1. R!Given \subseteq DOMAIN labels
      BY <2>3, <2>4
    <3>2. asserted = {<<labels[u], u>> : u \in R!Given}
      BY <2>3, <2>4
    <3>3. \A i \in 1..n : bool_assump[i] \in {labels[u] : u \in R!Given}
      BY <2>3, <2>4
    <3>4. bool_assump \in Seq({labels[u] : u \in R!Given})
      BY <3>3, <2>4, <2>5, <1>3, SeqOf
    <3> QED BY <3>1, <3>2, <3>4 DEF MarkedAll
  <2>8. MarkedAll'
    BY <2>7, <2>1, <1>5 DEF MarkedAll
  <2>9. CASE job.how = "reduce"
    <3>1. Gone' = {} /\ out_rem' = <<>> /\ cur_iter' = 0
      BY <1>1, <1>4 DEF LabelInv, Gone, R!Elements
    <3>3. R!Elements(cand_res)' = R!Given'
      BY <1>1, <1>5 DEF LabelInv
    <3>7. R!Elements(bool_assump)' = {labels[u] : u \in R!Given}
      BY <2>1, <2>6 DEF R!Elements
    <3>2. R!Elements(bool_assump)' = {labels[u] : u \in R!Elements(cand_res)}'
      BY <3>3, <3>7, <2>1, <1>5
    <3>4. out_rem' \in Seq(R!Elements(job.assump)')
      BY <3>1
    <3>5. ReduceInv'
      BY <2>8, <2>9, <3>1, <3>2, <3>3, <3>4, <1>4 DEF ReduceInv
    <3>6. RunInv'
      BY <3>5, <1>1, <1>4, <1>5, <2>1, <2>9 DEF RunInv, R!Elements
    <3> QED BY <3>6, <1>1, <2>1, <2>9 DEF CoreInv, Injects
  <2>10. CASE job.how = "linear"
    <3>1. position' = 1 /\ cur_iter' = 0
      BY <1>1, <1>4 DEF LabelInv
    <3>2. Marked(R!Elements(bool_assump)) = R!Given
      BY <2>6 DEF Marked
    <3>3. Marked(R!Elements(bool_assump))' = R!Given'
      BY <3>2, <1>5, <2>1 DEF Marked, R!Elements
    <3>4. R!Elements(cand_res)' = R!Given'
      BY <1>1, <1>5 DEF LabelInv
    <3>5. Needed(position - 1)'
      <4>1. position' - 1 = 0 /\ 1..0 = {}
        BY <3>1
      <4> QED BY <4>1 DEF Needed
    <3>6. position' \in 1..Len(bool_assump') + 1
      BY <3>1, <2>1, <1>6
    <3>7. LinearInv'
      BY <2>8, <2>10, <3>1, <3>3, <3>4, <3>5, <3>6, <1>4 DEF LinearInv
    <3>8. RunInv'
      BY <3>7, <1>1, <1>4, <1>5, <2>1, <2>10 DEF RunInv, R!Elements
    <3> QED BY <3>8, <1>1, <2>1, <2>10 DEF CoreInv, Injects
  <2> QED BY <2>9, <2>10, <1>1 DEF LabelInv
<1>8. CASE ~(upto + 1 > n)
  <2>1. /\ labels' = R!label(labels, t)
        /\ bool_assump' = Append(bool_assump, labels'[t])
        /\ asserted' = asserted \cup {<<labels'[t], t>>}
        /\ pc' = pc
    BY <1>6, <1>8 DEF R!LabelNext
  <2>2. /\ IsFiniteSet(DOMAIN labels') /\ Injects(labels') /\ t \in DOMAIN labels'
        /\ \A u \in DOMAIN labels : u \in DOMAIN labels' /\ labels'[u] = labels[u]
    BY <2>1, <1>1, LabelProperties
  <2>3. /\ \A i \in 1..upto : /\ cand_res[i] \in DOMAIN labels
                              /\ bool_assump[i] = labels[cand_res[i]]
        /\ asserted = {<<labels[cand_res[i]], cand_res[i]>> : i \in 1..upto}
        /\ bool_assump \in Seq({labels[u] : u \in DOMAIN labels})
    BY <1>2 DEF Marks
  <2>4. upto + 1 \in 0..n /\ upto + 1 \in Nat
    BY <1>3, <1>6, <1>8
  <2>5. DOMAIN bool_assump = 1..upto
    BY <2>3, <1>6, LenProperties
  <2> DEFINE X == {labels'[u] : u \in DOMAIN labels'}
  <2>6. bool_assump \in Seq(X)
    <3>1. \A i \in 1..upto : bool_assump[i] \in X
      BY <2>2, <2>3
    <3> HIDE DEF X
    <3> QED BY <3>1, <2>3, <2>5, <1>6, SeqOf
  <2>7. /\ bool_assump' \in Seq(X) /\ Len(bool_assump') = upto + 1
        /\ \A i \in 1..upto : bool_assump'[i] = bool_assump[i]
        /\ bool_assump'[upto + 1] = labels'[t]
    <3>1. labels'[t] \in X
      BY <2>2
    <3> HIDE DEF X, t
    <3> QED BY <3>1, <2>1, <2>6, <1>6, AppendProperties
  <2>8. \A i \in 1..upto + 1 : i \in 1..upto \/ i = upto + 1
    BY <1>6
  <2>9. \A i \in 1..upto + 1 : cand_res[i] \in DOMAIN labels'
    BY <2>2, <2>3, <2>8
  <2>10. \A i \in 1..upto + 1 : bool_assump'[i] = labels'[cand_res[i]]
    BY <2>2, <2>3, <2>7, <2>8
  <2>11. asserted' = {<<labels'[cand_res[i]], cand_res[i]>> : i \in 1..upto + 1}
    <3>1. asserted = {<<labels'[cand_res[i]], cand_res[i]>> : i \in 1..upto}
      BY <2>2, <2>3
    <3>2. upto + 1 \in 1..upto + 1 /\ 1..upto \subseteq 1..upto + 1
      BY <1>6
    <3> QED BY <3>1, <3>2, <2>1, <2>8
  <2>12. Marks(upto + 1)'
    <3>1. bool_assump' \in Seq({labels'[u] : u \in DOMAIN labels'})
      BY <2>7
    <3> QED BY <2>7, <2>9, <2>10, <2>11, <3>1, <1>4 DEF Marks
  <2>13. \E k \in 0..Len(cand_res') : Marks(k)'
    BY <2>12, <2>4, <1>4
  <2>14. LabelInv'
    BY <2>13, <1>1, <1>4, <1>5 DEF LabelInv
  <2>15. RunInv'
    BY <2>14, <2>1, <1>1, <1>4, <1>5 DEF RunInv, R!Elements
  <2> QED BY <2>15, <2>1, <2>2, <1>1 DEF CoreInv
<1> QED BY <1>7, <1>8

\* A call returns true with a core and what it removed.
LEMMA ReturnTrue ==
  ASSUME level = 1, job.assump \in Seq(R!Elements(job.assump)), NEW kept \in Seq(R!Given),
         R!Finish(kept), job' = job,
         R!Elements(kept) \cup Gone' = R!Given, R!Elements(kept) \cap Gone' = {},
         R!Contradict(R!Elements(kept)),
         job.how = "linear" /\ job.iter = 0 =>
           \A t \in R!Elements(kept) : ~R!Contradict(R!Elements(kept) \ {t})
  PROVE  pc' = "idle" /\ Reduced'
<1>1. pc' = "idle" /\ result' = "true" /\ level' = 0 /\ out_red' = R!External(kept)
  BY DEF R!Finish, R!Return
<1>2. R!Kept' = R!Elements(kept)
  <2>1. {Transfer(a) : a \in R!Elements(R!External(kept))} = R!Elements(kept)
    BY ExternalElements
  <2> QED BY <1>1, <2>1 DEF R!Kept, R!Elements
<1>3. R!Given' = R!Given /\ \A ts : R!Contradict(ts)' = R!Contradict(ts)
  BY DEF R!Given, R!Elements, R!Contradict
<1>4. R!Elements(out_red)' \subseteq R!Elements(job.assump)'
  <2>1. R!External(kept) \in Seq(R!Elements(job.assump))
    BY ExternalElements
  <2>2. R!Elements(R!External(kept)) \subseteq R!Elements(job.assump)
    <3> DEFINE X == R!Elements(job.assump)
               e == R!External(kept)
    <3> HIDE DEF X, e
    <3>1. \A i \in DOMAIN e : e[i] \in X
      BY <2>1 DEF X, e
    <3> QED BY <3>1 DEF R!Elements, X, e
  <2> QED BY <1>1, <2>2 DEF R!Elements
<1>5. R!Contradict(R!Kept)'
  BY <1>2 DEF R!Contradict
<1>6. {Transfer(a) : a \in R!Elements(out_rem')} = Gone'
  BY DEF Gone, R!Elements
<1>7. R!Kept' \cup Gone' = R!Given' /\ R!Kept' \cap Gone' = {}
  BY <1>2, <1>3
<1>8. R!Reduced'
  BY <1>1, <1>4, <1>5, <1>7 DEF R!Reduced, Gone
<1>9. R!LinearMinimal'
  BY <1>2 DEF R!LinearMinimal, R!Least, R!Contradict
<1> QED BY <1>1, <1>8, <1>9 DEF Reduced

\* A call returns false for assumptions that do not contradict the formula.
LEMMA ReturnFalse ==
  ASSUME level = 1, R!Return("false"), job' = job, ~R!Contradict(R!Given)
  PROVE  pc' = "idle" /\ Reduced'
<1>1. pc' = "idle" /\ result' = "false" /\ level' = 0
  BY DEF R!Return
<1>2. ~R!Contradict(R!Given)'
  BY DEF R!Given, R!Elements, R!Contradict
<1> QED BY <1>1, <1>2 DEF Reduced, R!Reduced, R!LinearMinimal

\* The elements of a concatenation.
LEMMA ElementsConcat ==
  ASSUME NEW X, NEW s \in Seq(X), NEW u \in Seq(X)
  PROVE  s \o u \in Seq(X) /\ R!Elements(s \o u) = R!Elements(s) \cup R!Elements(u)
<1> DEFINE m == Len(s)
           n == Len(u)
           w == s \o u
<1>1. m \in Nat /\ n \in Nat /\ DOMAIN s = 1..m /\ DOMAIN u = 1..n
  BY LenProperties
<1>2. /\ w \in Seq(X) /\ Len(w) = m + n
      /\ \A i \in 1..m + n : w[i] = IF i <= m THEN s[i] ELSE u[i - m]
  BY ConcatProperties
<1>3. DOMAIN w = 1..m + n
  BY <1>2, LenProperties
<1> HIDE DEF m, n, w
<1>4. \A i \in 1..m : i \in 1..m + n /\ w[i] = s[i]
  BY <1>1, <1>2
<1>5. \A i \in 1..n : i + m \in 1..m + n /\ w[i + m] = u[i]
  BY <1>1, <1>2
<1>6. \A i \in 1..m + n : i \in 1..m \/ \E j \in 1..n : i = j + m
  <2> SUFFICES ASSUME NEW i \in 1..m + n, i \notin 1..m PROVE \E j \in 1..n : i = j + m
    OBVIOUS
  <2>1. i - m \in 1..n /\ i = (i - m) + m
    BY <1>1
  <2> QED BY <2>1
<1>7. R!Elements(w) = R!Elements(s) \cup R!Elements(u)
  <2>1. ASSUME NEW x \in R!Elements(w) PROVE x \in R!Elements(s) \cup R!Elements(u)
    <3>1. PICK i \in 1..m + n : x = w[i]
      BY <1>3 DEF R!Elements
    <3>2. CASE i \in 1..m
      BY <3>1, <3>2, <1>1, <1>4 DEF R!Elements
    <3>3. CASE i \notin 1..m
      <4>1. PICK j \in 1..n : i = j + m
        BY <3>3, <1>6
      <4>2. x = u[j]
        BY <3>1, <4>1, <1>5
      <4> QED BY <4>2, <1>1 DEF R!Elements
    <3> QED BY <3>2, <3>3
  <2>2. R!Elements(s) \subseteq R!Elements(w)
    BY <1>1, <1>3, <1>4 DEF R!Elements
  <2>3. R!Elements(u) \subseteq R!Elements(w)
    <3>1. ASSUME NEW j \in 1..n PROVE u[j] \in R!Elements(w)
      BY <1>3, <1>5 DEF R!Elements
    <3> QED BY <3>1, <1>1 DEF R!Elements
  <2> QED BY <2>1, <2>2, <2>3
<1> QED BY <1>2, <1>7 DEF w

\* A round of reduce_assump_unsatcore loses no candidate and keeps a conflict.
LEMMA ReduceStep ==
  ASSUME CoreInv, R!ReduceRound PROVE CoreInv'
<1>1. /\ pc = "reduce" /\ RunInv /\ ReduceInv /\ MarkedAll
      /\ IsFiniteSet(DOMAIN labels) /\ Injects(labels)
      /\ level = 1 /\ {} \notin job.conflicts /\ job.how = "reduce"
      /\ job.assump \in Seq(R!Elements(job.assump)) /\ cand_res \in Seq(R!Given)
  BY DEF R!ReduceRound, CoreInv, RunInv, ReduceInv
<1>2. job' = job /\ labels' = labels /\ cur_iter' = cur_iter + 1 /\ cur_iter \in Nat
  BY <1>1 DEF R!ReduceRound, ReduceInv
<1>3. R!Given' = R!Given
  BY <1>2 DEF R!Given, R!Elements
<1> DEFINE C == R!Elements(cand_res)
<1>4. C \subseteq R!Given /\ R!Given \subseteq DOMAIN labels
  BY <1>1 DEF ReduceInv, MarkedAll
<1>5. Marked(R!Elements(bool_assump)) = C
  <2>1. R!Elements(bool_assump) = {labels[t] : t \in C}
    BY <1>1 DEF ReduceInv
  <2> HIDE DEF C
  <2> QED BY <2>1, <1>1, <1>4 DEF Marked, Injects
<1>6. CASE cur_iter = 0 /\ ~R!Unsat(R!Elements(bool_assump)) /\ R!Return("false")
  <2>1. ~R!Contradict(C)
    BY <1>1, <1>5, <1>6, MeantMarked DEF R!Unsat
  <2>2. C = R!Given
    BY <1>1, <1>6 DEF ReduceInv
  <2>3. ~R!Contradict(R!Given)
    BY <2>1, <2>2
  <2>4. pc' = "idle" /\ Reduced'
    BY <1>1, <1>2, <1>6, <2>3, ReturnFalse
  <2> QED BY <2>4, <1>1, <1>2 DEF CoreInv, Injects
<1>7. ASSUME NEW core \in R!Cores(R!Elements(bool_assump)),
             LET in == {t \in R!Elements(cand_res) : labels[t] \in core}
                 local == R!Filter(cand_res, in)
                 gone == R!Filter(cand_res, R!Elements(cand_res) \ in)
                 stop == gone = <<>> \/ (job.iter # 0 /\ cur_iter' >= job.iter)
             IN /\ out_rem' = out_rem \o R!External(gone)
                /\ cand_res' = local
                /\ bool_assump' = [i \in DOMAIN local |-> labels[local[i]]]
                /\ IF stop THEN R!Finish(local)
                   ELSE UNCHANGED <<pc, result, level, asserted, out_red>>
      PROVE CoreInv'
  <2> DEFINE in == {t \in C : labels[t] \in core}
             local == R!Filter(cand_res, in)
             gone == R!Filter(cand_res, C \ in)
  <2>1. /\ out_rem' = out_rem \o R!External(gone)
        /\ cand_res' = local
        /\ bool_assump' = [i \in DOMAIN local |-> labels[local[i]]]
        /\ R!Finish(local) \/ UNCHANGED <<pc, result, level, asserted, out_red>>
    BY <1>7
  <2>2. /\ local \in Seq(R!Given) /\ R!Elements(local) = in
        /\ gone \in Seq(R!Given) /\ R!Elements(gone) = C \ in
    <3>1. local \in Seq(R!Given) /\ R!Elements(local) = C \cap in
      <4> HIDE DEF in
      <4> QED BY <1>1, FilterProperties
    <3>2. gone \in Seq(R!Given) /\ R!Elements(gone) = C \cap (C \ in)
      <4> HIDE DEF in
      <4> QED BY <1>1, FilterProperties
    <3> HIDE DEF local, gone, C
    <3> QED BY <3>1, <3>2
  <2>3. R!Contradict(in)
    <3>1. core \in SUBSET R!Elements(bool_assump) /\ R!Contradict(Marked(core))
      BY <1>1, MeantMarked DEF R!Cores, R!Unsat
    <3>2. Marked(core) \subseteq Marked(R!Elements(bool_assump))
      BY <3>1 DEF Marked
    <3>3. Marked(core) = in
      <4> HIDE DEF C
      <4> QED BY <3>2, <1>4, <1>5 DEF Marked
    <3> QED BY <3>1, <3>3
  <2> HIDE DEF in, local, gone
  <2>4. in \subseteq C
    BY DEF in
  <2>5. /\ out_rem' \in Seq(R!Elements(job.assump))
        /\ Gone' = Gone \cup (C \ in)
    <3> DEFINE X == R!Elements(job.assump)
               e == R!External(gone)
    <3>1. e \in Seq(X) /\ {Transfer(a) : a \in R!Elements(e)} = C \ in
      BY <1>1, <2>2, ExternalElements
    <3>2. out_rem \in Seq(X)
      BY <1>1 DEF ReduceInv
    <3>3. out_rem' = out_rem \o e
      BY <2>1
    <3> HIDE DEF X, e
    <3>4. out_rem' \in Seq(X) /\ R!Elements(out_rem') = R!Elements(out_rem) \cup R!Elements(e)
      BY <3>1, <3>2, <3>3, ElementsConcat
    <3>5. Gone' = {Transfer(a) : a \in R!Elements(out_rem')}
      BY DEF Gone, R!Elements
    <3>6. Gone' = Gone \cup {Transfer(a) : a \in R!Elements(e)}
      BY <3>4, <3>5 DEF Gone
    <3> QED BY <3>1, <3>4, <3>6 DEF X
  <2>6. in \cup Gone' = R!Given /\ in \cap Gone' = {}
    <3>1. C \cup Gone = R!Given /\ C \cap Gone = {}
      BY <1>1 DEF ReduceInv
    <3> HIDE DEF C
    <3> QED BY <2>4, <2>5, <3>1
  <2>7. CASE R!Finish(local)
    <3>1. job.how # "linear"
      BY <1>1
    <3>2. pc' = "idle" /\ Reduced'
      BY <1>1, <1>2, <2>2, <2>3, <2>6, <2>7, <3>1, ReturnTrue
    <3> QED BY <3>2, <1>1, <1>2 DEF CoreInv, Injects
  <2>8. CASE UNCHANGED <<pc, result, level, asserted, out_red>>
    <3>1. R!Elements(cand_res)' = in
      BY <2>1, <2>2 DEF R!Elements
    <3>2. DOMAIN bool_assump' = DOMAIN local /\ \A i \in DOMAIN local : bool_assump'[i] = labels[local[i]]
      BY <2>1
    <3>3. R!Elements(bool_assump)' = {labels[t] : t \in in}
      <4>1. R!Elements(bool_assump') = {labels[local[i]] : i \in DOMAIN local}
        BY <3>2 DEF R!Elements
      <4>2. R!Elements(local) = in
        BY <2>2
      <4>3. R!Elements(bool_assump)' = R!Elements(bool_assump')
        BY DEF R!Elements
      <4> QED BY <4>1, <4>2, <4>3 DEF R!Elements
    <3>4. R!Elements(bool_assump)' = {labels[t] : t \in R!Elements(cand_res)}'
      BY <3>1, <3>3, <1>2
    <3>5. MarkedAll'
      <4>1. DOMAIN local = 1..Len(local) /\ Len(local) \in Nat
        BY <2>2, LenProperties
      <4>2. \A i \in 1..Len(local) : labels[local[i]] \in {labels[t] : t \in R!Given}
        BY <2>2, ElementOfSeq
      <4>3. bool_assump' \in [1..Len(local) -> {labels[t] : t \in R!Given}]
        BY <2>1, <4>1, <4>2
      <4>4. bool_assump' \in Seq({labels[t] : t \in R!Given})
        BY <4>1, <4>3
      <4> QED BY <4>4, <1>1, <1>2, <1>3, <2>8 DEF MarkedAll
    <3>6. cur_iter' \in Nat /\ cur_iter' # 0
      BY <1>2
    <3>7. R!Elements(job.assump)' = R!Elements(job.assump)
      BY <1>2 DEF R!Elements
    <3>8. ReduceInv'
      BY <1>1, <1>2, <1>3, <2>5, <2>6, <3>1, <3>4, <3>5, <3>6, <3>7 DEF ReduceInv
    <3>9. RunInv'
      BY <1>1, <1>2, <1>3, <2>1, <2>2, <2>8, <3>7, <3>8 DEF RunInv
    <3> QED BY <1>1, <1>2, <2>8, <3>9 DEF CoreInv, Injects
  <2> QED BY <2>1, <2>7, <2>8
<1> QED BY <1>6, <1>7 DEF R!ReduceRound

\* What is known while the linear method runs.
LEMMA LinearFacts ==
  ASSUME CoreInv, pc = "linear"
  PROVE  /\ RunInv /\ LinearInv /\ MarkedAll
         /\ IsFiniteSet(DOMAIN labels) /\ Injects(labels)
         /\ level = 1 /\ {} \notin job.conflicts /\ job.how = "linear"
         /\ job.assump \in Seq(R!Elements(job.assump)) /\ cand_res \in Seq(R!Given)
         /\ R!Given \subseteq DOMAIN labels /\ R!Elements(cand_res) = R!Given
         /\ bool_assump \in Seq({labels[t] : t \in R!Given})
         /\ DOMAIN bool_assump = 1..Len(bool_assump) /\ Len(bool_assump) \in Nat
         /\ R!Elements(bool_assump) \subseteq {labels[t] : t \in R!Given}
         /\ position \in Nat /\ position >= 1 /\ position <= Len(bool_assump) + 1
         /\ Needed(position - 1)
         /\ R!Unsat(R!Elements(bool_assump)) = R!Contradict(Marked(R!Elements(bool_assump)))
<1>1. /\ RunInv /\ LinearInv /\ MarkedAll
      /\ IsFiniteSet(DOMAIN labels) /\ Injects(labels)
      /\ level = 1 /\ {} \notin job.conflicts /\ job.how = "linear"
      /\ job.assump \in Seq(R!Elements(job.assump)) /\ cand_res \in Seq(R!Given)
  BY DEF CoreInv, RunInv, LinearInv
<1>2. R!Given \subseteq DOMAIN labels /\ R!Elements(cand_res) = R!Given
  BY <1>1 DEF LinearInv, MarkedAll
<1> DEFINE X == {labels[t] : t \in R!Given}
<1>3. bool_assump \in Seq(X)
  BY <1>1 DEF MarkedAll
<1> HIDE DEF X
<1>4. DOMAIN bool_assump = 1..Len(bool_assump) /\ Len(bool_assump) \in Nat
  BY <1>3, LenProperties
<1>5. R!Elements(bool_assump) \subseteq X
  <2>1. \A i \in 1..Len(bool_assump) : bool_assump[i] \in X
    BY <1>3, ElementOfSeq
  <2> QED BY <1>4, <2>1 DEF R!Elements
<1>6. position \in Nat /\ position >= 1 /\ position <= Len(bool_assump) + 1
      /\ Needed(position - 1)
  BY <1>1, <1>4 DEF LinearInv
<1>7. R!Unsat(R!Elements(bool_assump)) = R!Contradict(Marked(R!Elements(bool_assump)))
  BY <1>1, MeantMarked DEF R!Unsat
<1> QED BY <1>1, <1>2, <1>3, <1>4, <1>5, <1>6, <1>7 DEF X

\* A round of linear_reduce_assump_unsatcore: what it passes over is needed,
\* and stays so, since a core of fewer assumptions has less to spare.
LEMMA LinearStep ==
  ASSUME CoreInv, R!LinearRound PROVE CoreInv'
<1>1. pc = "linear"
  BY DEF R!LinearRound
<1>2. /\ job' = job /\ labels' = labels /\ pc' = pc /\ level' = level /\ asserted' = asserted
      /\ cand_res' = cand_res /\ out_rem' = out_rem
      /\ cur_iter' = IF job.iter > 0 THEN cur_iter + 1 ELSE cur_iter
  BY DEF R!LinearRound
<1>3. R!Given' = R!Given /\ \A ts : R!Contradict(ts)' = R!Contradict(ts)
  BY <1>2 DEF R!Given, R!Elements, R!Contradict
<1> DEFINE n == Len(bool_assump)
           E == R!Elements(bool_assump)
           query_ == {bool_assump[i] : i \in DOMAIN bool_assump \ {position}}
<1>4. /\ LinearInv /\ RunInv /\ MarkedAll /\ IsFiniteSet(DOMAIN labels) /\ Injects(labels)
      /\ R!Given \subseteq DOMAIN labels
      /\ bool_assump \in Seq({labels[t] : t \in R!Given})
      /\ DOMAIN bool_assump = 1..n /\ n \in Nat
      /\ E \subseteq {labels[t] : t \in R!Given}
      /\ position \in Nat /\ position >= 1
  BY <1>1, LinearFacts
<1>5. position <= n /\ R!Unsat(E)
  BY DEF R!LinearRound, R!linear_goes_on
<1>6. R!Contradict(Marked(E))
  BY <1>1, <1>5, LinearFacts
<1>7. Needed(position - 1)
  BY <1>1, LinearFacts
<1>8. job.iter = 0 => cur_iter' = 0
  <2> SUFFICES ASSUME job.iter = 0 PROVE cur_iter' = 0
    OBVIOUS
  <2>1. cur_iter = 0
    BY <1>4 DEF LinearInv
  <2> QED BY <1>2, <2>1
<1>9. query_ \subseteq E /\ E \subseteq query_ \cup {bool_assump[position]}
  BY DEF R!Elements
<1>10. CASE ~R!Unsat(query_) /\ position' = position + 1 /\ bool_assump' = bool_assump
  <2>1. bool_assump[position] \notin query_
    <3> SUFFICES ASSUME bool_assump[position] \in query_ PROVE FALSE
      OBVIOUS
    <3>1. query_ = E
      <4> HIDE DEF query_, E
      <4> QED BY <1>9
    <3> QED BY <3>1, <1>5, <1>10
  <2>2. ~R!Contradict(Marked(query_))
    BY <1>4, <1>10, MeantMarked DEF R!Unsat
  <2>3. ASSUME NEW t \in R!Given, bool_assump[position] = labels[t]
        PROVE  ~R!Contradict(Marked(E) \ {t})
    <3>1. Marked(E) \ {t} \subseteq Marked(query_)
      <4> HIDE DEF query_, E
      <4> QED BY <1>4, <1>9, <2>3 DEF Marked, Injects
    <3> HIDE DEF query_, E
    <3> QED BY <2>2, <3>1, ContradictMore
  <2>4. Needed(position)
    <3> SUFFICES ASSUME NEW i \in 1..position, NEW t \in R!Given, bool_assump[i] = labels[t]
                 PROVE  ~R!Contradict(Marked(E) \ {t})
      BY DEF Needed
    <3>1. CASE i = position
      BY <3>1, <2>3
    <3>2. CASE i # position
      <4>1. i \in 1..position - 1
        BY <3>2, <1>4
      <4> QED BY <4>1, <1>7 DEF Needed
    <3> QED BY <3>1, <3>2
  <2>5. E' = E /\ Marked(E)' = Marked(E)
    BY <1>2, <1>3, <1>10 DEF R!Elements, Marked
  <2>6. Needed(position - 1)'
    <3>1. position' - 1 = position
      BY <1>4, <1>10
    <3>3. \A i \in 1..position, t \in R!Given' :
            bool_assump'[i] = labels'[t] => ~R!Contradict(Marked(E) \ {t})'
      BY <2>4, <1>2, <1>3, <1>10, <2>5 DEF Needed, R!Contradict
    <3> QED BY <3>1, <3>3 DEF Needed
  <2>7. R!Contradict(Marked(E))'
    BY <2>5, <1>6, <1>2 DEF R!Contradict
  <2>8. position' \in 1..Len(bool_assump') + 1
    BY <1>4, <1>5, <1>10
  <2>9. MarkedAll'
    BY <1>2, <1>3, <1>4, <1>10 DEF MarkedAll
  <2>10. LinearInv'
    BY <1>2, <1>3, <1>4, <1>8, <2>6, <2>7, <2>8, <2>9 DEF LinearInv, R!Elements
  <2>11. RunInv'
    BY <1>1, <1>2, <1>3, <1>4, <2>10 DEF RunInv, R!Elements
  <2> QED BY <1>1, <1>2, <1>4, <2>11 DEF CoreInv, Injects
<1>11. ASSUME NEW core \in R!Cores(query_), bool_assump' = R!Filter(bool_assump, core),
              position' = position
       PROVE  CoreInv'
  <2> DEFINE b == R!Filter(bool_assump, core)
             X == {labels[t] : t \in R!Given}
  <2>1. core \subseteq query_ /\ R!Contradict(Marked(core))
    BY <1>4, MeantMarked DEF R!Cores, R!Unsat
  <2>2. core \subseteq E
    <3> HIDE DEF query_, E
    <3> QED BY <2>1, <1>9
  <2>3. /\ b \in Seq(X) /\ R!Elements(b) = E \cap core
        /\ \A p \in 0..n : (\A i \in 1..p : bool_assump[i] \in core) =>
             Len(b) >= p /\ \A i \in 1..p : b[i] = bool_assump[i]
    <3>1. bool_assump \in Seq(X)
      BY <1>4
    <3> HIDE DEF X
    <3> QED BY <3>1, FilterProperties
  <2>4. R!Elements(b) = core
    <3> HIDE DEF E, b
    <3> QED BY <2>2, <2>3
  <2>5. ASSUME NEW i \in 1..position - 1 PROVE bool_assump[i] \in core
    <3> SUFFICES ASSUME bool_assump[i] \notin core PROVE FALSE
      OBVIOUS
    <3>1. i \in 1..n
      BY <1>4, <1>5
    <3>2. bool_assump[i] \in E
      BY <1>4, <3>1 DEF R!Elements
    <3>3. PICK t \in R!Given : bool_assump[i] = labels[t]
      BY <1>4, <3>2
    <3>4. ~R!Contradict(Marked(E) \ {t})
      BY <1>7, <3>3 DEF Needed
    <3>5. Marked(core) \subseteq Marked(E) \ {t}
      <4> HIDE DEF E
      <4> QED BY <2>2, <3>3 DEF Marked
    <3> HIDE DEF E
    <3> QED BY <2>1, <3>4, <3>5, ContradictMore
  <2>6. Len(b) >= position - 1 /\ \A i \in 1..position - 1 : b[i] = bool_assump[i]
    <3>1. position - 1 \in 0..n
      BY <1>4, <1>5
    <3> HIDE DEF b, n
    <3> QED BY <3>1, <2>3, <2>5
  <2>7. bool_assump' = b /\ R!Elements(bool_assump)' = core
    <3>1. bool_assump' = b
      BY <1>11
    <3> HIDE DEF b
    <3> QED BY <3>1, <2>4 DEF R!Elements
  <2> HIDE DEF b
  <2>8. Marked(R!Elements(bool_assump))' = Marked(core)
    BY <2>7, <1>2, <1>3 DEF Marked
  <2>9. R!Contradict(Marked(R!Elements(bool_assump)))'
    BY <2>1, <2>8, <1>2 DEF R!Contradict
  <2>10. Needed(position - 1)'
    <3>1. ASSUME NEW i \in 1..position - 1, NEW t \in R!Given, b[i] = labels[t]
          PROVE  ~R!Contradict(Marked(core) \ {t})
      <4>1. ~R!Contradict(Marked(E) \ {t})
        BY <3>1, <2>6, <1>7 DEF Needed
      <4>2. Marked(core) \ {t} \subseteq Marked(E) \ {t}
        <5> HIDE DEF E
        <5> QED BY <2>2 DEF Marked
      <4> HIDE DEF E
      <4> QED BY <4>1, <4>2, ContradictMore
    <3>2. \A i \in 1..position' - 1, t \in R!Given' :
            bool_assump'[i] = labels'[t] => ~\E c \in job'.conflicts : c \subseteq Marked(core) \ {t}
      BY <3>1, <2>7, <1>2, <1>3, <1>11 DEF R!Contradict
    <3>3. \A i \in 1..position' - 1, t \in R!Given' :
            bool_assump'[i] = labels'[t] =>
              ~\E c \in job'.conflicts : c \subseteq Marked(R!Elements(bool_assump))' \ {t}
      BY <3>2, <2>8
    <3> QED BY <3>3 DEF Needed, R!Contradict
  <2>11. position' \in 1..Len(bool_assump') + 1
    <3>1. Len(b) \in Nat
      BY <2>3
    <3> QED BY <3>1, <2>6, <2>7, <1>4, <1>11
  <2>12. MarkedAll'
    BY <1>2, <1>3, <1>4, <2>3, <2>7 DEF MarkedAll
  <2>13. R!Elements(cand_res)' = R!Given'
    BY <1>2, <1>3, <1>4 DEF LinearInv, R!Elements
  <2>14. LinearInv'
    BY <1>2, <1>4, <1>8, <2>9, <2>10, <2>11, <2>12, <2>13 DEF LinearInv
  <2>15. RunInv'
    BY <1>1, <1>2, <1>3, <1>4, <2>14 DEF RunInv, R!Elements
  <2> QED BY <1>1, <1>2, <1>4, <2>15 DEF CoreInv, Injects
<1> QED BY <1>10, <1>11 DEF R!LinearRound

\* Its end: everything left is needed, unless the limit ended it.
LEMMA LinearEndStep ==
  ASSUME CoreInv, R!LinearEnd PROVE CoreInv'
<1>1. pc = "linear" /\ job' = job /\ labels' = labels
  BY DEF R!LinearEnd
<1> DEFINE E == R!Elements(bool_assump)
           n == Len(bool_assump)
<1>2. /\ LinearInv /\ MarkedAll /\ IsFiniteSet(DOMAIN labels) /\ Injects(labels)
      /\ level = 1 /\ {} \notin job.conflicts /\ job.how = "linear"
      /\ job.assump \in Seq(R!Elements(job.assump)) /\ cand_res \in Seq(R!Given)
      /\ R!Given \subseteq DOMAIN labels /\ R!Elements(cand_res) = R!Given
      /\ DOMAIN bool_assump = 1..n /\ n \in Nat
      /\ E \subseteq {labels[t] : t \in R!Given}
      /\ position \in Nat /\ position >= 1 /\ position <= n + 1
      /\ Needed(position - 1)
      /\ R!Unsat(E) = R!Contradict(Marked(E))
  BY <1>1, LinearFacts
<1>3. CASE ~R!Unsat(E)
  <2>1. R!Return("false")
    BY <1>3 DEF R!LinearEnd
  <2>2. Marked(E) = R!Given
    BY <1>2, <1>3 DEF LinearInv
  <2>3. ~R!Contradict(R!Given)
    BY <1>2, <1>3, <2>2
  <2>4. pc' = "idle" /\ Reduced'
    BY <1>1, <1>2, <2>1, <2>3, ReturnFalse
  <2> QED BY <2>4, <1>1, <1>2 DEF CoreInv, Injects
<1>4. CASE R!Unsat(E)
  <2> DEFINE kept == [i \in DOMAIN bool_assump |-> R!term_of(bool_assump[i])]
             out == {t \in R!Elements(cand_res) : labels[t] \notin E}
             gone == R!Filter(cand_res, out)
  <2>1. ~R!linear_goes_on /\ R!Finish(kept) /\ out_rem' = R!External(gone)
    BY <1>4 DEF R!LinearEnd, R!LinearDone
  <2>2. ASSUME NEW i \in 1..n
        PROVE  R!term_of(bool_assump[i]) \in R!Given
               /\ labels[R!term_of(bool_assump[i])] = bool_assump[i]
    <3>1. bool_assump[i] \in E
      BY <1>2 DEF R!Elements
    <3>2. \E t \in R!Elements(cand_res) : labels[t] = bool_assump[i]
      BY <3>1, <1>2
    <3> QED BY <3>2, <1>2 DEF R!term_of
  <2>3. kept \in Seq(R!Given)
    <3>1. kept \in [1..n -> R!Given]
      BY <1>2, <2>2
    <3> HIDE DEF kept
    <3> QED BY <3>1, <1>2
  <2>4. R!Elements(kept) = Marked(E)
    <3>1. R!Elements(kept) = {R!term_of(bool_assump[i]) : i \in 1..n}
      BY <1>2 DEF R!Elements
    <3>2. ASSUME NEW t \in Marked(E) PROVE \E i \in 1..n : t = R!term_of(bool_assump[i])
      <4>1. t \in R!Given /\ labels[t] \in E
        BY <3>2 DEF Marked
      <4>2. PICK i \in 1..n : labels[t] = bool_assump[i]
        BY <4>1, <1>2 DEF R!Elements
      <4>3. t = R!term_of(bool_assump[i])
        BY <4>1, <4>2, <2>2, <1>2 DEF Injects
      <4> QED BY <4>3
    <3>3. \A i \in 1..n : bool_assump[i] \in E
      BY <1>2 DEF R!Elements
    <3>4. \A i \in 1..n : R!term_of(bool_assump[i]) \in Marked(E)
      BY <2>2, <3>3 DEF Marked
    <3> HIDE DEF kept
    <3> QED BY <3>1, <3>2, <3>4
  <2>5. gone \in Seq(R!Given) /\ R!Elements(gone) = R!Given \ Marked(E)
    <3>1. gone \in Seq(R!Given) /\ R!Elements(gone) = R!Given \cap out
      <4> HIDE DEF out
      <4> QED BY <1>2, FilterProperties
    <3>2. R!Given \cap out = R!Given \ Marked(E)
      BY <1>2 DEF Marked
    <3> QED BY <3>1, <3>2
  <2> HIDE DEF kept, gone
  <2>6. Gone' = R!Given \ Marked(E)
    <3>1. {Transfer(a) : a \in R!Elements(R!External(gone))} = R!Elements(gone)
      BY <1>2, <2>5, ExternalElements
    <3> QED BY <3>1, <2>1, <2>5 DEF Gone, R!Elements
  <2>7. Marked(E) \subseteq R!Given
    BY DEF Marked
  <2>8. R!Elements(kept) \cup Gone' = R!Given /\ R!Elements(kept) \cap Gone' = {}
    BY <2>4, <2>6, <2>7
  <2>9. R!Contradict(R!Elements(kept))
    BY <1>2, <1>4, <2>4
  <2>10. ASSUME job.iter = 0, NEW t \in R!Elements(kept)
         PROVE  ~R!Contradict(R!Elements(kept) \ {t})
    <3>1. cur_iter = 0
      BY <1>2, <2>10 DEF LinearInv
    <3>2. position = n + 1
      <4> HIDE DEF n
      <4>1. ~(position <= n)
        BY <2>1, <2>10, <3>1 DEF R!linear_goes_on, n
      <4> QED BY <4>1, <1>2
    <3>3. PICK i \in 1..n : bool_assump[i] = labels[t] /\ t \in R!Given
      BY <2>4, <2>10, <1>2 DEF Marked, R!Elements
    <3>4. i \in 1..position - 1
      BY <3>2, <3>3, <1>2
    <3>5. ~R!Contradict(Marked(E) \ {t})
      BY <1>2, <3>3, <3>4 DEF Needed
    <3> QED BY <3>5, <2>4
  <2>11. pc' = "idle" /\ Reduced'
    BY <1>1, <1>2, <2>1, <2>3, <2>8, <2>9, <2>10, ReturnTrue
  <2> QED BY <2>11, <1>1, <1>2 DEF CoreInv, Injects
<1> QED BY <1>3, <1>4

\* What holds between calls is what a caller is promised.
LEMMA CoreInvImplies == CoreInv => Reduced
<1> SUFFICES ASSUME CoreInv PROVE Reduced
  OBVIOUS
<1>1. CASE pc = "idle"
  BY <1>1 DEF CoreInv
<1>2. CASE pc # "idle"
  BY <1>2 DEF Reduced, R!Reduced, R!LinearMinimal
<1> QED BY <1>1, <1>2

\* Every step of the reducer keeps the invariant.
LEMMA CoreStep == UtilitiesAssumption /\ CoreInv /\ [R!Next]_coreVars => CoreInv'
<1> SUFFICES ASSUME UtilitiesAssumption, CoreInv, [R!Next]_coreVars PROVE CoreInv'
  OBVIOUS
<1>1. CASE R!reduce_assump_unsatcore
  BY <1>1, StartStep DEF R!reduce_assump_unsatcore
<1>2. CASE R!linear_reduce_assump_unsatcore
  BY <1>2, StartStep DEF R!linear_reduce_assump_unsatcore
<1>3. CASE R!LabelNext
  BY <1>3, LabelStep
<1>4. CASE R!ReduceRound
  BY <1>4, ReduceStep
<1>5. CASE R!LinearRound
  BY <1>5, LinearStep
<1>6. CASE R!LinearEnd
  BY <1>6, LinearEndStep
<1>7. CASE UNCHANGED coreVars
  BY <1>7, CoreStutter
<1> QED BY <1>1, <1>2, <1>3, <1>4, <1>5, <1>6, <1>7 DEF R!Next, R!Works

------------------------------------------------------------------------------
(* SortingNetwork: lists whose true wires come first.                      *)

\* n wires of which the first k carry true.
Sorted(n, k) == [i \in 1..n |-> i <= k]

\* Its length and its wires.
LEMMA SortedProperties ==
  ASSUME NEW n \in Nat, NEW k \in Nat
  PROVE  /\ Sorted(n, k) \in N!Wires /\ Len(Sorted(n, k)) = n
         /\ DOMAIN Sorted(n, k) = 1..n
         /\ \A i \in 1..n : Sorted(n, k)[i] = (i <= k)
<1>1. \A i \in 1..n : (i <= k) \in BOOLEAN
  OBVIOUS
<1>2. Sorted(n, k) \in [1..n -> BOOLEAN]
  BY <1>1 DEF Sorted
<1>3. Sorted(n, k) \in Seq(BOOLEAN)
  BY <1>2
<1>4. DOMAIN Sorted(n, k) = 1..n
  BY DEF Sorted
<1>5. Len(Sorted(n, k)) = n
  BY <1>3, <1>4, LenProperties
<1>6. \A i \in 1..n : Sorted(n, k)[i] = (i <= k)
  BY DEF Sorted
<1> QED BY <1>3, <1>4, <1>5, <1>6 DEF N!Wires

\* It is the only one with them.
LEMMA IsSorted ==
  ASSUME NEW n \in Nat, NEW k \in Nat, NEW f, f = [i \in 1..n |-> f[i]],
         \A i \in 1..n : f[i] = (i <= k)
  PROVE  f = Sorted(n, k)
<1>1. f = [i \in 1..n |-> i <= k]
  <2> DEFINE g == [i \in 1..n |-> i <= k]
  <2>1. DOMAIN g = 1..n /\ DOMAIN f = 1..n
    OBVIOUS
  <2>2. \A i \in 1..n : f[i] = g[i]
    OBVIOUS
  <2> QED OBVIOUS
<1> QED BY <1>1 DEF Sorted

\* Every other wire of a sorted list, from the first, is a sorted list ...
LEMMA OddSorted ==
  ASSUME NEW n \in Nat, NEW k \in Nat, k <= n
  PROVE  N!Odd(Sorted(n, k)) = Sorted((n + 1) \div 2, (k + 1) \div 2)
<1> DEFINE s == Sorted(n, k)
           m == (n + 1) \div 2
           o == N!Odd(s)
<1>1. m \in Nat /\ (k + 1) \div 2 \in Nat
  OBVIOUS
<1>2. o = [i \in 1..m |-> s[2 * i - 1]]
  BY SortedProperties DEF N!Odd
<1>3. ASSUME NEW i \in 1..m PROVE o[i] = (i <= (k + 1) \div 2)
  <2>1. 2 * i - 1 \in 1..n
    OBVIOUS
  <2>2. o[i] = s[2 * i - 1]
    BY <1>2
  <2>3. s[2 * i - 1] = (2 * i - 1 <= k)
    BY <2>1, SortedProperties
  <2>4. (2 * i - 1 <= k) = (i <= (k + 1) \div 2)
    OBVIOUS
  <2> HIDE DEF o, s, m
  <2> QED BY <2>2, <2>3, <2>4
<1>4. o = [i \in 1..m |-> o[i]]
  BY <1>2
<1> HIDE DEF o, m
<1>5. o = Sorted(m, (k + 1) \div 2)
  BY <1>1, <1>3, <1>4, IsSorted
<1> QED BY <1>5 DEF o, m

\* ... and so is every other one from the second.
LEMMA EvenSorted ==
  ASSUME NEW n \in Nat, NEW k \in Nat, k <= n
  PROVE  N!Even(Sorted(n, k)) = Sorted(n \div 2, k \div 2)
<1> DEFINE s == Sorted(n, k)
           m == n \div 2
           e == N!Even(s)
<1>1. m \in Nat /\ k \div 2 \in Nat
  OBVIOUS
<1>2. e = [i \in 1..m |-> s[2 * i]]
  BY SortedProperties DEF N!Even
<1>3. ASSUME NEW i \in 1..m PROVE e[i] = (i <= k \div 2)
  <2>1. 2 * i \in 1..n
    OBVIOUS
  <2>2. e[i] = s[2 * i]
    BY <1>2
  <2>3. s[2 * i] = (2 * i <= k)
    BY <2>1, SortedProperties
  <2>4. (2 * i <= k) = (i <= k \div 2)
    OBVIOUS
  <2> HIDE DEF e, s, m
  <2> QED BY <2>2, <2>3, <2>4
<1>4. e = [i \in 1..m |-> e[i]]
  BY <1>2
<1> HIDE DEF e, m
<1>5. e = Sorted(m, k \div 2)
  BY <1>1, <1>3, <1>4, IsSorted
<1> QED BY <1>5 DEF e, m

\* Two sorted lists, the first with up to two more wires and up to two more
\* true ones, interleave into a sorted list.
LEMMA InterleaveSorted ==
  ASSUME NEW m1 \in Nat, NEW m2 \in Nat, NEW j1 \in Nat, NEW j2 \in Nat,
         m1 >= 1, m2 <= m1, m1 <= m2 + 2, j2 <= j1, j1 <= j2 + 2,
         j1 <= m1, j2 <= m2
  PROVE  N!interleave(Sorted(m1, j1), Sorted(m2, j2)) = Sorted(m1 + m2, j1 + j2)
<1> DEFINE odd == Sorted(m1, j1)
           even == Sorted(m2, j2)
           n == m1 + m2
           k == j1 + j2
           w == N!interleave(odd, even)
<1>1. /\ Len(odd) = m1 /\ \A i \in 1..m1 : odd[i] = (i <= j1)
      /\ Len(even) = m2 /\ \A i \in 1..m2 : even[i] = (i <= j2)
  BY SortedProperties
<1> HIDE DEF odd, even
<1>2. w = [j \in 1..n |->
            IF j = 1 THEN odd[1]
            ELSE IF j = n /\ n % 2 = 0
                 THEN IF m1 = m2 THEN even[m2] ELSE odd[m1]
                 ELSE N!sort_two(odd[j \div 2 + 1], even[j \div 2])[1 + (j % 2)]]
  BY <1>1 DEF N!interleave
<1>3. ASSUME NEW j \in 1..n PROVE w[j] = (j <= k)
  <2>1. CASE j = 1
    <3>1. w[j] = odd[1] /\ odd[1] = (1 <= j1)
      BY <1>1, <1>2, <2>1
    <3>2. (1 <= j1) = (1 <= k)
      OBVIOUS
    <3> QED BY <2>1, <3>1, <3>2
  <2>2. CASE j # 1 /\ j = n /\ n % 2 = 0 /\ m1 = m2
    <3>1. w[j] = even[m2] /\ even[m2] = (m2 <= j2)
      BY <1>1, <1>2, <2>2
    <3>2. (m2 <= j2) = (j <= k)
      BY <2>2
    <3> QED BY <3>1, <3>2
  <2>3. CASE j # 1 /\ j = n /\ n % 2 = 0 /\ m1 # m2
    <3>1. w[j] = odd[m1] /\ odd[m1] = (m1 <= j1)
      BY <1>1, <1>2, <2>3
    <3>2. m1 = m2 + 2
      BY <2>3
    <3>3. (m1 <= j1) = (j <= k)
      BY <2>3, <3>2
    <3> QED BY <3>1, <3>3
  <2>4. CASE j # 1 /\ ~(j = n /\ n % 2 = 0)
    <3> DEFINE i == j \div 2
    <3>1. i \in Nat /\ i >= 1 /\ i + 1 \in 1..m1 /\ i \in 1..m2
      BY <2>4
    <3>2. w[j] = N!sort_two(odd[i + 1], even[i])[1 + (j % 2)]
      BY <1>2, <2>4
    <3>3. odd[i + 1] = (i + 1 <= j1) /\ even[i] = (i <= j2)
      BY <1>1, <3>1
    <3>4. CASE j % 2 = 0
      <4>1. w[j] = (odd[i + 1] \/ even[i])
        BY <3>2, <3>4 DEF N!sort_two
      <4>2. (i + 1 <= j1 \/ i <= j2) = (j <= k)
        BY <3>1, <3>4
      <4> HIDE DEF i, w, k
      <4> QED BY <4>1, <4>2, <3>3
    <3>5. CASE j % 2 = 1
      <4>1. w[j] = (odd[i + 1] /\ even[i])
        BY <3>2, <3>5 DEF N!sort_two
      <4>2. (i + 1 <= j1 /\ i <= j2) = (j <= k)
        BY <3>1, <3>5
      <4> HIDE DEF i, w, k
      <4> QED BY <4>1, <4>2, <3>3
    <3>6. j % 2 = 0 \/ j % 2 = 1
      OBVIOUS
    <3> QED BY <3>4, <3>5, <3>6
  <2> QED BY <2>1, <2>2, <2>3, <2>4
<1>4. w = [j \in 1..n |-> w[j]]
  BY <1>2
<1>5. n \in Nat /\ k \in Nat
  OBVIOUS
<1> HIDE DEF w, n, k
<1>6. w = Sorted(n, k)
  BY <1>3, <1>4, <1>5, IsSorted
<1> QED BY <1>6 DEF w, n, k, odd, even

------------------------------------------------------------------------------
(* SortingNetwork: merge.                                                  *)

Lists == N!Wires \X N!Wires
\* One step of merge, with g for what it calls.
MergeBody(p, g) ==
  LET sorted1 == p[1]
      sorted2 == p[2]
      len1 == Len(sorted1)
      len2 == Len(sorted2)
  IN IF len1 = 0 THEN sorted2
     ELSE IF len2 = 0 THEN sorted1
     ELSE IF len1 = 1 /\ len2 = 1 THEN N!sort_two(sorted1[1], sorted2[1])
     ELSE IF len1 % 2 = 1 /\ len2 % 2 = 0 THEN g[<<sorted2, sorted1>>]
     ELSE N!interleave(g[<<N!Odd(sorted1), N!Odd(sorted2)>>],
                       g[<<N!Even(sorted1), N!Even(sorted2)>>])
\* It gets smaller with every call.
Size(p) == 2 * (Len(p[1]) + Len(p[2]))
           + (IF Len(p[1]) % 2 = 1 /\ Len(p[2]) % 2 = 0 THEN 1 ELSE 0)
Merges(g) == \A p \in Lists : MergeBody(p, g) \in N!Wires => g[p] = MergeBody(p, g)

\* The halves of any list.
LEMMA HalvesAreWires ==
  ASSUME NEW s \in N!Wires
  PROVE  /\ N!Odd(s) \in N!Wires /\ Len(N!Odd(s)) = (Len(s) + 1) \div 2
         /\ N!Even(s) \in N!Wires /\ Len(N!Even(s)) = Len(s) \div 2
<1> DEFINE n == Len(s)
<1>1. n \in Nat /\ \A i \in 1..n : s[i] \in BOOLEAN
  BY LenProperties, ElementOfSeq DEF N!Wires
<1> HIDE DEF n
<1>2. N!Odd(s) = [i \in 1..(n + 1) \div 2 |-> s[2 * i - 1]]
  BY DEF N!Odd, n
<1>3. N!Even(s) = [i \in 1..n \div 2 |-> s[2 * i]]
  BY DEF N!Even, n
<1>4. (n + 1) \div 2 \in Nat /\ n \div 2 \in Nat
  BY <1>1
<1>5. \A i \in 1..(n + 1) \div 2 : s[2 * i - 1] \in BOOLEAN
  <2> SUFFICES ASSUME NEW i \in 1..(n + 1) \div 2 PROVE s[2 * i - 1] \in BOOLEAN
    OBVIOUS
  <2>1. 2 * i - 1 \in 1..n
    BY <1>1
  <2> QED BY <2>1, <1>1
<1>6. \A i \in 1..n \div 2 : s[2 * i] \in BOOLEAN
  <2> SUFFICES ASSUME NEW i \in 1..n \div 2 PROVE s[2 * i] \in BOOLEAN
    OBVIOUS
  <2>1. 2 * i \in 1..n
    BY <1>1
  <2> QED BY <2>1, <1>1
<1>7. N!Odd(s) \in [1..(n + 1) \div 2 -> BOOLEAN] /\ N!Even(s) \in [1..n \div 2 -> BOOLEAN]
  BY <1>2, <1>3, <1>5, <1>6
<1>8. N!Odd(s) \in Seq(BOOLEAN) /\ N!Even(s) \in Seq(BOOLEAN)
  BY <1>4, <1>7
<1>9. DOMAIN N!Odd(s) = 1..(n + 1) \div 2 /\ DOMAIN N!Even(s) = 1..n \div 2
  BY <1>2, <1>3
<1>10. Len(N!Odd(s)) = (n + 1) \div 2 /\ Len(N!Even(s)) = n \div 2
  BY <1>4, <1>8, <1>9, LenProperties
<1> QED BY <1>8, <1>10 DEF n, N!Wires

\* The measure, from the lengths.
LEMMA SizeIs ==
  ASSUME NEW s1, NEW s2, NEW n1, NEW n2, Len(s1) = n1, Len(s2) = n2
  PROVE  Size(<<s1, s2>>)
           = 2 * (n1 + n2) + (IF n1 % 2 = 1 /\ n2 % 2 = 0 THEN 1 ELSE 0)
BY DEF Size

\* The calls of a step are for less.
LEMMA MergeCalls ==
  ASSUME NEW s1 \in N!Wires, NEW s2 \in N!Wires, Len(s1) # 0, Len(s2) # 0,
         ~(Len(s1) = 1 /\ Len(s2) = 1)
  PROVE  /\ Len(s1) % 2 = 1 /\ Len(s2) % 2 = 0 =>
              <<s2, s1>> \in Lists /\ Size(<<s2, s1>>) < Size(<<s1, s2>>)
         /\ <<N!Odd(s1), N!Odd(s2)>> \in Lists
         /\ Size(<<N!Odd(s1), N!Odd(s2)>>) < Size(<<s1, s2>>)
         /\ <<N!Even(s1), N!Even(s2)>> \in Lists
         /\ Size(<<N!Even(s1), N!Even(s2)>>) < Size(<<s1, s2>>)
<1> DEFINE n1 == Len(s1)
           n2 == Len(s2)
<1>1. n1 \in Nat /\ n2 \in Nat
  BY LenProperties DEF N!Wires
<1>2. /\ N!Odd(s1) \in N!Wires /\ Len(N!Odd(s1)) = (n1 + 1) \div 2
      /\ N!Odd(s2) \in N!Wires /\ Len(N!Odd(s2)) = (n2 + 1) \div 2
      /\ N!Even(s1) \in N!Wires /\ Len(N!Even(s1)) = n1 \div 2
      /\ N!Even(s2) \in N!Wires /\ Len(N!Even(s2)) = n2 \div 2
  BY HalvesAreWires
<1>3. n1 # 0 /\ n2 # 0 /\ ~(n1 = 1 /\ n2 = 1)
  OBVIOUS
<1>4. Size(<<s1, s2>>) = 2 * (n1 + n2) + (IF n1 % 2 = 1 /\ n2 % 2 = 0 THEN 1 ELSE 0)
  BY DEF Size
<1>5. Size(<<s2, s1>>) = 2 * (n2 + n1) + (IF n2 % 2 = 1 /\ n1 % 2 = 0 THEN 1 ELSE 0)
  BY DEF Size
<1>7. Size(<<N!Odd(s1), N!Odd(s2)>>)
        = 2 * ((n1 + 1) \div 2 + (n2 + 1) \div 2)
          + (IF ((n1 + 1) \div 2) % 2 = 1 /\ ((n2 + 1) \div 2) % 2 = 0 THEN 1 ELSE 0)
  <2> DEFINE a == N!Odd(s1)
             b == N!Odd(s2)
             ma == (n1 + 1) \div 2
             mb == (n2 + 1) \div 2
  <2>1. Len(a) = ma /\ Len(b) = mb
    BY <1>2
  <2> HIDE DEF a, b, ma, mb
  <2>2. Size(<<a, b>>) = 2 * (ma + mb) + (IF ma % 2 = 1 /\ mb % 2 = 0 THEN 1 ELSE 0)
    BY <2>1, SizeIs
  <2> QED BY <2>2 DEF a, b, ma, mb
<1>8. Size(<<N!Even(s1), N!Even(s2)>>)
        = 2 * (n1 \div 2 + n2 \div 2)
          + (IF (n1 \div 2) % 2 = 1 /\ (n2 \div 2) % 2 = 0 THEN 1 ELSE 0)
  <2> DEFINE a == N!Even(s1)
             b == N!Even(s2)
             ma == n1 \div 2
             mb == n2 \div 2
  <2>1. Len(a) = ma /\ Len(b) = mb
    BY <1>2
  <2> HIDE DEF a, b, ma, mb
  <2>2. Size(<<a, b>>) = 2 * (ma + mb) + (IF ma % 2 = 1 /\ mb % 2 = 0 THEN 1 ELSE 0)
    BY <2>1, SizeIs
  <2> QED BY <2>2 DEF a, b, ma, mb
<1> HIDE DEF n1, n2
<1>9. n1 % 2 = 1 /\ n2 % 2 = 0 => Size(<<s2, s1>>) < Size(<<s1, s2>>)
  BY <1>1, <1>4, <1>5
<1>10. (n1 + 1) \div 2 + (n2 + 1) \div 2 <= n1 + n2 - 1 /\ n1 \div 2 + n2 \div 2 <= n1 + n2 - 1
  BY <1>1, <1>3
<1>11. Size(<<N!Odd(s1), N!Odd(s2)>>) < Size(<<s1, s2>>)
  <2> DEFINE a == (n1 + 1) \div 2
             b == (n2 + 1) \div 2
  <2>1. a \in Nat /\ b \in Nat /\ a + b <= n1 + n2 - 1
    BY <1>1, <1>10
  <2>2. Size(<<N!Odd(s1), N!Odd(s2)>>) <= 2 * (a + b) + 1
    BY <2>1, <1>7
  <2>3. Size(<<s1, s2>>) >= 2 * (n1 + n2)
    BY <1>1, <1>4
  <2>4. Size(<<s1, s2>>) \in Nat /\ Size(<<N!Odd(s1), N!Odd(s2)>>) \in Nat
    BY <1>1, <1>4, <1>7, <2>1
  <2> HIDE DEF a, b
  <2> QED BY <1>1, <2>1, <2>2, <2>3, <2>4
<1>12. Size(<<N!Even(s1), N!Even(s2)>>) < Size(<<s1, s2>>)
  <2> DEFINE a == n1 \div 2
             b == n2 \div 2
  <2>1. a \in Nat /\ b \in Nat /\ a + b <= n1 + n2 - 1
    BY <1>1, <1>10
  <2>2. Size(<<N!Even(s1), N!Even(s2)>>) <= 2 * (a + b) + 1
    BY <2>1, <1>8
  <2>3. Size(<<s1, s2>>) >= 2 * (n1 + n2)
    BY <1>1, <1>4
  <2>4. Size(<<s1, s2>>) \in Nat /\ Size(<<N!Even(s1), N!Even(s2)>>) \in Nat
    BY <1>1, <1>4, <1>8, <2>1
  <2> HIDE DEF a, b
  <2> QED BY <1>1, <2>1, <2>2, <2>3, <2>4
<1> QED BY <1>2, <1>9, <1>11, <1>12 DEF n1, n2, Lists

\* The measure is a number.
LEMMA SizeNat == ASSUME NEW p \in Lists PROVE Size(p) \in Nat
<1>1. Len(p[1]) \in Nat /\ Len(p[2]) \in Nat
  BY LenProperties DEF Lists, N!Wires
<1> DEFINE n1 == Len(p[1])
           n2 == Len(p[2])
<1>2. Size(p) = 2 * (n1 + n2) + (IF n1 % 2 = 1 /\ n2 % 2 = 0 THEN 1 ELSE 0)
  BY DEF Size
<1> HIDE DEF n1, n2
<1>3. n1 \in Nat /\ n2 \in Nat
  BY <1>1 DEF n1, n2
<1> QED BY <1>2, <1>3

\* The interleaving of any two lists is a list.
LEMMA InterleaveWires ==
  ASSUME NEW odd \in N!Wires, NEW even \in N!Wires, NEW m1 \in Nat, NEW m2 \in Nat,
         Len(odd) = m1, Len(even) = m2, m1 >= 1, m2 <= m1, m1 <= m2 + 2
  PROVE  /\ N!interleave(odd, even) \in N!Wires
         /\ Len(N!interleave(odd, even)) = m1 + m2
<1> DEFINE n == m1 + m2
           w == N!interleave(odd, even)
<1>1. /\ \A i \in 1..m1 : odd[i] \in BOOLEAN
      /\ \A i \in 1..m2 : even[i] \in BOOLEAN
  BY ElementOfSeq DEF N!Wires
<1>2. w = [j \in 1..n |->
            IF j = 1 THEN odd[1]
            ELSE IF j = n /\ n % 2 = 0
                 THEN IF m1 = m2 THEN even[m2] ELSE odd[m1]
                 ELSE N!sort_two(odd[j \div 2 + 1], even[j \div 2])[1 + (j % 2)]]
  BY DEF N!interleave
<1>3. ASSUME NEW j \in 1..n PROVE w[j] \in BOOLEAN
  <2>1. CASE j = 1
    <3>1. w[j] = odd[1] /\ 1 \in 1..m1
      BY <1>2, <2>1
    <3> QED BY <3>1, <1>1
  <2>2. CASE j # 1 /\ j = n /\ n % 2 = 0 /\ m1 = m2
    <3>1. w[j] = even[m2] /\ m2 \in 1..m2
      BY <1>2, <2>2
    <3> QED BY <3>1, <1>1
  <2>3. CASE j # 1 /\ j = n /\ n % 2 = 0 /\ m1 # m2
    <3>1. w[j] = odd[m1] /\ m1 \in 1..m1
      BY <1>2, <2>3
    <3> QED BY <3>1, <1>1
  <2>4. CASE j # 1 /\ ~(j = n /\ n % 2 = 0)
    <3> DEFINE i == j \div 2
    <3>2. w[j] = N!sort_two(odd[i + 1], even[i])[1 + (j % 2)]
      BY <1>2, <2>4
    <3>3. j % 2 = 0 \/ j % 2 = 1
      OBVIOUS
    <3>4. w[j] = (odd[i + 1] \/ even[i]) \/ w[j] = (odd[i + 1] /\ even[i])
      BY <3>2, <3>3 DEF N!sort_two
    <3> HIDE DEF i, w
    <3> QED BY <3>4
  <2> QED BY <2>1, <2>2, <2>3, <2>4
<1>8. w = [j \in 1..n |-> w[j]] /\ n \in Nat
  BY <1>2
<1> HIDE DEF w, n
<1>4. w \in [1..n -> BOOLEAN] /\ n \in Nat
  BY <1>8, <1>3
<1>5. w \in Seq(BOOLEAN)
  BY <1>4
<1>6. DOMAIN w = 1..n
  BY <1>4
<1>7. Len(w) = n
  BY <1>4, <1>5, <1>6, LenProperties
<1> QED BY <1>5, <1>7 DEF N!Wires, w, n

\* What merge returns has as many wires as it was given.
Whole(p, w) == w \in N!Wires /\ Len(w) = Len(p[1]) + Len(p[2])

\* A step keeps the number of wires when its calls do.
LEMMA BodyWhole ==
  ASSUME NEW g, NEW s1 \in N!Wires, NEW s2 \in N!Wires,
         \A q \in Lists : Size(q) < Size(<<s1, s2>>) => Whole(q, g[q])
  PROVE  Whole(<<s1, s2>>, MergeBody(<<s1, s2>>, g))
<1> DEFINE n1 == Len(s1)
           n2 == Len(s2)
           w == MergeBody(<<s1, s2>>, g)
<1>1. n1 \in Nat /\ n2 \in Nat
  BY LenProperties DEF N!Wires
<1>2. CASE n1 = 0
  <2>1. w = s2
    BY <1>2 DEF MergeBody
  <2> HIDE DEF w
  <2> QED BY <1>1, <1>2, <2>1 DEF Whole, w
<1>3. CASE n1 # 0 /\ n2 = 0
  <2>1. w = s1
    BY <1>3 DEF MergeBody
  <2> QED BY <1>1, <1>3, <2>1 DEF Whole
<1>4. CASE n1 = 1 /\ n2 = 1
  <2>1. w = <<s1[1] \/ s2[1], s1[1] /\ s2[1]>>
    BY <1>4 DEF MergeBody, N!sort_two
  <2>2. \A x, y \in BOOLEAN : <<x, y>> \in Seq(BOOLEAN) /\ Len(<<x, y>>) = 2
    OBVIOUS
  <2>3. (s1[1] \/ s2[1]) \in BOOLEAN /\ (s1[1] /\ s2[1]) \in BOOLEAN
    OBVIOUS
  <2>4. w \in N!Wires /\ Len(w) = 2
    <3> HIDE DEF w
    <3> QED BY <2>1, <2>2, <2>3 DEF N!Wires
  <2>5. Len(<<s1, s2>>[1]) + Len(<<s1, s2>>[2]) = 2
    <3> HIDE DEF w
    <3>1. Len(s1) = 1 /\ Len(s2) = 1
      BY <1>4
    <3>2. <<s1, s2>>[1] = s1 /\ <<s1, s2>>[2] = s2
      OBVIOUS
    <3>3. Len(s1) + Len(s2) = 2
      BY <3>1
    <3> QED BY <3>2, <3>3, Zenon
  <2> HIDE DEF w
  <2> QED BY <2>4, <2>5 DEF Whole, w
<1>5. CASE n1 # 0 /\ n2 # 0 /\ ~(n1 = 1 /\ n2 = 1) /\ n1 % 2 = 1 /\ n2 % 2 = 0
  <2>1. w = g[<<s2, s1>>]
    BY <1>5 DEF MergeBody
  <2>2. <<s2, s1>> \in Lists /\ Size(<<s2, s1>>) < Size(<<s1, s2>>)
    BY <1>5, MergeCalls
  <2>3. Whole(<<s2, s1>>, w)
    BY <2>1, <2>2
  <2> HIDE DEF w
  <2> QED BY <1>1, <2>3 DEF Whole, w
<1>6. CASE n1 # 0 /\ n2 # 0 /\ ~(n1 = 1 /\ n2 = 1) /\ ~(n1 % 2 = 1 /\ n2 % 2 = 0)
  <2> DEFINE od == g[<<N!Odd(s1), N!Odd(s2)>>]
             ev == g[<<N!Even(s1), N!Even(s2)>>]
             m1 == (n1 + 1) \div 2 + (n2 + 1) \div 2
             m2 == n1 \div 2 + n2 \div 2
  <2>1. w = N!interleave(od, ev)
    BY <1>6 DEF MergeBody
  <2>2. /\ <<N!Odd(s1), N!Odd(s2)>> \in Lists
        /\ Size(<<N!Odd(s1), N!Odd(s2)>>) < Size(<<s1, s2>>)
        /\ <<N!Even(s1), N!Even(s2)>> \in Lists
        /\ Size(<<N!Even(s1), N!Even(s2)>>) < Size(<<s1, s2>>)
    BY <1>6, MergeCalls
  <2>3. Whole(<<N!Odd(s1), N!Odd(s2)>>, od) /\ Whole(<<N!Even(s1), N!Even(s2)>>, ev)
    BY <2>2
  <2>4. /\ Len(N!Odd(s1)) = (n1 + 1) \div 2 /\ Len(N!Odd(s2)) = (n2 + 1) \div 2
        /\ Len(N!Even(s1)) = n1 \div 2 /\ Len(N!Even(s2)) = n2 \div 2
    BY HalvesAreWires
  <2>5. od \in N!Wires /\ Len(od) = m1 /\ ev \in N!Wires /\ Len(ev) = m2
    <3> HIDE DEF od, ev
    <3> QED BY <2>3, <2>4 DEF Whole
  <2> HIDE DEF od, ev, w
  <2>6. m1 \in Nat /\ m2 \in Nat /\ m1 >= 1 /\ m2 <= m1 /\ m1 <= m2 + 2 /\ m1 + m2 = n1 + n2
    <3> HIDE DEF n1, n2
    <3> QED BY <1>1, <1>6
  <2> HIDE DEF m1, m2
  <2>7. w \in N!Wires /\ Len(w) = m1 + m2
    BY <2>1, <2>5, <2>6, InterleaveWires
  <2> QED BY <2>6, <2>7 DEF Whole, w
<1> HIDE DEF n1, n2
<1> QED BY <1>1, <1>2, <1>3, <1>4, <1>5, <1>6

\* A function that is a merge wherever merge has a value is one everywhere.
LEMMA MergesWhole ==
  ASSUME NEW g, Merges(g), NEW p \in Lists
  PROVE  Whole(p, g[p]) /\ g[p] = MergeBody(p, g)
<1> DEFINE Good == {n \in Nat : \A q \in Lists :
                      Size(q) = n => Whole(q, g[q]) /\ g[q] = MergeBody(q, g)}
<1>1. ASSUME NEW n \in Nat, \A m \in Nat : m < n => m \in Good PROVE n \in Good
  <2> SUFFICES ASSUME NEW q \in Lists, Size(q) = n
               PROVE  Whole(q, g[q]) /\ g[q] = MergeBody(q, g)
    OBVIOUS
  <2>1. PICK s1 \in N!Wires, s2 \in N!Wires : q = <<s1, s2>>
    BY DEF Lists
  <2>2. ASSUME NEW r \in Lists, Size(r) < Size(q) PROVE Whole(r, g[r])
    <3>1. Size(r) \in Nat /\ Size(r) < n
      BY <2>2, SizeNat
    <3> QED BY <3>1, <1>1
  <2>3. Whole(q, MergeBody(q, g))
    BY <2>1, <2>2, BodyWhole
  <2>4. g[q] = MergeBody(q, g)
    BY <2>3 DEF Merges, Whole
  <2> QED BY <2>3, <2>4
<1> HIDE DEF Good
<1>2. Nat \subseteq Good
  BY <1>1, StrongInduction
<1>3. Size(p) \in Good
  BY <1>2, SizeNat
<1> QED BY <1>3 DEF Good

\* There is one.
LEMMA MergeExists ==
  \E f \in [Lists -> N!Wires] : Merges(f)
<1> DEFINE h == [p \in Lists |-> Size(p)]
           G(p, g) == IF MergeBody(p, g) \in N!Wires THEN MergeBody(p, g) ELSE <<>>
           F == [x \in Lists \X [Lists -> N!Wires] |-> G(x[1], x[2])]
<1>1. h \in [Lists -> Nat]
  BY SizeNat
<1>2. ASSUME NEW p \in Lists, NEW g \in [Lists -> N!Wires] PROVE G(p, g) \in N!Wires
  <2>1. <<>> \in N!Wires
    BY DEF N!Wires
  <2> QED BY <2>1
<1>3. F \in [Lists \X [Lists -> N!Wires] -> N!Wires]
  <2> HIDE DEF G
  <2> QED BY <1>2
<1>4. ASSUME NEW p \in Lists, NEW g1 \in [Lists -> N!Wires], NEW g2 \in [Lists -> N!Wires],
             \A q \in Lists : h[q] < h[p] => g1[q] = g2[q]
      PROVE  F[<<p, g1>>] = F[<<p, g2>>]
  <2>1. F[<<p, g1>>] = G(p, g1) /\ F[<<p, g2>>] = G(p, g2)
    <3> HIDE DEF G
    <3> QED OBVIOUS
  <2>2. PICK s1 \in N!Wires, s2 \in N!Wires : p = <<s1, s2>>
    BY DEF Lists
  <2>3. \A q \in Lists : Size(q) < Size(p) => g1[q] = g2[q]
    BY <1>4
  <2>4. CASE Len(s1) = 0 \/ Len(s2) = 0 \/ (Len(s1) = 1 /\ Len(s2) = 1)
    <3>1. MergeBody(p, g1) = MergeBody(p, g2)
      BY <2>2, <2>4 DEF MergeBody
    <3> QED BY <2>1, <3>1
  <2>5. CASE ~(Len(s1) = 0 \/ Len(s2) = 0 \/ (Len(s1) = 1 /\ Len(s2) = 1))
    <3>1. /\ Len(s1) % 2 = 1 /\ Len(s2) % 2 = 0 => g1[<<s2, s1>>] = g2[<<s2, s1>>]
          /\ g1[<<N!Odd(s1), N!Odd(s2)>>] = g2[<<N!Odd(s1), N!Odd(s2)>>]
          /\ g1[<<N!Even(s1), N!Even(s2)>>] = g2[<<N!Even(s1), N!Even(s2)>>]
      BY <2>2, <2>3, <2>5, MergeCalls
    <3>2. MergeBody(p, g1) = MergeBody(p, g2)
      BY <2>2, <2>5, <3>1 DEF MergeBody
    <3> QED BY <2>1, <3>2
  <2> QED BY <2>4, <2>5
<1>5. N!Wires # {}
  BY <<>> \in N!Wires DEF N!Wires
<1>6. WellRecursive(Lists, N!Wires, h, F)
  <2> HIDE DEF F, h
  <2> QED BY <1>1, <1>3, <1>4, <1>5 DEF WellRecursive
<1>7. PICK f \in [Lists -> N!Wires] : \A p \in Lists : f[p] = F[<<p, f>>]
  <2> HIDE DEF F, h
  <2> QED BY <1>6, Recursion
<1>8. \A p \in Lists : f[p] = G(p, f)
  <2> HIDE DEF G
  <2> QED BY <1>7
<1>9. Merges(f)
  BY <1>8 DEF Merges
<1> QED BY <1>9

\* And merge is one: it satisfies its own definition.
LEMMA MergeUnfolds ==
  /\ \A p \in Lists : N!merge[p] = MergeBody(p, N!merge)
  /\ \A p \in Lists : N!merge[p] \in N!Wires
<1> DEFINE Is(g) == g = [p \in Lists |-> MergeBody(p, g)]
           c == CHOOSE g : Is(g)
<1>1. PICK f \in [Lists -> N!Wires] : Merges(f)
  BY MergeExists
<1>2. Is(f)
  <2>1. \A p \in Lists : f[p] = MergeBody(p, f)
    BY <1>1, MergesWhole
  <2> QED BY <2>1
<1>3. Is(c)
  <2> HIDE DEF Is
  <2> QED BY <1>2
<1>4. N!merge = c
  BY DEF N!merge, MergeBody, Lists
<1> HIDE DEF c
<1>5. \A p \in Lists : c[p] = MergeBody(p, c)
  BY <1>3
<1>6. Merges(c)
  BY <1>5 DEF Merges
<1>7. \A p \in Lists : c[p] \in N!Wires
  BY <1>6, MergesWhole DEF Whole
<1> QED BY <1>4, <1>5, <1>7

\* A sorted pair.
LEMMA PairIs ==
  ASSUME NEW a \in BOOLEAN, NEW b \in BOOLEAN, NEW k \in Nat,
         a = (1 <= k), b = (2 <= k)
  PROVE  <<a, b>> = Sorted(2, k)
<1> DEFINE w == <<a, b>>
<1>1. w = [i \in 1..2 |-> w[i]]
  OBVIOUS
<1>2. \A i \in 1..2 : w[i] = (i <= k)
  <2>1. w[1] = (1 <= k) /\ w[2] = (2 <= k)
    OBVIOUS
  <2>2. \A i \in 1..2 : i = 1 \/ i = 2
    OBVIOUS
  <2> QED BY <2>1, <2>2
<1> HIDE DEF w
<1>3. w = Sorted(2, k)
  <2> DEFINE n == 2
  <2>1. n \in Nat /\ w = [i \in 1..n |-> w[i]] /\ \A i \in 1..n : w[i] = (i <= k)
    BY <1>1, <1>2
  <2> HIDE DEF n
  <2>2. w = Sorted(n, k)
    BY <2>1, IsSorted
  <2> QED BY <2>2 DEF n
<1> QED BY <1>3 DEF w

\* Two sorted lists merge into one.
SortsAt(n) ==
  \A m1, j1, m2, j2 \in Nat :
    j1 <= m1 /\ j2 <= m2 /\ Size(<<Sorted(m1, j1), Sorted(m2, j2)>>) = n
    => N!merge[<<Sorted(m1, j1), Sorted(m2, j2)>>] = Sorted(m1 + m2, j1 + j2)

\* Two sorted lists merge into one, if smaller ones do.
LEMMA MergeSortedStep ==
  ASSUME NEW n1 \in Nat, NEW k1 \in Nat, k1 <= n1, NEW n2 \in Nat, NEW k2 \in Nat, k2 <= n2,
         \A m \in Nat : m < Size(<<Sorted(n1, k1), Sorted(n2, k2)>>) => SortsAt(m)
  PROVE  N!merge[<<Sorted(n1, k1), Sorted(n2, k2)>>] = Sorted(n1 + n2, k1 + k2)
<1> DEFINE s1 == Sorted(n1, k1)
           s2 == Sorted(n2, k2)
           w == N!merge[<<s1, s2>>]
<1>1. /\ s1 \in N!Wires /\ Len(s1) = n1 /\ \A i \in 1..n1 : s1[i] = (i <= k1)
      /\ s2 \in N!Wires /\ Len(s2) = n2 /\ \A i \in 1..n2 : s2[i] = (i <= k2)
  BY SortedProperties
<1> HIDE DEF s1, s2
<1>2. <<s1, s2>> \in Lists
  BY <1>1 DEF Lists
<1>3. w = MergeBody(<<s1, s2>>, N!merge)
  BY <1>2, MergeUnfolds
<1>9. ASSUME NEW m1 \in Nat, NEW j1 \in Nat, NEW m2 \in Nat, NEW j2 \in Nat, j1 <= m1, j2 <= m2,
             Size(<<Sorted(m1, j1), Sorted(m2, j2)>>) < Size(<<Sorted(n1, k1), Sorted(n2, k2)>>)
      PROVE  N!merge[<<Sorted(m1, j1), Sorted(m2, j2)>>] = Sorted(m1 + m2, j1 + j2)
  <2>1. Size(<<Sorted(m1, j1), Sorted(m2, j2)>>) \in Nat
    BY SizeNat, SortedProperties DEF Lists
  <2>2. SortsAt(Size(<<Sorted(m1, j1), Sorted(m2, j2)>>))
    BY <2>1, <1>9
  <2> QED BY <2>2, <1>9 DEF SortsAt
<1>4. CASE n1 = 0
  <2>1. w = s2
    BY <1>1, <1>3, <1>4 DEF MergeBody
  <2>2. k1 = 0 /\ n1 + n2 = n2 /\ k1 + k2 = k2
    BY <1>4
  <2> QED BY <2>1, <2>2 DEF s1, s2
<1>5. CASE n1 # 0 /\ n2 = 0
  <2>1. w = s1
    BY <1>1, <1>3, <1>5 DEF MergeBody
  <2>2. k2 = 0 /\ n1 + n2 = n1 /\ k1 + k2 = k1
    BY <1>5
  <2> QED BY <2>1, <2>2 DEF s1, s2
<1>6. CASE n1 = 1 /\ n2 = 1
  <2> DEFINE a == s1[1] \/ s2[1]
             b == s1[1] /\ s2[1]
  <2>1. w = <<a, b>>
    <3>1. MergeBody(<<s1, s2>>, N!merge) = N!sort_two(s1[1], s2[1])
      BY <1>1, <1>6 DEF MergeBody
    <3>2. N!sort_two(s1[1], s2[1]) = <<a, b>>
      BY DEF N!sort_two
    <3> HIDE DEF a, b, w
    <3> QED BY <1>3, <3>1, <3>2
  <2>2. s1[1] = (1 <= k1) /\ s2[1] = (1 <= k2)
    BY <1>1, <1>6
  <2>3. (1 <= k1 \/ 1 <= k2) = (1 <= k1 + k2) /\ (1 <= k1 /\ 1 <= k2) = (2 <= k1 + k2)
    BY <1>6
  <2>4. a = (1 <= k1 + k2) /\ b = (2 <= k1 + k2)
    BY <2>2, <2>3
  <2>5. a \in BOOLEAN /\ b \in BOOLEAN
    OBVIOUS
  <2> DEFINE k == k1 + k2
  <2>7. k \in Nat /\ a = (1 <= k) /\ b = (2 <= k)
    BY <2>4
  <2> HIDE DEF a, b, k, w
  <2>8. w = Sorted(2, k)
    BY <2>1, <2>5, <2>7, PairIs
  <2>6. w = Sorted(2, k1 + k2)
    BY <2>8 DEF k
  <2> QED BY <1>6, <2>6 DEF w, s1, s2
<1>7. CASE n1 # 0 /\ n2 # 0 /\ ~(n1 = 1 /\ n2 = 1) /\ n1 % 2 = 1 /\ n2 % 2 = 0
  <2>1. w = N!merge[<<s2, s1>>]
    BY <1>1, <1>3, <1>7 DEF MergeBody
  <2>2. Size(<<s2, s1>>) < Size(<<s1, s2>>)
    BY <1>1, <1>7, MergeCalls
  <2>3. N!merge[<<s2, s1>>] = Sorted(n2 + n1, k2 + k1)
    BY <1>9, <2>2 DEF s1, s2
  <2>4. n2 + n1 = n1 + n2 /\ k2 + k1 = k1 + k2
    OBVIOUS
  <2> QED BY <2>1, <2>3, <2>4 DEF s1, s2
<1>8. CASE n1 # 0 /\ n2 # 0 /\ ~(n1 = 1 /\ n2 = 1) /\ ~(n1 % 2 = 1 /\ n2 % 2 = 0)
  <2> DEFINE o1 == (n1 + 1) \div 2
             o2 == (n2 + 1) \div 2
             e1 == n1 \div 2
             e2 == n2 \div 2
             p1 == (k1 + 1) \div 2
             p2 == (k2 + 1) \div 2
             q1 == k1 \div 2
             q2 == k2 \div 2
             od == N!merge[<<N!Odd(s1), N!Odd(s2)>>]
             ev == N!merge[<<N!Even(s1), N!Even(s2)>>]
  <2>1. w = N!interleave(od, ev)
    BY <1>1, <1>3, <1>8 DEF MergeBody
  <2>2. /\ Size(<<N!Odd(s1), N!Odd(s2)>>) < Size(<<s1, s2>>)
        /\ Size(<<N!Even(s1), N!Even(s2)>>) < Size(<<s1, s2>>)
    BY <1>1, <1>8, MergeCalls
  <2>3. /\ N!Odd(s1) = Sorted(o1, p1) /\ N!Odd(s2) = Sorted(o2, p2)
        /\ N!Even(s1) = Sorted(e1, q1) /\ N!Even(s2) = Sorted(e2, q2)
    BY OddSorted, EvenSorted DEF s1, s2
  <2>4. /\ o1 \in Nat /\ o2 \in Nat /\ e1 \in Nat /\ e2 \in Nat
        /\ p1 \in Nat /\ p2 \in Nat /\ q1 \in Nat /\ q2 \in Nat
        /\ p1 <= o1 /\ p2 <= o2 /\ q1 <= e1 /\ q2 <= e2
        /\ o1 + o2 >= 1 /\ e1 + e2 <= o1 + o2 /\ o1 + o2 <= e1 + e2 + 2
        /\ q1 + q2 <= p1 + p2 /\ p1 + p2 <= q1 + q2 + 2
        /\ (o1 + o2) + (e1 + e2) = n1 + n2 /\ (p1 + p2) + (q1 + q2) = k1 + k2
    BY <1>8
  <2> HIDE DEF o1, o2, e1, e2, p1, p2, q1, q2
  <2>5. od = Sorted(o1 + o2, p1 + p2) /\ ev = Sorted(e1 + e2, q1 + q2)
    <3>1. Size(<<Sorted(o1, p1), Sorted(o2, p2)>>) < Size(<<Sorted(n1, k1), Sorted(n2, k2)>>)
      BY <2>2, <2>3 DEF s1, s2
    <3>2. Size(<<Sorted(e1, q1), Sorted(e2, q2)>>) < Size(<<Sorted(n1, k1), Sorted(n2, k2)>>)
      BY <2>2, <2>3 DEF s1, s2
    <3>3. N!merge[<<Sorted(o1, p1), Sorted(o2, p2)>>] = Sorted(o1 + o2, p1 + p2)
      <4>1. o1 \in Nat /\ p1 \in Nat /\ o2 \in Nat /\ p2 \in Nat /\ p1 <= o1 /\ p2 <= o2
        BY <2>4
      <4> QED BY <1>9, <4>1, <3>1
    <3>4. N!merge[<<Sorted(e1, q1), Sorted(e2, q2)>>] = Sorted(e1 + e2, q1 + q2)
      <4>1. e1 \in Nat /\ q1 \in Nat /\ e2 \in Nat /\ q2 \in Nat /\ q1 <= e1 /\ q2 <= e2
        BY <2>4
      <4> QED BY <1>9, <4>1, <3>2
    <3> QED BY <2>3, <3>3, <3>4
  <2> DEFINE m1 == o1 + o2
             m2 == e1 + e2
             j1 == p1 + p2
             j2 == q1 + q2
  <2>6. /\ m1 \in Nat /\ m2 \in Nat /\ j1 \in Nat /\ j2 \in Nat
        /\ m1 >= 1 /\ m2 <= m1 /\ m1 <= m2 + 2 /\ j2 <= j1 /\ j1 <= j2 + 2
        /\ j1 <= m1 /\ j2 <= m2
    BY <2>4
  <2>7. m1 + m2 = n1 + n2 /\ j1 + j2 = k1 + k2 /\ w = N!interleave(Sorted(m1, j1), Sorted(m2, j2))
    BY <2>1, <2>4, <2>5
  <2> HIDE DEF m1, m2, j1, j2, w
  <2>8. N!interleave(Sorted(m1, j1), Sorted(m2, j2)) = Sorted(m1 + m2, j1 + j2)
    BY <2>6, InterleaveSorted
  <2> QED BY <2>7, <2>8 DEF w, s1, s2
<1> QED BY <1>4, <1>5, <1>6, <1>7, <1>8

\* Two sorted lists merge into one, whatever their lengths.
LEMMA MergeSorted ==
  ASSUME NEW n1 \in Nat, NEW k1 \in Nat, k1 <= n1, NEW n2 \in Nat, NEW k2 \in Nat, k2 <= n2
  PROVE  N!merge[<<Sorted(n1, k1), Sorted(n2, k2)>>] = Sorted(n1 + n2, k1 + k2)
<1> DEFINE Good == {n \in Nat : SortsAt(n)}
<1>1. ASSUME NEW n \in Nat, \A m \in Nat : m < n => m \in Good PROVE n \in Good
  <2>1. ASSUME NEW a1 \in Nat, NEW b1 \in Nat, NEW a2 \in Nat, NEW b2 \in Nat,
               b1 <= a1, b2 <= a2, Size(<<Sorted(a1, b1), Sorted(a2, b2)>>) = n
        PROVE  N!merge[<<Sorted(a1, b1), Sorted(a2, b2)>>] = Sorted(a1 + a2, b1 + b2)
    BY <1>1, <2>1, MergeSortedStep
  <2>2. SortsAt(n)
    BY <2>1 DEF SortsAt
  <2> QED BY <2>2
<1> HIDE DEF Good
<1>2. Nat \subseteq Good
  BY <1>1, StrongInduction
<1>3. Size(<<Sorted(n1, k1), Sorted(n2, k2)>>) \in Nat
  BY SizeNat, SortedProperties DEF Lists
<1>4. SortsAt(Size(<<Sorted(n1, k1), Sorted(n2, k2)>>))
  BY <1>2, <1>3 DEF Good
<1> QED BY <1>4 DEF SortsAt

------------------------------------------------------------------------------
(* SortingNetwork: the network.                                            *)

TrueAt(s, a, b) == {i \in a..b : s[i]}
Count(s) == Cardinality(TrueAt(s, 1, Len(s)))

\* There are at most as many true wires as wires.
LEMMA CountProperties ==
  ASSUME NEW s, NEW n \in Nat, Len(s) = n
  PROVE  Count(s) \in Nat /\ Count(s) <= n
<1>1. TrueAt(s, 1, n) \subseteq 1..n
  BY DEF TrueAt
<1>2. IsFiniteSet(1..n) /\ Cardinality(1..n) = n
  <2>1. 1 \in Int /\ n \in Int
    OBVIOUS
  <2>2. IsFiniteSet(1..n) /\ Cardinality(1..n) = IF 1 > n THEN 0 ELSE n - 1 + 1
    BY <2>1, FS_Interval
  <2> QED BY <2>2
<1>3. IsFiniteSet(TrueAt(s, 1, n)) /\ Cardinality(TrueAt(s, 1, n)) <= n
  BY <1>1, <1>2, FS_Subset
<1> QED BY <1>3, FS_CardinalityType DEF Count

\* A cut splits the wires, and the number of true ones.
LEMMA CountSplit ==
  ASSUME NEW s \in N!Wires, NEW n \in Nat, Len(s) = n, NEW p \in Nat, p <= n
  PROVE  /\ SubSeq(s, 1, p) \in N!Wires /\ Len(SubSeq(s, 1, p)) = p
         /\ SubSeq(s, p + 1, n) \in N!Wires /\ Len(SubSeq(s, p + 1, n)) = n - p
         /\ Count(s) = Count(SubSeq(s, 1, p)) + Count(SubSeq(s, p + 1, n))
<1> DEFINE l == SubSeq(s, 1, p)
           r == SubSeq(s, p + 1, n)
           q == n - p
           A == TrueAt(s, 1, p)
           B == TrueAt(s, p + 1, n)
           C == TrueAt(r, 1, q)
<1>1. \A i \in 1..n : s[i] \in BOOLEAN
  BY ElementOfSeq DEF N!Wires
<1>2. /\ l \in Seq(BOOLEAN) /\ Len(l) = p /\ \A i \in 1..p : l[i] = s[i]
  <2>1. \A i \in 1..p : s[i] \in BOOLEAN
    BY <1>1
  <2>2. 1 \in Int /\ p \in Int
    OBVIOUS
  <2>3. /\ l \in Seq(BOOLEAN) /\ Len(l) = IF 1 <= p THEN p - 1 + 1 ELSE 0
        /\ \A i \in 1..p - 1 + 1 : l[i] = s[1 + i - 1]
    BY <2>1, <2>2, SubSeqProperties
  <2>4. p - 1 + 1 = p /\ (~(1 <= p) => p = 0) /\ \A i \in 1..p : 1 + i - 1 = i
    OBVIOUS
  <2> HIDE DEF l
  <2> QED BY <2>3, <2>4
<1>3. q \in Nat /\ r \in Seq(BOOLEAN) /\ Len(r) = q /\ \A i \in 1..q : r[i] = s[i + p]
  <2>1. \A i \in p + 1..n : s[i] \in BOOLEAN
    BY <1>1
  <2>2. p + 1 \in Int /\ n \in Int /\ q \in Nat
    OBVIOUS
  <2>3. /\ r \in Seq(BOOLEAN) /\ Len(r) = IF p + 1 <= n THEN n - (p + 1) + 1 ELSE 0
        /\ \A i \in 1..n - (p + 1) + 1 : r[i] = s[(p + 1) + i - 1]
    BY <2>1, <2>2, SubSeqProperties
  <2>4. n - (p + 1) + 1 = q /\ (~(p + 1 <= n) => q = 0) /\ \A i \in 1..q : (p + 1) + i - 1 = i + p
    OBVIOUS
  <2> HIDE DEF r
  <2> QED BY <2>2, <2>3, <2>4
<1> HIDE DEF l, r, q
<1>4. TrueAt(l, 1, p) = A
  BY <1>2 DEF TrueAt
<1>5. TrueAt(s, 1, n) = A \cup B /\ A \cap B = {}
  BY DEF TrueAt
<1>6. IsFiniteSet(A) /\ IsFiniteSet(C)
  <2>1. IsFiniteSet(1..p) /\ IsFiniteSet(1..q)
    <3>1. 1 \in Int /\ p \in Int /\ q \in Int
      BY <1>3
    <3> QED BY <3>1, FS_Interval
  <2>2. A \subseteq 1..p /\ C \subseteq 1..q
    BY DEF TrueAt
  <2> HIDE DEF A, C
  <2> QED BY <2>1, <2>2, FS_Subset
<1>7. IsFiniteSet(B) /\ Cardinality(B) = Cardinality(C)
  <2> DEFINE f == [i \in C |-> i + p]
  <2>1. C \subseteq Nat
    BY <1>3 DEF TrueAt
  <2>2. \A i \in C : i + p \in B
    <3> SUFFICES ASSUME NEW i \in C PROVE i + p \in B
      OBVIOUS
    <3>1. i \in 1..q /\ r[i]
      BY DEF TrueAt
    <3>2. i + p \in p + 1..n
      BY <3>1 DEF q
    <3>3. s[i + p]
      BY <1>3, <3>1
    <3> QED BY <3>2, <3>3 DEF TrueAt
  <2>3. \A j \in B : \E i \in C : j = i + p
    <3> SUFFICES ASSUME NEW j \in B PROVE \E i \in C : j = i + p
      OBVIOUS
    <3>1. j \in p + 1..n /\ s[j]
      BY DEF TrueAt
    <3>2. j - p \in 1..q /\ (j - p) + p = j
      BY <3>1 DEF q
    <3>3. r[j - p] = s[j]
      BY <1>3, <3>2
    <3>4. j - p \in C
      BY <3>1, <3>2, <3>3 DEF TrueAt
    <3> QED BY <3>2, <3>4
  <2> HIDE DEF B, C
  <2>4. f \in Bijection(C, B)
    BY <2>1, <2>2, <2>3 DEF Bijection, Injection, Surjection, IsInjective
  <2>5. ExistsBijection(C, B)
    BY <2>4 DEF ExistsBijection
  <2> QED BY <1>6, <2>5, FS_Bijection
<1>8. Cardinality(A \cup B) = Cardinality(A) + Cardinality(B)
  <2> HIDE DEF A, B
  <2>1. Cardinality(A \cup B) = Cardinality(A) + Cardinality(B) - Cardinality(A \cap B)
    BY <1>6, <1>7, FS_Union
  <2>2. Cardinality(A \cap B) = 0
    BY <1>5, FS_EmptySet
  <2>3. Cardinality(A) \in Nat /\ Cardinality(B) \in Nat
    BY <1>6, <1>7, FS_CardinalityType
  <2> QED BY <2>1, <2>2, <2>3
<1>9. Count(s) = Count(l) + Count(r)
  <2>1. Count(s) = Cardinality(A \cup B)
    BY <1>5 DEF Count
  <2>2. Count(l) = Cardinality(A)
    BY <1>2, <1>4 DEF Count
  <2>3. Count(r) = Cardinality(C)
    BY <1>3 DEF Count
  <2> QED BY <2>1, <2>2, <2>3, <1>7, <1>8
<1> QED BY <1>2, <1>3, <1>9 DEF N!Wires, l, r, q

Nets == N!Wires \ {<<>>}
Half(s) == Len(s) \div 2
Left(s) == SubSeq(s, 1, Half(s))
Right(s) == SubSeq(s, Half(s) + 1, Len(s))
\* One step of sorting_network_rec, with g for what it calls.
NetBody(s, g) ==
  LET pivot == Len(s) \div 2 IN
  IF Len(s) = 1 THEN s
  ELSE IF Len(s) = 2 THEN N!sort_two(s[1], s[2])
  ELSE N!merge[<<g[SubSeq(s, 1, pivot)], g[SubSeq(s, pivot + 1, Len(s))]>>]

\* The halves that sorting_network_rec sorts are shorter.
LEMMA NetCalls ==
  ASSUME NEW s \in Nets, Len(s) # 1
  PROVE  /\ Len(s) \in Nat /\ Half(s) \in Nat /\ Half(s) < Len(s) /\ Len(s) - Half(s) \in Nat
         /\ Len(s) - Half(s) < Len(s)
         /\ Left(s) \in Nets /\ Len(Left(s)) = Half(s)
         /\ Right(s) \in Nets /\ Len(Right(s)) = Len(s) - Half(s)
         /\ Count(s) = Count(Left(s)) + Count(Right(s))
<1> DEFINE n == Len(s)
           p == Half(s)
           a == Left(s)
           b == Right(s)
<1>1. n \in Nat /\ n # 0 /\ n # 1
  BY LenProperties, EmptySeq DEF Nets, N!Wires
<1>2. /\ n >= 2 /\ p \in Nat /\ p >= 1 /\ p < n /\ n - p >= 1 /\ n - p < n /\ n - p \in Nat
      /\ p <= n
  <2>1. p = n \div 2
    BY DEF Half
  <2> HIDE DEF n, p
  <2> QED BY <1>1, <2>1
<1>3. /\ a \in N!Wires /\ Len(a) = p /\ b \in N!Wires /\ Len(b) = n - p
      /\ Count(s) = Count(a) + Count(b)
  <2>1. s \in N!Wires /\ Len(s) = n
    BY DEF Nets
  <2>2. a = SubSeq(s, 1, p) /\ b = SubSeq(s, p + 1, n)
    BY DEF Left, Right
  <2> HIDE DEF n, p, a, b
  <2> QED BY <1>1, <1>2, <2>1, <2>2, CountSplit
<1>4. Len(<<>>) = 0
  OBVIOUS
<1> HIDE DEF a, b, n, p
<1>5. a # <<>> /\ b # <<>>
  <2>1. Len(a) # 0 /\ Len(b) # 0
    BY <1>2, <1>3
  <2> QED BY <2>1, <1>4
<1>6. a \in Nets /\ b \in Nets
  BY <1>3, <1>5 DEF Nets
<1> QED BY <1>1, <1>2, <1>3, <1>6 DEF a, b, n, p

\* It merges what they become.
LEMMA NetBodyCalls ==
  ASSUME NEW s \in Nets, NEW g, Len(s) # 1, Len(s) # 2
  PROVE  NetBody(s, g) = N!merge[<<g[Left(s)], g[Right(s)]>>]
BY DEF NetBody, Left, Right, Half

\* sorting_network_rec satisfies its own definition.
LEMMA NetUnfolds ==
  \A s \in Nets : N!sorting_network_rec[s] = NetBody(s, N!sorting_network_rec)
<1> DEFINE R0 == N!Wires
           h == [s \in Nets |-> Len(s)]
           F == [x \in Nets \X [Nets -> R0] |-> NetBody(x[1], x[2])]
<1>1. h \in [Nets -> Nat]
  BY LenProperties DEF Nets, N!Wires
<1>2. ASSUME NEW s \in Nets, NEW g \in [Nets -> R0] PROVE NetBody(s, g) \in R0
  <2> DEFINE n == Len(s)
  <2>1. CASE n = 1
    BY <2>1 DEF NetBody, Nets
  <2>2. CASE n = 2
    <3>1. NetBody(s, g) = <<s[1] \/ s[2], s[1] /\ s[2]>>
      BY <2>2 DEF NetBody, N!sort_two
    <3>2. \A x, y \in BOOLEAN : <<x, y>> \in Seq(BOOLEAN)
      OBVIOUS
    <3>3. (s[1] \/ s[2]) \in BOOLEAN /\ (s[1] /\ s[2]) \in BOOLEAN
      OBVIOUS
    <3> QED BY <3>1, <3>2, <3>3 DEF N!Wires
  <2>3. CASE n # 1 /\ n # 2
    <3>1. Left(s) \in Nets /\ Right(s) \in Nets
      BY <2>3, NetCalls
    <3>2. NetBody(s, g) = N!merge[<<g[Left(s)], g[Right(s)]>>]
      BY <2>3, NetBodyCalls
    <3>3. <<g[Left(s)], g[Right(s)]>> \in Lists
      BY <3>1 DEF Lists
    <3> QED BY <3>2, <3>3, MergeUnfolds
  <2> QED BY <2>1, <2>2, <2>3
<1>3. F \in [Nets \X [Nets -> R0] -> R0]
  <2> HIDE DEF R0
  <2> QED BY <1>2
<1>4. ASSUME NEW s \in Nets, NEW g1 \in [Nets -> R0], NEW g2 \in [Nets -> R0],
             \A q \in Nets : h[q] < h[s] => g1[q] = g2[q]
      PROVE  F[<<s, g1>>] = F[<<s, g2>>]
  <2>1. F[<<s, g1>>] = NetBody(s, g1) /\ F[<<s, g2>>] = NetBody(s, g2)
    <3> HIDE DEF R0
    <3> QED OBVIOUS
  <2>2. CASE Len(s) = 1 \/ Len(s) = 2
    <3>1. NetBody(s, g1) = NetBody(s, g2)
      BY <2>2 DEF NetBody
    <3> QED BY <2>1, <3>1
  <2>3. CASE Len(s) # 1 /\ Len(s) # 2
    <3>1. /\ Left(s) \in Nets /\ Len(Left(s)) < Len(s)
          /\ Right(s) \in Nets /\ Len(Right(s)) < Len(s)
      BY <2>3, NetCalls
    <3>2. g1[Left(s)] = g2[Left(s)] /\ g1[Right(s)] = g2[Right(s)]
      BY <3>1, <1>4
    <3>3. /\ NetBody(s, g1) = N!merge[<<g1[Left(s)], g1[Right(s)]>>]
          /\ NetBody(s, g2) = N!merge[<<g2[Left(s)], g2[Right(s)]>>]
      BY <2>3, NetBodyCalls
    <3> QED BY <2>1, <3>2, <3>3
  <2> QED BY <2>2, <2>3
<1>5. R0 # {}
  BY <<>> \in N!Wires DEF N!Wires
<1>6. WellRecursive(Nets, R0, h, F)
  <2> HIDE DEF F, h, R0
  <2> QED BY <1>1, <1>3, <1>4, <1>5 DEF WellRecursive
<1>7. PICK f \in [Nets -> R0] : \A s \in Nets : f[s] = F[<<s, f>>]
  <2> HIDE DEF F, h, R0
  <2> QED BY <1>6, Recursion
<1> DEFINE Is(g) == g = [s \in Nets |-> NetBody(s, g)]
           c == CHOOSE g : Is(g)
<1>8. Is(f)
  <2>1. \A s \in Nets : f[s] = NetBody(s, f)
    <3> HIDE DEF R0
    <3> QED BY <1>7
  <2> QED BY <2>1
<1>9. Is(c)
  <2> HIDE DEF Is
  <2> QED BY <1>8
<1>10. N!sorting_network_rec = c
  BY DEF N!sorting_network_rec, NetBody, Nets
<1> HIDE DEF c
<1>11. \A s \in Nets : c[s] = NetBody(s, c)
  BY <1>9
<1> QED BY <1>10, <1>11

\* SortingNetwork::sorting_network_rec: for an input of any length the network
\* has the true inputs first, as many as there are.
THEOREM NetSorts ==
  ASSUME NEW s \in Nets
  PROVE  N!sorting_network_rec[s] = Sorted(Len(s), Count(s))
<1> DEFINE c == N!sorting_network_rec
           Good == {n \in Nat : \A q \in Nets : Len(q) = n => c[q] = Sorted(n, Count(q))}
<1>1. ASSUME NEW n \in Nat, \A m \in Nat : m < n => m \in Good PROVE n \in Good
  <2> SUFFICES ASSUME NEW q \in Nets, Len(q) = n PROVE c[q] = Sorted(n, Count(q))
    OBVIOUS
  <2>1. c[q] = NetBody(q, c)
    BY NetUnfolds
  <2>2. \A i \in 1..n : q[i] \in BOOLEAN
    BY ElementOfSeq DEF Nets, N!Wires
  <2>3. Count(q) \in Nat /\ Count(q) <= n
    BY CountProperties
  <2>4. q = [i \in 1..n |-> q[i]]
    BY LenProperties DEF Nets, N!Wires
  <2> HIDE DEF c
  <2>5. CASE n = 1
    <3>1. c[q] = q
      BY <2>1, <2>5 DEF NetBody
    <3>2. Count(q) = IF q[1] THEN 1 ELSE 0
      <4>1. 1..1 = {1}
        OBVIOUS
      <4>2. TrueAt(q, 1, 1) = IF q[1] THEN {1} ELSE {}
        BY <4>1 DEF TrueAt
      <4>3. Cardinality({}) = 0 /\ Cardinality({1}) = 1
        BY FS_EmptySet, FS_Singleton
      <4>4. Count(q) = Cardinality(TrueAt(q, 1, 1))
        BY <2>5 DEF Count
      <4> QED BY <4>2, <4>3, <4>4
    <3>3. \A i \in 1..n : q[i] = (i <= Count(q))
      <4>1. q[1] = (1 <= Count(q))
        BY <2>2, <2>5, <3>2
      <4>2. \A i \in 1..n : i = 1
        BY <2>5
      <4> QED BY <4>1, <4>2
    <3>4. q = Sorted(n, Count(q))
      BY <2>3, <2>4, <3>3, IsSorted
    <3> QED BY <3>1, <3>4
  <2>6. CASE n = 2
    <3> DEFINE a == q[1] \/ q[2]
               b == q[1] /\ q[2]
               k == Count(q)
    <3>1. c[q] = <<a, b>>
      <4>1. NetBody(q, c) = N!sort_two(q[1], q[2])
        BY <2>6 DEF NetBody
      <4>2. N!sort_two(q[1], q[2]) = <<a, b>>
        BY DEF N!sort_two
      <4> HIDE DEF a, b
      <4> QED BY <2>1, <4>1, <4>2
    <3>2. k = (IF q[1] THEN 1 ELSE 0) + (IF q[2] THEN 1 ELSE 0)
      <4>1. 1..2 = {1, 2}
        OBVIOUS
      <4>2. TrueAt(q, 1, 2) = (IF q[1] THEN {1} ELSE {}) \cup (IF q[2] THEN {2} ELSE {})
        BY <4>1 DEF TrueAt
      <4>3. Cardinality({}) = 0 /\ Cardinality({1}) = 1 /\ Cardinality({2}) = 1
            /\ Cardinality({1, 2}) = 2
        <5>1. IsFiniteSet({1}) /\ Cardinality({1}) = 1 /\ Cardinality({2}) = 1
          BY FS_Singleton
        <5>2. {1, 2} = {1} \cup {2} /\ 2 \notin {1}
          OBVIOUS
        <5>3. Cardinality({1} \cup {2}) = Cardinality({1}) + 1
          BY <5>1, <5>2, FS_AddElement
        <5>4. Cardinality({1, 2}) = 2
          <6>1. Cardinality({1, 2}) = 1 + 1
            BY <5>1, <5>2, <5>3, Zenon
          <6> QED BY <6>1
        <5>5. Cardinality({}) = 0
          BY FS_EmptySet
        <5> QED BY <5>1, <5>4, <5>5, Zenon
      <4>4. k = Cardinality(TrueAt(q, 1, 2))
        BY <2>6 DEF Count
      <4>5. CASE q[1] /\ q[2]
        <5>1. TrueAt(q, 1, 2) = {1, 2}
          BY <4>2, <4>5
        <5>2. k = 2
          BY <4>3, <4>4, <5>1
        <5>3. (IF q[1] THEN 1 ELSE 0) + (IF q[2] THEN 1 ELSE 0) = 2
          BY <4>5
        <5> HIDE DEF k
        <5> QED BY <5>2, <5>3
      <4>6. CASE q[1] /\ ~q[2]
        <5>1. TrueAt(q, 1, 2) = {1}
          BY <4>2, <4>6
        <5>2. k = 1
          BY <4>3, <4>4, <5>1
        <5>3. (IF q[1] THEN 1 ELSE 0) + (IF q[2] THEN 1 ELSE 0) = 1
          BY <4>6
        <5> HIDE DEF k
        <5> QED BY <5>2, <5>3
      <4>7. CASE ~q[1] /\ q[2]
        <5>1. TrueAt(q, 1, 2) = {2}
          BY <4>2, <4>7
        <5>2. k = 1
          BY <4>3, <4>4, <5>1
        <5>3. (IF q[1] THEN 1 ELSE 0) + (IF q[2] THEN 1 ELSE 0) = 1
          BY <4>7
        <5> HIDE DEF k
        <5> QED BY <5>2, <5>3
      <4>8. CASE ~q[1] /\ ~q[2]
        <5>1. TrueAt(q, 1, 2) = {}
          BY <4>2, <4>8
        <5> QED BY <4>3, <4>4, <4>8, <5>1
      <4> QED BY <4>5, <4>6, <4>7, <4>8
    <3>3. a \in BOOLEAN /\ b \in BOOLEAN
      OBVIOUS
    <3>4. a = (1 <= k) /\ b = (2 <= k)
      <4> HIDE DEF k
      <4>1. CASE q[1] /\ q[2]
        BY <3>2, <4>1
      <4>2. CASE q[1] /\ ~q[2]
        BY <3>2, <4>2
      <4>3. CASE ~q[1] /\ q[2]
        BY <3>2, <4>3
      <4>4. CASE ~q[1] /\ ~q[2]
        BY <3>2, <4>4
      <4> QED BY <4>1, <4>2, <4>3, <4>4
    <3>5. k \in Nat
      BY <2>3
    <3> HIDE DEF a, b, k
    <3>6. c[q] = Sorted(2, k)
      BY <3>1, <3>3, <3>4, <3>5, PairIs
    <3> QED BY <2>6, <3>6 DEF k
  <2>7. CASE n # 1 /\ n # 2
    <3> DEFINE p == Half(q)
               l == Left(q)
               r == Right(q)
               m == n - p
    <3>1. /\ p \in Nat /\ p < n /\ m \in Nat /\ m < n
          /\ l \in Nets /\ Len(l) = p /\ r \in Nets /\ Len(r) = m
          /\ Count(q) = Count(l) + Count(r)
      BY <2>7, NetCalls
    <3>2. c[q] = N!merge[<<c[l], c[r]>>]
      BY <2>1, <2>7, NetBodyCalls
    <3>4. p + m = n
      BY <3>1
    <3> HIDE DEF l, r, p, m
    <3>6. c[l] = Sorted(p, Count(l)) /\ c[r] = Sorted(m, Count(r))
      <4>1. p \in Good /\ m \in Good
        BY <1>1, <3>1
      <4> QED BY <4>1, <3>1
    <3>7. Count(l) \in Nat /\ Count(l) <= p /\ Count(r) \in Nat /\ Count(r) <= m
      BY <3>1, CountProperties
    <3>8. N!merge[<<Sorted(p, Count(l)), Sorted(m, Count(r))>>] = Sorted(p + m,
        Count(l) + Count(r))
      BY <3>1, <3>4, <3>7, MergeSorted
    <3> QED BY <3>1, <3>2, <3>4, <3>6, <3>8
  <2> QED BY <2>5, <2>6, <2>7
<1> HIDE DEF Good
<1>2. Nat \subseteq Good
  BY <1>1, StrongInduction
<1>3. Len(s) \in Good
  BY <1>2, LenProperties DEF Nets, N!Wires
<1> QED BY <1>3 DEF Good

\* Cardinality is the same operator in the module of the networks.
LEMMA NetworkCardinality ==
  ASSUME NEW X PROVE N!Cardinality(X) = Cardinality(X)
BY DEF N!Cardinality, Cardinality

\* The output has the true inputs first, and nothing was sorted or a list was.
NetInv ==
  /\ unsorted \in N!Wires
  /\ sorted = Sorted(Len(unsorted), Count(unsorted))

\* An output so sorted counts the true inputs.
LEMMA NetInvImplies == NetInv => N!CountsTrue
<1> SUFFICES ASSUME NetInv PROVE N!CountsTrue
  OBVIOUS
<1> DEFINE n == Len(unsorted)
           k == Count(unsorted)
<1>1. n \in Nat /\ DOMAIN unsorted = 1..n
  BY LenProperties DEF NetInv, N!Wires
<1>2. k \in Nat
  BY <1>1, CountProperties
<1>3. Len(sorted) = n /\ DOMAIN sorted = 1..n /\ \A i \in 1..n : sorted[i] = (i <= k)
  BY <1>1, <1>2, SortedProperties DEF NetInv
<1>4. k = N!Cardinality({i \in DOMAIN unsorted : unsorted[i]})
  BY <1>1, NetworkCardinality DEF Count, TrueAt
<1> HIDE DEF n, k
<1>5. ASSUME NEW i \in DOMAIN sorted
      PROVE  sorted[i] <=> N!Cardinality({j \in DOMAIN unsorted : unsorted[j]}) >= i
  <2>1. sorted[i] = (i <= k) /\ i \in Nat
    BY <1>3
  <2> QED BY <2>1, <1>2, <1>4
<1> QED BY <1>3, <1>5 DEF N!CountsTrue, n

\* Nothing sorted is sorted.
LEMMA NetInit == N!Init => NetInv
<1> SUFFICES ASSUME N!Init PROVE NetInv
  OBVIOUS
<1>1. unsorted = <<>> /\ sorted = <<>>
  BY DEF N!Init
<1>2. <<>> \in N!Wires /\ Len(<<>>) = 0
  BY DEF N!Wires
<1>3. Count(<<>>) \in Nat
  BY <1>2, CountProperties
<1>4. <<>> = Sorted(0, Count(<<>>))
  <2>1. <<>> = [i \in 1..0 |-> <<>>[i]] /\ 1..0 = {}
    OBVIOUS
  <2> QED BY <2>1, <1>3, IsSorted
<1> QED BY <1>1, <1>2, <1>4 DEF NetInv

\* sorting_network() on any input sorts it.
LEMMA NetStep == NetInv /\ [N!Next]_netVars => NetInv'
<1> SUFFICES ASSUME NetInv, [N!Next]_netVars PROVE NetInv'
  OBVIOUS
<1>1. CASE N!Next
  <2>0. PICK n \in 1..MaxLength : \E s \in [1..n -> BOOLEAN] :
          unsorted' = s /\ sorted' = N!sorting_network_rec[s]
    BY <1>1 DEF N!Next, N!sorting_network
  <2>1. PICK s \in [1..n -> BOOLEAN] :
          unsorted' = s /\ sorted' = N!sorting_network_rec[s]
    BY <2>0
  <2>2. n \in Nat /\ n >= 1
    OBVIOUS
  <2>3. s \in Seq(BOOLEAN)
    BY <2>2
  <2>4. Len(s) = n
    BY <2>2, <2>3, LenProperties
  <2>5. s \in Nets
    <3>1. s # <<>>
      BY <2>2, <2>4
    <3> QED BY <2>3, <3>1 DEF Nets, N!Wires
  <2>6. sorted' = Sorted(Len(s), Count(s))
    BY <2>1, <2>5, NetSorts
  <2> QED BY <2>1, <2>3, <2>6 DEF NetInv, N!Wires, Count, TrueAt
<1>2. CASE UNCHANGED netVars
  BY <1>2 DEF NetInv, netVars, Count, TrueAt
<1> QED BY <1>1, <1>2

------------------------------------------------------------------------------
(* The specification.                                                      *)

\* A step is one of each of the routines, or leaves it alone.
LEMMA StepOfEach ==
  ASSUME [Next]_vars
  PROVE  /\ [R!Next]_coreVars /\ [D!Next]_setVars /\ [N!Next]_netVars
         /\ Ask \/ UNCHANGED query
BY DEF Next, Reduce, Unite, Sort, Ask, vars, coreVars, setVars, netVars

\* UnsatCoreReducer, utils.cpp: for every sequence of calls, a call that returns
\* true leaves a part of the caller's assumptions that still contradicts the
\* formula, with every other one among the removed; one that returns false was
\* given assumptions that do not; and without a limit the linear method keeps
\* no assumption it could do without.
THEOREM CoresReduced == Spec => []Reduced
<1>1. Init => CoreInv
  BY CoreInit DEF Init
<1>2. UtilitiesAssumption /\ CoreInv /\ [Next]_vars => CoreInv'
  BY CoreStep, StepOfEach
<1>3. CoreInv => Reduced
  BY CoreInvImplies
<1> QED BY <1>1, <1>2, <1>3, UtilitiesAssumption, PTL DEF Spec

\* DisjointSet and SortingNetwork, utils.cpp and sorting_network.cpp: two terms
\* have one leader exactly when the pairs added since the last clear() connect
\* them, and the n-th output of the network for an input of any length is true
\* exactly when n of its elements are.
THEOREM SetsAndNetworksRight == Spec => []SetsAndNetworks
<1>1. Init => SetInv /\ NetInv
  BY SetInit, NetInit DEF Init
<1>2. SetInv /\ NetInv /\ [Next]_vars => SetInv' /\ NetInv'
  BY SetStep, NetStep, StepOfEach
<1>3. SetInv /\ NetInv => SetsAndNetworks
  BY SetInvImplies, NetInvImplies DEF SetsAndNetworks
<1> QED BY <1>1, <1>2, <1>3, PTL DEF Spec

\* sort_inference.cpp: for every operator of the library and arguments of any
\* sorts and any number, what check_sortedness accepts has in SMT-LIB the sort
\* that compute_sort returns, and what SMT-LIB allows is accepted, but for the
\* differences that SortInference names.
THEOREM SortsInferred == Spec => []Inferred
<1>1. Init => QueryInv
  BY DEF Init, QueryInv
<1>2. QueryInv /\ [Next]_vars => QueryInv'
  BY QueryStep, StepOfEach
<1>3. QueryInv => Inferred
  BY QueryInvImplies
<1> QED BY <1>1, <1>2, <1>3, PTL DEF Spec
=============================================================================
