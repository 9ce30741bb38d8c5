---------------------------- MODULE DisjointSet ----------------------------
(* DisjointSet of utils.cpp: sets of equal terms, each with a leader that  *)
(* a ranking of the caller's chooses.                                      *)
EXTENDS Naturals, Sequences

CONSTANTS
  Terms,      \* the terms a caller adds
  comp(_, _), \* the ranking: should the first lead the second?
  MaxAdds     \* bound: calls of add

VARIABLES
  leader_,    \* from every member to the leader of its group
  group_,     \* from every leader to its group
  added       \* the pairs added since the last clear

vars == <<leader_, group_, added>>

Nothing == [t \in {} |-> t]
Init == leader_ = Nothing /\ group_ = Nothing /\ added = <<>>

\* f with k mapped to v, and without the keys in gone.
Put(f, k, v, gone) ==
  [t \in (DOMAIN f \cup {k}) \ gone |-> IF t = k THEN v ELSE f[t]]
Lead(l, members) ==
  [t \in DOMAIN leader_ \cup members |-> IF t \in members THEN l ELSE leader_[t]]

\* A fault to look for: only the old leader learns of the new one.
merge_leaders(la, lb) ==
  IF la = lb THEN UNCHANGED <<leader_, group_>>
  ELSE /\ leader_' = Lead(la, {lb})
       /\ group_' = Put(group_, la, group_[la] \cup group_[lb], {lb})

\* Both are known: of two groups one takes the other in.
merge(la, lb) ==
  IF la = lb THEN UNCHANGED <<leader_, group_>>
  ELSE LET winner == IF comp(la, lb) THEN la ELSE lb
           loser == IF winner = la THEN lb ELSE la
       IN /\ leader_' = Lead(winner, group_[loser])
          /\ group_' = Put(group_, winner, group_[la] \cup group_[lb], {loser})

\* One is known: the other joins its group, whatever the ranking says.
join(l, t) ==
  /\ leader_' = Lead(l, {t})
  /\ group_' = Put(group_, l, group_[l] \cup {t}, {})

\* Neither is: the ranking picks the leader of a new group.
found(a, b) ==
  LET l == IF comp(a, b) THEN a ELSE b IN
  /\ leader_' = Lead(l, {a, b})
  /\ group_' = Put(group_, l, {a, b}, {})

add(a, b) ==
  LET known == DOMAIN leader_ IN
  /\ Len(added) < MaxAdds
  /\ added' = Append(added, {a, b})
  /\ CASE {a, b} \subseteq known -> merge(leader_[a], leader_[b])
       [] a \in known /\ b \notin known -> join(leader_[a], b)
       [] b \in known /\ a \notin known -> join(leader_[b], a)
       [] OTHER -> found(a, b)

clear == leader_' = Nothing /\ group_' = Nothing /\ added' = <<>>

Next == (\E a, b \in Terms : add(a, b)) \/ clear
Spec == Init /\ [][Next]_vars

----------------------------------------------------------------------------
Pairs == {added[i] : i \in DOMAIN added}

\* Every set that no pair leaves and that has the one has the other as well.
Closed(set) == \A p \in Pairs : p \cap set # {} => p \subseteq set
Connected(a, b) == \A set \in SUBSET UNION Pairs : Closed(set) /\ a \in set => b \in set

\* Two terms have one leader exactly when the pairs added connect them; the
\* leader is one of them, and every group is the set of those it leads.
SameLeader ==
  /\ DOMAIN leader_ = UNION Pairs
  /\ \A a, b \in DOMAIN leader_ : leader_[a] = leader_[b] <=> Connected(a, b)
  /\ \A t \in DOMAIN leader_ : leader_[leader_[t]] = leader_[t]
  /\ DOMAIN group_ = {leader_[t] : t \in DOMAIN leader_}
  /\ \A l \in DOMAIN group_ : group_[l] = {t \in DOMAIN leader_ : leader_[t] = l}
=============================================================================
