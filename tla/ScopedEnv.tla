------------------------------ MODULE ScopedEnv ------------------------------
(***************************************************************************)
(* What a scoped symbol map promises (UnorderedScopedSymbolMap of          *)
(* include/smtlib_reader.h, for any client): an environment with one level *)
(* per open scope.  A name means what the level that binds it says, for as *)
(* long as that level is open, whatever is bound and closed above it.      *)
(***************************************************************************)
EXTENDS Naturals, Sequences

CONSTANTS
  Names,
  Terms,
  Counts         \* how many scopes one call opens or closes

VARIABLE env     \* per level, the terms of the names it binds

Init == env = << [n \in {} |-> {}] >>

Bound == UNION {DOMAIN env[i] : i \in 1 .. Len(env)}

Open(k) == env' = env \o [i \in 1 .. k |-> [n \in {} |-> {}]]

Close(k) ==
  /\ k < Len(env)
  /\ env' = SubSeq(env, 1, Len(env) - k)

Bind(n, t) ==
  /\ n \notin Bound
  /\ env' = [env EXCEPT ![Len(env)] =
               [x \in DOMAIN @ \cup {n} |-> IF x = n THEN t ELSE @[x]]]

Next ==
  \/ \E k \in Counts : Open(k) \/ Close(k)
  \/ \E n \in Names, t \in Terms : Bind(n, t)

Spec == Init /\ [][Next]_env
=============================================================================
