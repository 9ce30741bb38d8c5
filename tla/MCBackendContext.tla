-------------------------- MODULE MCBackendContext --------------------------
(* Two assignments; one formula that is a literal, one that is not, and    *)
(* the false one; a query assumes up to two of them; two clauses make      *)
(* MathSAT sweep.                                                          *)
EXTENDS BackendContext

CONSTANTS m1, m2

MCModels == {m1, m2}
MCFormulas == {{m1}, {m2}, {}}
MCLiterals == {{m1}}
MCAssumptions == {{{m1}}, {{m2}}, {{m1}, {m2}}}
=============================================================================
