--------------------------- MODULE MCYices2Context ---------------------------
(* Two assignments, the two formulas that tell them apart, the formula     *)
(* true and the trivially false one; levels counted modulo 8.              *)
EXTENDS Yices2Context

CONSTANTS m1, m2

MCModels == {m1, m2}
MCFormulas == SUBSET MCModels
=============================================================================
