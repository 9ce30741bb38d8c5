--------------------------- MODULE MCGenericSolver ---------------------------
EXTENDS GenericSolver

(* A symbol and a parameter have one name, which is also the second one of *)
(* get_name; with "x" and "t_1" three things can have names of their own.  *)
MCNumbered == <<"t_1", "t_2">>

=============================================================================
