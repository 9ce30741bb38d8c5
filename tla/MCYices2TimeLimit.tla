-------------------------- MODULE MCYices2TimeLimit --------------------------
(***************************************************************************)
(* Two solvers in one process, for TLC.                                    *)
(***************************************************************************)
EXTENDS Yices2TimeLimit
=============================================================================
