---------------------------- MODULE MCSmtLibReader ----------------------------
(***************************************************************************)
(* Two names, one of which is also defined, so that symbols, aliases,      *)
(* definitions, arguments, parameters and bindings meet in one name.       *)
(***************************************************************************)
EXTENDS SmtLibReader
=============================================================================
