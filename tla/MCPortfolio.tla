----------------------------- MODULE MCPortfolio -----------------------------
(* Three solvers: one that decides the query or runs into its time limit,  *)
(* one that gives up with an explanation of its own, one that may throw    *)
(* or never come back.                                                     *)
EXTENDS Portfolio

CONSTANTS s1, s2, s3

MCSolvers == {s1, s2, s3}

Sat     == [result |-> "sat", explanation |-> "none"]
Timeout == [result |-> "unknown", explanation |-> "time limit"]
GaveUp  == [result |-> "unknown", explanation |-> "incomplete"]

MCCanReport ==
  [s \in MCSolvers |-> CASE s = s1 -> {Sat, Timeout}
                         [] s = s2 -> {GaveUp}
                         [] s = s3 -> {Sat}]

MCCanThrow == {s3}
MCHangs == {s3}
=============================================================================
