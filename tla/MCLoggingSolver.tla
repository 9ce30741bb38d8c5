--------------------------- MODULE MCLoggingSolver ---------------------------
(***************************************************************************)
(* A wrapped solver that rewrites and aliases as much as it can, in the    *)
(* manner of Boolector: Bool and the bit-vectors of width 1 are one sort,  *)
(* terms are normalised, so a wrapped term is one of the four functions of *)
(* the symbol x, the parameter px, the array symbol a, or an array value   *)
(* over one-bit indices; values and two Boolean functions share a bucket.  *)
(***************************************************************************)
EXTENDS LoggingSolver

MCWTerms == {"0", "1", "x", "nx", "px", "a", "00", "01", "10", "11"}
MCHash(w) == IF w \in {"0", "1", "x", "nx"} THEN 0 ELSE IF w \in {"px", "a"} THEN 1 ELSE 2
MCSorts == {"Bool", "BV1", "Array"}
MCValues == {<<"0", "BV1">>, <<"1", "BV1">>, <<"1", "Bool">>}
MCNames == {"x", "a"}
MCOps == {"Not", "And", "Store"}
Throws == "throws"

MCWSymbol(n, s) == IF n = "x" /\ s # "Array" THEN "x"
                   ELSE IF n = "a" /\ s = "Array" THEN "a" ELSE Throws
MCWParam(n, s) == IF n = "x" /\ s = "Bool" THEN "px" ELSE Throws

(* the values of a function of x at x = 0 and x = 1 *)
Column == [w \in {"0", "1", "x", "nx"} |->
             CASE w = "0" -> <<FALSE, FALSE>> [] w = "1" -> <<TRUE, TRUE>>
               [] w = "x" -> <<FALSE, TRUE>>  [] w = "nx" -> <<TRUE, FALSE>>]
OfColumn(f(_)) == CHOOSE w \in DOMAIN Column : \A i \in 1 .. 2 : Column[w][i] = f(i)

MCWApply(op, ws) ==
  LET Bits == \A i \in DOMAIN ws : ws[i] \in DOMAIN Column
      Neg(i) == ~Column[ws[1]][i]
      Conj(i) == Column[ws[1]][i] /\ Column[ws[2]][i]
  IN  CASE op = "Not" /\ Len(ws) = 1 /\ Bits -> OfColumn(Neg)
        [] op = "And" /\ Len(ws) = 2 /\ Bits -> OfColumn(Conj)
        [] op = "Store" /\ Len(ws) = 3 ->
             (CASE ws = <<"00", "0", "0">> -> "00" [] ws = <<"00", "0", "1">> -> "10"
                [] ws = <<"00", "1", "0">> -> "00" [] ws = <<"00", "1", "1">> -> "01"
                [] ws = <<"11", "0", "0">> -> "01" [] ws = <<"11", "0", "1">> -> "11"
                [] ws = <<"11", "1", "0">> -> "10" [] ws = <<"11", "1", "1">> -> "11"
                [] OTHER -> Throws)
        [] OTHER -> Throws

MCWConstArray(w, s) ==
  IF s # "Array" THEN Throws
  ELSE CASE w = "0" -> "00" [] w = "1" -> "11" [] OTHER -> Throws

(* Boolean operators take either sort of one bit, as long as it is the same *)
MCComputeSort(op, ss) ==
  IF op = "Store" THEN IF ss = <<"Array", "BV1", "BV1">> THEN "Array" ELSE Throws
  ELSE IF \A i \in DOMAIN ss : ss[i] = ss[1] THEN ss[1] ELSE Throws

MCIsArray(s) == s = "Array"
MCElemSort(s) == "BV1"
MCIndexSort(s) == "BV1"
MCHasValue(s) == TRUE
=============================================================================
