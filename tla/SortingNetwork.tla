--------------------------- MODULE SortingNetwork ---------------------------
(* SortingNetwork: the circuit of ors and ands, run on truth values. Which *)
(* gates it has depends on the length of the input alone, so that running  *)
(* it on every input says what the terms it returns mean.                  *)
EXTENDS Naturals, Sequences, FiniteSets

CONSTANT MaxLength  \* bound: inputs

VARIABLES unsorted, sorted
vars == <<unsorted, sorted>>

sort_two(t1, t2) == <<t1 \/ t2, t1 /\ t2>>

\* The elements at the odd places, counted from one, and at the even ones.
Odd(s) == [i \in 1..(Len(s) + 1) \div 2 |-> s[2 * i - 1]]
Even(s) == [i \in 1..Len(s) \div 2 |-> s[2 * i]]

\* What the merged halves become: the first odd one is in its place, the
\* others meet the even one before, and when the number is even the last of
\* the longer half, or else of the even one, is left over.
interleave(odd, even) ==
  LET n == Len(odd) + Len(even) IN
  [j \in 1..n |->
     IF j = 1 THEN odd[1]
     ELSE IF j = n /\ n % 2 = 0
          THEN IF Len(odd) = Len(even) THEN even[Len(even)] ELSE odd[Len(odd)]
          ELSE sort_two(odd[j \div 2 + 1], even[j \div 2])[1 + (j % 2)]]

Wires == Seq(BOOLEAN)

merge[p \in Wires \X Wires] ==
  LET sorted1 == p[1]
      sorted2 == p[2]
      len1 == Len(sorted1)
      len2 == Len(sorted2)
  IN IF len1 = 0 THEN sorted2
     ELSE IF len2 = 0 THEN sorted1
     ELSE IF len1 = 1 /\ len2 = 1 THEN sort_two(sorted1[1], sorted2[1])
     ELSE IF len1 % 2 = 1 /\ len2 % 2 = 0 THEN merge[<<sorted2, sorted1>>]
     ELSE interleave(merge[<<Odd(sorted1), Odd(sorted2)>>],
                     merge[<<Even(sorted1), Even(sorted2)>>])

sorting_network_rec[s \in Wires \ {<<>>}] ==
  LET pivot == Len(s) \div 2 IN
  IF Len(s) = 1 THEN s
  ELSE IF Len(s) = 2 THEN sort_two(s[1], s[2])
  ELSE merge[<<sorting_network_rec[SubSeq(s, 1, pivot)],
               sorting_network_rec[SubSeq(s, pivot + 1, Len(s))]>>]

Init == unsorted = <<>> /\ sorted = <<>>

sorting_network ==
  \E n \in 1..MaxLength : \E s \in [1..n -> BOOLEAN] :
    /\ unsorted = <<>>
    /\ unsorted' = s /\ sorted' = sorting_network_rec[s]

Next == sorting_network
Spec == Init /\ [][Next]_vars

\* The output has the length of the input, and its n-th element is true
\* exactly when n elements of the input or more are.
CountsTrue ==
  /\ Len(sorted) = Len(unsorted)
  /\ \A n \in DOMAIN sorted :
       sorted[n] <=> Cardinality({i \in DOMAIN unsorted : unsorted[i]}) >= n
=============================================================================
