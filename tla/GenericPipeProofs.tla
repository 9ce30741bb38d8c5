-------------------------- MODULE GenericPipeProofs --------------------------
(***************************************************************************)
(* run_command of GenericSolver over pipes of any size: for every set of   *)
(* commands and replies of the shapes CommandShape and ReplyShape, and for *)
(* buffers of any size, each call hands out the whole reply to its own     *)
(* command.                                                                *)
(***************************************************************************)
EXTENDS GenericPipe, TLAPS, SequenceTheorems, FiniteSetTheorems

Messages == [char : Chars, cmd : 1 .. MaxCommands]

-----------------------------------------------------------------------------
(* Sequences *)

(* The first n elements of b go to the end of a.                           *)
Moved(S, a, b, n) ==
  /\ SubSeq(b, n + 1, Len(b)) \in Seq(S)
  /\ Len(SubSeq(b, n + 1, Len(b))) = Len(b) - n
  /\ a \o SubSeq(b, 1, n) \in Seq(S)
  /\ Len(a \o SubSeq(b, 1, n)) = Len(a) + n
  /\ (a \o SubSeq(b, 1, n)) \o SubSeq(b, n + 1, Len(b)) = a \o b

(* That loses nothing.                                                     *)
LEMMA Cut ==
  ASSUME NEW S, NEW a \in Seq(S), NEW b \in Seq(S), NEW n \in 0 .. Len(b)
  PROVE  Moved(S, a, b, n)
<1> DEFINE p == SubSeq(b, 1, n)
           q == SubSeq(b, n + 1, Len(b))
<1>1. Len(a) \in Nat /\ Len(b) \in Nat /\ n \in Nat /\ n <= Len(b)
  BY LenProperties
<1>2. p \in Seq(S) /\ Len(p) = n /\ \A i \in 1 .. n : p[i] = b[i]
  <2>1. 1 \in Int /\ n \in Int /\ \A i \in 1 .. n : b[i] \in S
    BY <1>1, ElementOfSeq
  <2>2. /\ p \in Seq(S)
        /\ Len(p) = IF 1 <= n THEN n - 1 + 1 ELSE 0
        /\ \A i \in 1 .. n - 1 + 1 : p[i] = b[1 + i - 1]
    BY <2>1, SubSeqProperties
  <2> HIDE DEF p
  <2> QED BY <1>1, <2>2
<1>3. q \in Seq(S) /\ Len(q) = Len(b) - n /\ \A i \in 1 .. Len(b) - n : q[i] = b[n + i]
  <2>1. n + 1 \in Int /\ Len(b) \in Int /\ \A i \in n + 1 .. Len(b) : b[i] \in S
    BY <1>1, ElementOfSeq
  <2>2. /\ q \in Seq(S)
        /\ Len(q) = IF n + 1 <= Len(b) THEN Len(b) - (n + 1) + 1 ELSE 0
        /\ \A i \in 1 .. Len(b) - (n + 1) + 1 : q[i] = b[(n + 1) + i - 1]
    BY <2>1, SubSeqProperties
  <2> HIDE DEF q
  <2>3. \A i \in 1 .. Len(b) - n : i \in Int /\ (n + 1) + i - 1 = n + i
    BY <1>1
  <2> QED BY <1>1, <2>2, <2>3
<1> HIDE DEF p, q
<1>4. p \o q = b
  <2>1. /\ p \o q \in Seq(S) /\ Len(p \o q) = Len(p) + Len(q)
        /\ \A i \in 1 .. Len(p) + Len(q) :
             (p \o q)[i] = IF i <= Len(p) THEN p[i] ELSE q[i - Len(p)]
    BY <1>2, <1>3, ConcatProperties
  <2>2. Len(p \o q) = Len(b)
    BY <1>1, <1>2, <1>3, <2>1
  <2>3. ASSUME NEW i \in 1 .. Len(b) PROVE (p \o q)[i] = b[i]
    <3>1. CASE i <= n
      BY <1>1, <1>2, <1>3, <2>1, <3>1
    <3>2. CASE ~(i <= n)
      <4>1. i - n \in 1 .. Len(b) - n /\ n + (i - n) = i
        BY <1>1, <3>2
      <4> QED BY <1>1, <1>2, <1>3, <2>1, <3>2, <4>1
    <3> QED BY <3>1, <3>2
  <2> QED BY <2>1, <2>2, <2>3, SeqEqual
<1>5. (a \o p) \o q = a \o (p \o q)
  BY <1>2, <1>3, ConcatAssociative
<1>6. a \o p \in Seq(S) /\ Len(a \o p) = Len(a) + Len(p)
  BY <1>2, ConcatProperties
<1> QED BY <1>2, <1>3, <1>4, <1>5, <1>6 DEF p, q, Moved

(* The smaller of two lengths.                                             *)
LEMMA SmallerType ==
  ASSUME NEW a \in Nat, NEW b \in Nat
  PROVE  /\ Smaller(a, b) \in 0 .. a /\ Smaller(a, b) <= b
         /\ a > 0 /\ b > 0 => Smaller(a, b) > 0
BY DEF Smaller

(* What a and b are together, a is at the beginning of.                    *)
LEMMA Front ==
  ASSUME NEW S, NEW a \in Seq(S), NEW b \in Seq(S)
  PROVE  /\ a \o b \in Seq(S)
         /\ Len(a) \in Nat /\ Len(b) \in Nat /\ Len(a \o b) = Len(a) + Len(b)
         /\ \A i \in 1 .. Len(a) : (a \o b)[i] = a[i]
         /\ \A i \in Len(a) + 1 .. Len(a) + Len(b) : (a \o b)[i] = b[i - Len(a)]
<1>1. Len(a) \in Nat /\ Len(b) \in Nat
  BY LenProperties
<1>2. /\ a \o b \in Seq(S) /\ Len(a \o b) = Len(a) + Len(b)
      /\ \A i \in 1 .. Len(a) + Len(b) :
           (a \o b)[i] = IF i <= Len(a) THEN a[i] ELSE b[i - Len(a)]
  BY ConcatProperties
<1>3. \A i \in 1 .. Len(a) : (a \o b)[i] = a[i]
  BY <1>1, <1>2
<1>4. \A i \in Len(a) + 1 .. Len(a) + Len(b) : (a \o b)[i] = b[i - Len(a)]
  BY <1>1, <1>2
<1> QED BY <1>1, <1>2, <1>3, <1>4

(* An empty sequence is the one of length 0.                               *)
LEMMA NoLength ==
  ASSUME NEW S, NEW s \in Seq(S), Len(s) = 0
  PROVE  s = <<>>
BY EmptySeq

(* What the binary holds to answer a command with.                         *)
LEMMA TaggedType ==
  ASSUME NEW r \in Seq(Chars), NEW n \in 1 .. MaxCommands
  PROVE  /\ Tagged(r, n) \in Seq(Messages)
         /\ Len(r) \in Nat /\ Len(Tagged(r, n)) = Len(r)
         /\ \A i \in 1 .. Len(r) : Tagged(r, n)[i].char = r[i] /\ Tagged(r, n)[i].cmd = n
<1>1. Len(r) \in Nat /\ \A i \in 1 .. Len(r) : r[i] \in Chars
  BY LenProperties, ElementOfSeq
<1>2. \A i \in 1 .. Len(r) : [char |-> r[i], cmd |-> n] \in Messages
  BY <1>1 DEF Messages
<1>3. Tagged(r, n) \in [1 .. Len(r) -> Messages]
  BY <1>2 DEF Tagged
<1>4. Tagged(r, n) \in Seq(Messages) /\ Len(Tagged(r, n)) = Len(r)
  BY <1>1, <1>3
<1> QED BY <1>1, <1>4 DEF Tagged

-----------------------------------------------------------------------------
(* Parentheses *)

(* How often ch is among the first k characters of s.                      *)
Count(s, ch, k) == Cardinality({i \in 1 .. k : s[i] = ch})

(* A character more is counted once, if it is the one that counts.         *)
LEMMA CountNext ==
  ASSUME NEW s, NEW ch, NEW k \in Nat
  PROVE  /\ Count(s, ch, k) \in Nat
         /\ s[k + 1] = ch => Count(s, ch, k + 1) = Count(s, ch, k) + 1
         /\ s[k + 1] # ch => Count(s, ch, k + 1) = Count(s, ch, k)
<1> DEFINE A == {i \in 1 .. k : s[i] = ch}
           B == {i \in 1 .. k + 1 : s[i] = ch}
<1>1. IsFiniteSet(A) /\ Cardinality(A) \in Nat
  <2>1. IsFiniteSet(1 .. k)
    BY FS_Interval
  <2>2. A \in SUBSET (1 .. k)
    OBVIOUS
  <2>3. IsFiniteSet(A)
    BY <2>1, <2>2, FS_Subset
  <2> QED BY <2>3, FS_CardinalityType
<1>2. k + 1 \notin A
  OBVIOUS
<1>3. s[k + 1] = ch => B = A \cup {k + 1}
  OBVIOUS
<1>4. s[k + 1] # ch => B = A
  OBVIOUS
<1> HIDE DEF A, B
<1>5. Cardinality(A \cup {k + 1}) = Cardinality(A) + 1
  BY <1>1, <1>2, FS_AddElement
<1>6. Count(s, ch, k) = Cardinality(A) /\ Count(s, ch, k + 1) = Cardinality(B)
  BY DEF Count, A, B
<1> QED BY <1>1, <1>3, <1>4, <1>5, <1>6

(* Opened and Closed count in the front of a text.                         *)
LEMMA CountFront ==
  ASSUME NEW s \in Seq(Chars), NEW k \in 0 .. Len(s)
  PROVE  /\ Opened(SubSeq(s, 1, k)) = Count(s, "(", k)
         /\ Closed(SubSeq(s, 1, k)) = Count(s, ")", k)
<1>1. Len(s) \in Nat /\ k \in Nat /\ 1 \in Int /\ k \in Int
      /\ \A i \in 1 .. k : s[i] \in Chars
  BY LenProperties, ElementOfSeq
<1>2. /\ Len(SubSeq(s, 1, k)) = IF 1 <= k THEN k - 1 + 1 ELSE 0
      /\ \A i \in 1 .. k - 1 + 1 : SubSeq(s, 1, k)[i] = s[1 + i - 1]
  BY <1>1, SubSeqProperties
<1> DEFINE p == SubSeq(s, 1, k)
<1>3. Len(p) = k /\ \A i \in 1 .. k : p[i] = s[i]
  BY <1>1, <1>2
<1> HIDE DEF p
<1>4. {i \in 1 .. Len(p) : p[i] = "("} = {i \in 1 .. k : s[i] = "("}
  BY <1>3
<1>5. {i \in 1 .. Len(p) : p[i] = ")"} = {i \in 1 .. k : s[i] = ")"}
  BY <1>3
<1> QED BY <1>4, <1>5 DEF Opened, Closed, Count, p

(* Before the first character nothing is open.                             *)
LEMMA NothingOpen ==
  ASSUME NEW c \in Seq(Chars)
  PROVE  Opened(SubSeq(c, 1, 0)) = 0 /\ Closed(SubSeq(c, 1, 0)) = 0
<1>1. {i \in 1 .. 0 : c[i] = "("} = {} /\ {i \in 1 .. 0 : c[i] = ")"} = {}
  OBVIOUS
<1>2. Count(c, "(", 0) = 0 /\ Count(c, ")", 0) = 0
  BY <1>1, FS_EmptySet DEF Count
<1>3. 0 \in 0 .. Len(c)
  BY LenProperties
<1> QED BY <1>2, <1>3, CountFront

(* What BinaryReads does with the next character of a command: the depth   *)
(* stays above 0 up to the last one, which closes it.                      *)
LEMMA DepthNext ==
  ASSUME NEW c \in Commands, NEW k \in 0 .. Len(c) - 1, NEW d \in Nat,
         d + Closed(SubSeq(c, 1, k)) = Opened(SubSeq(c, 1, k))
  PROVE  /\ c[k + 1] = "(" => d + 1 + Closed(SubSeq(c, 1, k + 1)) = Opened(SubSeq(c, 1, k + 1))
         /\ c[k + 1] = ")" => /\ d > 0
                              /\ d - 1 + Closed(SubSeq(c, 1, k + 1)) = Opened(SubSeq(c, 1, k + 1))
                              /\ d - 1 = 0 <=> k + 1 = Len(c)
         /\ c[k + 1] \notin {"(", ")"} =>
              /\ d + Closed(SubSeq(c, 1, k + 1)) = Opened(SubSeq(c, 1, k + 1))
         /\ k + 1 = Len(c) => c[k + 1] = ")"
<1>1. /\ c \in Seq(Chars) /\ Len(c) \in Nat /\ c[Len(c)] = ")" /\ Opened(c) = Closed(c)
      /\ \A j \in 1 .. Len(c) - 1 : Opened(SubSeq(c, 1, j)) > Closed(SubSeq(c, 1, j))
  BY CommandShape, LenProperties DEF CommandShape
<1>2. k \in Nat /\ k \in 0 .. Len(c) /\ k + 1 \in 0 .. Len(c) /\ k + 1 \in Nat
  BY <1>1
<1>3. PICK o : o = Count(c, "(", k)
  OBVIOUS
<1>4. PICK p : p = Count(c, ")", k)
  OBVIOUS
<1>5. PICK o1 : o1 = Count(c, "(", k + 1)
  OBVIOUS
<1>6. PICK p1 : p1 = Count(c, ")", k + 1)
  OBVIOUS
<1>7. /\ o \in Nat /\ p \in Nat
      /\ c[k + 1] = "(" => o1 = o + 1
      /\ c[k + 1] # "(" => o1 = o
      /\ c[k + 1] = ")" => p1 = p + 1
      /\ c[k + 1] # ")" => p1 = p
  BY <1>2, <1>3, <1>4, <1>5, <1>6, CountNext
<1>8. /\ Opened(SubSeq(c, 1, k)) = o /\ Closed(SubSeq(c, 1, k)) = p
      /\ Opened(SubSeq(c, 1, k + 1)) = o1 /\ Closed(SubSeq(c, 1, k + 1)) = p1
  BY <1>1, <1>2, <1>3, <1>4, <1>5, <1>6, CountFront
<1>9. d + p = o
  BY <1>8
<1>10. k + 1 # Len(c) => o1 > p1
  <2>1. k + 1 # Len(c) => k + 1 \in 1 .. Len(c) - 1
    BY <1>1, <1>2
  <2> QED BY <1>1, <1>8, <2>1
<1>11. k + 1 = Len(c) => o1 = p1 /\ c[k + 1] = ")"
  <2>1. SubSeq(c, 1, Len(c)) = c
    BY <1>1, SubSeqFull
  <2> QED BY <1>1, <1>8, <2>1
<1>12. o1 \in Nat /\ p1 \in Nat
  BY <1>7
<1>13. c[k + 1] = "(" => d + 1 + p1 = o1
  BY <1>7, <1>9
<1>14. c[k + 1] = ")" => d > 0 /\ d - 1 + p1 = o1 /\ (d - 1 = 0 <=> k + 1 = Len(c))
  <2> SUFFICES ASSUME c[k + 1] = ")"
               PROVE  d > 0 /\ d - 1 + p1 = o1 /\ (d - 1 = 0 <=> k + 1 = Len(c))
    OBVIOUS
  <2>1. o1 = o /\ p1 = p + 1
    BY <1>7
  <2>2. o1 = p1 \/ o1 > p1
    BY <1>10, <1>11
  <2>3. d > 0 /\ d - 1 + p1 = o1
    BY <1>7, <1>9, <2>1, <2>2
  <2>4. d - 1 = 0 <=> o1 = p1
    BY <1>12, <2>3
  <2>5. o1 = p1 <=> k + 1 = Len(c)
    BY <1>10, <1>11, <1>12
  <2> QED BY <2>3, <2>4, <2>5
<1>15. c[k + 1] \notin {"(", ")"} => d + p1 = o1
  BY <1>7, <1>9
<1> QED BY <1>8, <1>11, <1>13, <1>14, <1>15

(* A reply is done when all of it is read, and not before.                 *)
LEMMA DoneAtTheEnd ==
  ASSUME NEW r \in Replies, NEW l \in 1 .. Len(r), NEW n \in 1 .. l
  PROVE  is_done(n, SubSeq(r, 1, l)) <=> l = Len(r)
<1>1. /\ r \in Seq(Chars) /\ Len(r) \in Nat
      /\ r[1] = "(" => \A k \in 1 .. Len(r) : DoneInParentheses(SubSeq(r, 1, k)) <=> k = Len(r)
      /\ r[1] # "(" => \A k \in 1 .. Len(r) : r[k] = Newline <=> k = Len(r)
  BY ReplyShape, LenProperties DEF ReplyShape
<1>2. l \in Nat /\ n \in Nat /\ n > 0 /\ 1 \in Int /\ l \in Int
      /\ \A i \in 1 .. l : r[i] \in Chars
  BY <1>1, ElementOfSeq
<1> DEFINE t == SubSeq(r, 1, l)
<1>3. Len(t) = l /\ \A i \in 1 .. l : t[i] = r[i]
  <2>1. /\ Len(t) = IF 1 <= l THEN l - 1 + 1 ELSE 0
        /\ \A i \in 1 .. l - 1 + 1 : t[i] = r[1 + i - 1]
    BY <1>2, SubSeqProperties
  <2> HIDE DEF t
  <2> QED BY <1>2, <2>1
<1>4. n # 0 /\ t[1] = r[1] /\ 1 \in 1 .. l
  BY <1>2, <1>3
<1>5. CASE r[1] = "("
  <2>1. DoneInParentheses(t) <=> l = Len(r)
    BY <1>1, <1>5
  <2> HIDE DEF t
  <2>2. is_done(n, t) <=> DoneInParentheses(t)
    BY <1>4, <1>5 DEF is_done
  <2> QED BY <2>1, <2>2 DEF t
<1>6. CASE r[1] # "("
  <2>1. \A k \in 1 .. Len(r) : r[k] = Newline <=> k = Len(r)
    BY <1>1, <1>6
  <2> HIDE DEF t
  <2>2. is_done(n, t) <=> \E i \in l - n + 1 .. l : t[i] = Newline
    BY <1>3, <1>4, <1>6 DEF is_done, NewlineJustRead
  <2>3. \A i \in l - n + 1 .. l : i \in 1 .. l /\ i \in 1 .. Len(r) /\ t[i] = r[i]
    BY <1>1, <1>2, <1>3
  <2>4. \A i \in l - n + 1 .. l : t[i] = Newline <=> i = Len(r)
    BY <2>1, <2>3
  <2>5. (\E i \in l - n + 1 .. l : i = Len(r)) <=> l = Len(r)
    BY <1>1, <1>2
  <2> QED BY <2>2, <2>4, <2>5 DEF t
<1> QED BY <1>5, <1>6

-----------------------------------------------------------------------------
(* The steps *)

(* The pipes and buffers hold texts.                                       *)
LEMMA Texts ==
  ASSUME TypeOK
  PROVE  /\ todo \in Seq(Chars) /\ outpipe \in Seq(Chars)
         /\ result \in Seq(Messages) /\ inpipe \in Seq(Messages) /\ printing \in Seq(Messages)
         /\ Len(todo) \in Nat /\ Len(outpipe) \in Nat
         /\ Len(result) \in Nat /\ Len(inpipe) \in Nat /\ Len(printing) \in Nat
<1>1. /\ todo \in Seq(Chars) /\ outpipe \in Seq(Chars)
      /\ result \in Seq(Messages) /\ inpipe \in Seq(Messages) /\ printing \in Seq(Messages)
  BY DEF TypeOK, Messages
<1> QED BY <1>1, LenProperties

(* The types of a state, with the set of what a message is by its name.    *)
LEMMA TypesFrom ==
  ASSUME pc \in {"write", "read", "idle", "closed", "killed"}, sent \in 1 .. MaxCommands,
         todo \in Seq(Chars), outpipe \in Seq(Chars),
         pc \in {"read", "idle", "closed"} => todo = <<>>,
         result \in Seq(Messages), inpipe \in Seq(Messages), printing \in Seq(Messages),
         asked \in Replies \cup {<<>>},
         peer \in {"starting", "binary", "gone", "copy"},
         depth \in Nat, copies \in 1 .. 2
  PROVE  TypeOK
BY DEF TypeOK, Messages

(* The reply that is on its way, and how far it got.                       *)
LEMMA OnItsWay ==
  ASSUME TypeOK, Answering
  PROVE  /\ asked \in Seq(Chars) /\ Len(asked) \in Nat /\ Len(asked) > 0
         /\ Tagged(asked, sent) \in Seq(Messages)
         /\ Len(result) + Len(inpipe) + Len(printing) = Len(asked)
         /\ \A i \in 1 .. Len(result) : result[i] = Tagged(asked, sent)[i]
<1>1. /\ asked \in Replies /\ asked \in Seq(Chars) /\ asked # <<>>
      /\ (result \o inpipe) \o printing = Tagged(asked, sent)
  BY ReplyShape DEF ReplyShape, Answering
<1>2. Len(asked) \in Nat /\ Len(asked) > 0
  BY <1>1, EmptySeq, LenProperties
<1>3. Tagged(asked, sent) \in Seq(Messages) /\ Len(Tagged(asked, sent)) = Len(asked)
  BY <1>1, TaggedType DEF TypeOK
<1>4. /\ result \in Seq(Messages) /\ inpipe \in Seq(Messages) /\ printing \in Seq(Messages)
      /\ Len(result) \in Nat /\ Len(inpipe) \in Nat /\ Len(printing) \in Nat
  BY Texts
<1> DEFINE a == result \o inpipe
<1>5. /\ a \in Seq(Messages) /\ Len(a) = Len(result) + Len(inpipe)
      /\ \A i \in 1 .. Len(result) : a[i] = result[i]
  BY <1>4, Front
<1> HIDE DEF a
<1>6. /\ Len(a \o printing) = Len(a) + Len(printing)
      /\ \A i \in 1 .. Len(a) : (a \o printing)[i] = a[i]
  <2>1. a \in Seq(Messages) /\ printing \in Seq(Messages)
    BY <1>4, <1>5
  <2> QED BY <2>1, Front
<1>7. a \o printing = Tagged(asked, sent)
  BY <1>1 DEF a
<1>8. \A i \in 1 .. Len(result) : result[i] = Tagged(asked, sent)[i]
  <2>1. \A i \in 1 .. Len(result) : i \in 1 .. Len(a)
    BY <1>4, <1>5
  <2> QED BY <1>5, <1>6, <1>7, <2>1
<1> QED BY <1>1, <1>2, <1>3, <1>4, <1>5, <1>6, <1>7, <1>8

(* The characters the binary has not read.                                 *)
LEMMA UnreadType ==
  ASSUME TypeOK
  PROVE  Unread \in Seq(Chars) /\ Len(Unread) = Len(outpipe) + Len(todo)
BY Texts, Front DEF Unread

(* The next command follows at most a newline of the last one.             *)
LEMMA RunKeeps ==
  ASSUME IInv, NEW c \in Commands, run_command(c)
  PROVE  IInv'
<1>1. /\ pc = "idle" /\ sent < MaxCommands /\ pc' = "write" /\ sent' = sent + 1
      /\ todo' = Append(c, Newline) /\ result' = <<>>
      /\ peer' = peer /\ depth' = depth /\ printing' = printing /\ asked' = asked
      /\ outpipe' = outpipe /\ inpipe' = inpipe /\ copies' = copies
  BY DEF run_command, binary
<1>2. c \in Seq(Chars) /\ Newline \in Chars /\ Len(c) \in Nat /\ Len(c) > 0
  <2>1. c \in Seq(Chars) /\ c # <<>>
    BY CommandShape DEF CommandShape
  <2> QED BY <2>1, EmptySeq, LenProperties DEF Chars
<1>3. /\ todo' \in Seq(Chars) /\ Len(todo') = Len(c) + 1
      /\ \A i \in 1 .. Len(c) : todo'[i] = c[i]
      /\ todo'[Len(c) + 1] = Newline
  BY <1>1, <1>2, AppendProperties
<1>4. TypeOK'
  <2>1. sent' \in 1 .. MaxCommands
    BY <1>1, BufferSizes DEF BufferSizes, IInv, TypeOK
  <2>2. result' \in Seq(Messages)
    BY <1>1
  <2> QED
    BY <1>1, <1>3, <2>1, <2>2 DEF IInv, TypeOK, Messages
<1>5. ASSUME peer \in {"starting", "binary"}
      PROVE  Asking'
  <2>1. TypeOK /\ Answering
    BY <1>1, <1>5 DEF IInv, Asking
  <2>2. Len(result) = Len(asked)
    BY <1>1, <2>1 DEF Answering
  <2>3. /\ todo = <<>> /\ outpipe \in Seq(Chars) /\ Len(outpipe) \in Nat
        /\ inpipe \in Seq(Messages) /\ printing \in Seq(Messages)
        /\ Len(inpipe) \in Nat /\ Len(printing) \in Nat
    BY <1>1, <2>1, Texts DEF TypeOK
  <2>4. Len(inpipe) = 0 /\ Len(printing) = 0
    BY <2>1, <2>2, <2>3, OnItsWay
  <2>5. inpipe = <<>> /\ printing = <<>>
    BY <2>3, <2>4, NoLength
  <2>6. Unread = outpipe
    BY <2>3, ConcatEmptySeq DEF Unread
  <2>7. Len(outpipe) \in {0, 1} /\ \A i \in 1 .. Len(outpipe) : outpipe[i] = Newline
    <3>1. Len(outpipe) <= 1 /\ \A i \in 1 .. Len(outpipe) : outpipe[i] = Newline
      BY <2>1, <2>6 DEF Answering
    <3>2. Len(outpipe) \in Nat
      BY <2>3
    <3>3. \A j \in Nat : j <= 1 => j \in {0, 1}
      OBVIOUS
    <3> QED BY <3>1, <3>2, <3>3
  <2>8. /\ Len(Unread') = Len(outpipe) + Len(c) + 1
        /\ \A i \in 1 .. Len(outpipe) : Unread'[i] = Newline
        /\ \A i \in Len(outpipe) + 1 .. Len(outpipe) + Len(c) + 1 :
             Unread'[i] = todo'[i - Len(outpipe)]
    <3>1. Unread' = outpipe \o todo'
      BY <1>1 DEF Unread
    <3> HIDE DEF Unread
    <3>2. /\ Len(outpipe \o todo') = Len(outpipe) + Len(todo')
          /\ \A i \in 1 .. Len(outpipe) : (outpipe \o todo')[i] = outpipe[i]
          /\ \A i \in Len(outpipe) + 1 .. Len(outpipe) + Len(todo') :
               (outpipe \o todo')[i] = todo'[i - Len(outpipe)]
      BY <1>3, <2>3, Front
    <3> QED BY <1>2, <1>3, <2>3, <2>7, <3>1, <3>2
  <2>9. Rest(Unread', Len(outpipe), c, 0)
    <3>1. PICK m : m = Len(outpipe)
      OBVIOUS
    <3>2. PICK u : u = Unread'
      OBVIOUS
    <3>3. ASSUME NEW i \in 1 .. Len(u)
          PROVE  u[i] = IF m < i /\ i + 0 <= m + Len(c) THEN c[i + 0 - m] ELSE Newline
      <4>1. i \in Nat /\ m \in Nat /\ i <= m + Len(c) + 1 /\ i > 0
        BY <1>2, <2>3, <2>8, <3>1, <3>2
      <4>2. CASE i <= m
        <5>1. u[i] = Newline
          BY <2>8, <3>1, <3>2, <4>1, <4>2
        <5> QED BY <4>1, <4>2, <5>1
      <4>3. CASE m < i /\ i <= m + Len(c)
        <5>1. i - m \in 1 .. Len(c)
          BY <1>2, <4>1, <4>3
        <5>2. u[i] = todo'[i - m]
          BY <1>2, <2>8, <3>1, <3>2, <4>1, <4>3
        <5>3. u[i] = c[i - m]
          BY <1>3, <5>1, <5>2
        <5>4. i + 0 = i /\ i + 0 - m = i - m
          BY <4>1
        <5> QED BY <4>3, <5>3, <5>4
      <4>4. CASE i = m + Len(c) + 1
        <5>1. i - m = Len(c) + 1 /\ ~(i + 0 <= m + Len(c))
          BY <1>2, <4>1, <4>4
        <5>2. u[i] = todo'[i - m]
          BY <1>2, <2>8, <3>1, <3>2, <4>1, <4>4
        <5> QED BY <1>3, <5>1, <5>2
      <4> QED BY <1>2, <4>1, <4>2, <4>3, <4>4
    <3>4. Len(u) = m + Len(c) + 1 - 0
      BY <1>2, <2>3, <2>8, <3>1, <3>2
    <3> QED BY <3>1, <3>2, <3>3, <3>4 DEF Rest
  <2>10. depth' + Closed(SubSeq(c, 1, 0)) = Opened(SubSeq(c, 1, 0))
    <3>1. depth' = 0
      BY <1>1, <2>1 DEF Answering
    <3> QED BY <1>2, <3>1, NothingOpen
  <2>11. 0 \in 0 .. Len(c) - 1 /\ todo' # <<>>
    <3>1. todo' # <<>>
      BY <1>2, <1>3, EmptySeq
    <3> QED BY <1>2, <3>1
  <2>12. \E d \in Commands : \E m \in {0, 1}, k \in 0 .. Len(d) - 1 :
           /\ m = 1 => k = 0
           /\ Rest(Unread', m, d, k)
           /\ depth' + Closed(SubSeq(d, 1, k)) = Opened(SubSeq(d, 1, k))
    BY <2>7, <2>9, <2>10, <2>11
  <2> QED BY <1>1, <2>5, <2>11, <2>12 DEF Asking
<1> QED BY <1>1, <1>4, <1>5 DEF IInv

(* Writing a piece leaves the binary as much to read as before.            *)
LEMMA WriteKeeps ==
  ASSUME IInv, write_internal
  PROVE  IInv'
<1> DEFINE n == Smaller(Len(todo), WriteBufSize)
<1>1. /\ pc = "write" /\ sent' = sent /\ result' = result /\ inpipe' = inpipe
      /\ peer' = peer /\ depth' = depth /\ printing' = printing /\ asked' = asked
      /\ copies' = copies
  BY DEF write_internal, binary
<1>2. \/ /\ peer # "gone"
         /\ outpipe' = outpipe \o SubSeq(todo, 1, n)
         /\ todo' = SubSeq(todo, n + 1, Len(todo))
         /\ pc' = IF todo' = <<>> THEN "read" ELSE "write"
      \/ /\ peer = "gone" /\ pc' = "killed" /\ todo' = todo /\ outpipe' = outpipe
  BY DEF write_internal
<1>3. /\ todo \in Seq(Chars) /\ outpipe \in Seq(Chars) /\ n \in 0 .. Len(todo)
  <2>1. /\ todo \in Seq(Chars) /\ outpipe \in Seq(Chars) /\ Len(todo) \in Nat
        /\ WriteBufSize \in Nat
    BY Texts, BufferSizes DEF IInv, BufferSizes
  <2> QED BY <2>1, SmallerType
<1> HIDE DEF n
<1>4. CASE peer = "gone"
  <2>1. pc' = "killed" /\ todo' = todo /\ outpipe' = outpipe
    BY <1>2, <1>4
  <2>2. TypeOK'
    BY <1>1, <2>1 DEF IInv, TypeOK
  <2> QED BY <1>1, <1>4, <2>2 DEF IInv
<1>5. CASE peer # "gone"
  <2>1. /\ outpipe' = outpipe \o SubSeq(todo, 1, n)
        /\ todo' = SubSeq(todo, n + 1, Len(todo))
        /\ pc' = IF todo' = <<>> THEN "read" ELSE "write"
    BY <1>2, <1>5
  <2>2. /\ outpipe' \in Seq(Chars) /\ todo' \in Seq(Chars)
        /\ outpipe' \o todo' = outpipe \o todo
    <3>1. Moved(Chars, outpipe, todo, n)
      BY <1>3, Cut
    <3> QED BY <2>1, <3>1 DEF Moved
  <2>3. Unread' = Unread
    BY <2>2 DEF Unread
  <2>4. TypeOK'
    BY <1>1, <2>1, <2>2 DEF IInv, TypeOK
  <2>5. pc' \in {"write", "read"} /\ (pc' = "write" => todo' # <<>>)
    BY <2>1
  <2>6. Asking => Asking'
    BY <1>1, <2>3, <2>5 DEF Asking
  <2>7. Answering => Answering'
    <3> SUFFICES ASSUME Answering PROVE Answering'
      OBVIOUS
    <3>1. result = <<>> /\ Len(result) < Len(asked)
      <4>1. result = <<>>
        BY <1>1 DEF Answering
      <4> QED BY <4>1, OnItsWay, EmptySeq DEF IInv
    <3>2. /\ pc' = "write" => todo' # <<>> /\ result' = <<>>
          /\ pc' = "read" => Len(result') < Len(asked')
          /\ pc' \in {"write", "read"} /\ pc' # "idle"
      BY <1>1, <2>1, <3>1
    <3> QED BY <1>1, <2>3, <3>2 DEF Answering
  <2> QED BY <1>1, <2>4, <2>6, <2>7 DEF IInv
<1> QED BY <1>4, <1>5

(* Reading a piece, and whether it is the last.                            *)
LEMMA ReadKeeps ==
  ASSUME IInv, read_internal
  PROVE  IInv'
<1> DEFINE n == Smaller(Len(inpipe), ReadBufSize)
<1>1. /\ pc = "read" /\ (inpipe # <<>> \/ peer = "gone")
      /\ result' = result \o SubSeq(inpipe, 1, n)
      /\ inpipe' = SubSeq(inpipe, n + 1, Len(inpipe))
      /\ pc' = IF is_done(n, Text(result')) THEN "idle" ELSE "read"
      /\ sent' = sent /\ todo' = todo /\ outpipe' = outpipe /\ copies' = copies
      /\ peer' = peer /\ depth' = depth /\ printing' = printing /\ asked' = asked
  BY DEF read_internal, binary
<1>2. /\ result \in Seq(Messages) /\ inpipe \in Seq(Messages) /\ printing \in Seq(Messages)
      /\ Len(result) \in Nat /\ Len(inpipe) \in Nat /\ Len(printing) \in Nat
      /\ n \in 0 .. Len(inpipe) /\ (Len(inpipe) > 0 => n > 0)
  <2>1. /\ result \in Seq(Messages) /\ inpipe \in Seq(Messages) /\ printing \in Seq(Messages)
        /\ Len(result) \in Nat /\ Len(inpipe) \in Nat /\ Len(printing) \in Nat
        /\ ReadBufSize \in Nat /\ ReadBufSize > 0
    BY Texts, BufferSizes DEF IInv, BufferSizes
  <2> QED BY <2>1, SmallerType
<1> HIDE DEF n
<1>3. /\ result' \in Seq(Messages) /\ inpipe' \in Seq(Messages)
      /\ Len(result') = Len(result) + n
      /\ result' \o inpipe' = result \o inpipe
  <2>1. Moved(Messages, result, inpipe, n)
    BY <1>2, Cut
  <2> QED BY <1>1, <2>1 DEF Moved
<1>4. TypeOK'
  <2>1. pc' \in {"idle", "read"} /\ todo = <<>>
    BY <1>1 DEF IInv, TypeOK
  <2> QED BY <1>1, <1>3, <2>1 DEF IInv, TypeOK, Messages
<1>5. ASSUME peer \in {"starting", "binary"}
      PROVE  Answering'
  <2>1. inpipe # <<>> /\ Answering /\ TypeOK
    BY <1>1, <1>5 DEF IInv, Asking
  <2>2. n > 0
    BY <1>2, <2>1, NoLength
  <2>3. (result' \o inpipe') \o printing' = Tagged(asked', sent')
    BY <1>1, <1>3, <2>1 DEF Answering
  <2>4. /\ asked \in Replies /\ asked \in Seq(Chars) /\ Len(asked) \in Nat
        /\ Len(result) + Len(inpipe) + Len(printing) = Len(asked)
        /\ Tagged(asked, sent) \in Seq(Messages) /\ sent \in 1 .. MaxCommands
    BY <2>1, OnItsWay DEF Answering, TypeOK
  <2> DEFINE l == Len(result')
  <2>5. l \in 1 .. Len(asked) /\ n \in 1 .. l
    BY <1>2, <1>3, <2>2, <2>4
  <2>6. Text(result') = SubSeq(asked, 1, l)
    <3>1. /\ (result' \o inpipe') \in Seq(Messages)
          /\ Len(result' \o inpipe') = Len(result') + Len(inpipe')
          /\ Len(inpipe') \in Nat /\ l \in Nat
          /\ \A i \in 1 .. Len(result') : (result' \o inpipe')[i] = result'[i]
      BY <1>3, Front
    <3>2. \A i \in 1 .. Len(result' \o inpipe') :
            ((result' \o inpipe') \o printing)[i] = (result' \o inpipe')[i]
      BY <1>2, <3>1, Front
    <3>3. \A i \in 1 .. l : result'[i] = Tagged(asked, sent)[i]
      <4>1. \A i \in 1 .. l : i \in 1 .. Len(result' \o inpipe')
        BY <3>1
      <4> QED BY <1>1, <2>3, <3>1, <3>2, <4>1
    <3>4. \A i \in 1 .. l : Tagged(asked, sent)[i].char = asked[i]
      BY <2>4, <2>5, TaggedType
    <3> DEFINE s == SubSeq(asked, 1, l)
    <3>5. \A i \in 1 .. l : asked[i] \in Chars
      BY <2>4, <2>5, ElementOfSeq
    <3>6. s \in Seq(Chars) /\ Len(s) = l /\ \A i \in 1 .. l : s[i] = asked[i]
      <4>1. 1 \in Int /\ l \in Int /\ 1 <= l
        BY <2>5
      <4>2. /\ s \in Seq(Chars)
            /\ Len(s) = IF 1 <= l THEN l - 1 + 1 ELSE 0
            /\ \A i \in 1 .. l - 1 + 1 : s[i] = asked[1 + i - 1]
        BY <3>5, <4>1, SubSeqProperties
      <4> HIDE DEF s, l
      <4> QED BY <4>1, <4>2
    <3> HIDE DEF s
    <3>7. Text(result') = [i \in 1 .. l |-> s[i]]
      BY <3>3, <3>4, <3>6 DEF Text
    <3>8. s = [i \in 1 .. l |-> s[i]]
      BY <3>6, LenProperties
    <3> QED BY <3>7, <3>8 DEF s
  <2> HIDE DEF l
  <2>7. is_done(n, Text(result')) <=> l = Len(asked)
    BY <2>4, <2>5, <2>6, DoneAtTheEnd
  <2>8. /\ pc' \in {"idle", "read"}
        /\ pc' = "idle" => Len(result') = Len(asked')
        /\ pc' = "read" => Len(result') < Len(asked')
    <3>1. CASE l = Len(asked)
      BY <1>1, <2>7, <3>1 DEF l
    <3>2. CASE l # Len(asked)
      <4>1. l < Len(asked)
        BY <2>4, <2>5, <3>2
      <4>2. pc' = "read"
        BY <1>1, <2>7, <3>2
      <4> QED BY <1>1, <4>1, <4>2 DEF l
    <3> QED BY <3>1, <3>2
  <2>9. Unread' = Unread
    BY <1>1 DEF Unread
  <2> QED BY <1>1, <2>1, <2>3, <2>8, <2>9 DEF Answering
<1> QED BY <1>1, <1>4, <1>5 DEF IInv

(* The binary takes the first of the characters it has not read.           *)
LEMMA UnreadNext ==
  ASSUME TypeOK, outpipe # <<>>
  PROVE  /\ Tail(outpipe) \in Seq(Chars) /\ Head(outpipe) = Unread[1]
         /\ Len(Tail(outpipe) \o todo) \in Nat
         /\ Len(Unread) = Len(Tail(outpipe) \o todo) + 1
         /\ \A i \in 1 .. Len(Tail(outpipe) \o todo) :
              (Tail(outpipe) \o todo)[i] = Unread[i + 1]
<1>1. /\ todo \in Seq(Chars) /\ outpipe \in Seq(Chars)
      /\ Len(todo) \in Nat /\ Len(outpipe) \in Nat /\ Len(outpipe) > 0
  BY Texts, EmptySeq
<1> DEFINE t == Tail(outpipe)
<1>2. /\ t \in Seq(Chars) /\ Len(t) = Len(outpipe) - 1
      /\ \A i \in 1 .. Len(t) : t[i] = outpipe[i + 1]
  BY <1>1, HeadTailProperties
<1>3. Head(outpipe) = outpipe[1]
  BY <1>1
<1> HIDE DEF t
<1>4. /\ Len(Unread) = Len(outpipe) + Len(todo)
      /\ \A i \in 1 .. Len(outpipe) : Unread[i] = outpipe[i]
      /\ \A i \in Len(outpipe) + 1 .. Len(outpipe) + Len(todo) :
           Unread[i] = todo[i - Len(outpipe)]
  BY <1>1, Front DEF Unread
<1>5. /\ Len(t \o todo) = Len(t) + Len(todo) /\ Len(t) \in Nat
      /\ \A i \in 1 .. Len(t) : (t \o todo)[i] = t[i]
      /\ \A i \in Len(t) + 1 .. Len(t) + Len(todo) : (t \o todo)[i] = todo[i - Len(t)]
  BY <1>1, <1>2, Front
<1> DEFINE v == t \o todo
<1>6. Len(v) \in Nat /\ Len(Unread) = Len(v) + 1 /\ Len(v) = Len(t) + Len(todo)
  BY <1>1, <1>2, <1>4, <1>5
<1>7. ASSUME NEW i \in 1 .. Len(v) PROVE v[i] = Unread[i + 1]
  <2>1. i \in Nat /\ i > 0 /\ i <= Len(t) + Len(todo)
    BY <1>6
  <2>2. CASE i <= Len(t)
    <3>1. i \in 1 .. Len(t) /\ i + 1 \in 1 .. Len(outpipe)
      BY <1>1, <1>2, <2>1, <2>2
    <3> QED BY <1>2, <1>4, <1>5, <3>1
  <2>3. CASE i > Len(t)
    <3>1. /\ i \in Len(t) + 1 .. Len(t) + Len(todo)
          /\ i + 1 \in Len(outpipe) + 1 .. Len(outpipe) + Len(todo)
          /\ i + 1 - Len(outpipe) = i - Len(t)
      BY <1>1, <1>2, <2>1, <2>3
    <3>2. v[i] = todo[i - Len(t)]
      BY <1>5, <3>1
    <3>3. Unread[i + 1] = todo[(i + 1) - Len(outpipe)]
      BY <1>4, <3>1
    <3> QED BY <3>1, <3>2, <3>3
  <2> QED BY <1>5, <2>1, <2>2, <2>3
<1>8. Head(outpipe) = Unread[1]
  BY <1>1, <1>3, <1>4
<1> QED BY <1>2, <1>6, <1>7, <1>8 DEF t, v

(* A character of a command: the newline of the last one, one within it,   *)
(* or the parenthesis that closes it and has a reply chosen.               *)
LEMMA AskedKeeps ==
  ASSUME IInv, Asking, BinaryReads
  PROVE  IInv'
<1>1. /\ peer = "binary" /\ outpipe # <<>> /\ outpipe' = Tail(outpipe)
      /\ pc' = pc /\ sent' = sent /\ todo' = todo /\ result' = result
      /\ peer' = peer /\ inpipe' = inpipe /\ copies' = copies
  BY DEF BinaryReads, client
<1> DEFINE h == Head(outpipe)
           d == CASE h = "(" -> depth + 1 [] h = ")" -> depth - 1 [] OTHER -> depth
<1>2. /\ depth' = d
      /\ IF h = ")" /\ d = 0
           THEN \E r \in Replies : asked' = r /\ printing' = Tagged(r, sent)
           ELSE asked' = asked /\ printing' = printing
  BY DEF BinaryReads
<1>3. /\ h = "(" => d = depth + 1
      /\ h = ")" => d = depth - 1
      /\ h \notin {"(", ")"} => d = depth
  OBVIOUS
<1>4. TypeOK /\ depth \in Nat /\ sent \in 1 .. MaxCommands
  BY DEF IInv, TypeOK
<1>5. /\ Tail(outpipe) \in Seq(Chars) /\ h = Unread[1]
      /\ Len(Unread') \in Nat /\ Len(Unread) = Len(Unread') + 1
      /\ \A i \in 1 .. Len(Unread') : Unread'[i] = Unread[i + 1]
  <2>1. Unread' = Tail(outpipe) \o todo
    BY <1>1 DEF Unread
  <2> HIDE DEF Unread
  <2> QED BY <1>1, <1>4, <2>1, UnreadNext
<1>6. /\ pc \in {"write", "read"} /\ (pc = "write" => todo # <<>>)
      /\ result = <<>> /\ inpipe = <<>> /\ printing = <<>>
  BY DEF Asking
<1>7. PICK c \in Commands : \E m \in {0, 1}, k \in 0 .. Len(c) - 1 :
        /\ m = 1 => k = 0
        /\ Rest(Unread, m, c, k)
        /\ depth + Closed(SubSeq(c, 1, k)) = Opened(SubSeq(c, 1, k))
  BY DEF Asking
<1>8. PICK m \in {0, 1}, k \in 0 .. Len(c) - 1 :
        /\ m = 1 => k = 0
        /\ Rest(Unread, m, c, k)
        /\ depth + Closed(SubSeq(c, 1, k)) = Opened(SubSeq(c, 1, k))
  BY <1>7
<1>9. c \in Seq(Chars) /\ Len(c) \in Nat /\ k \in Nat /\ k < Len(c) /\ m \in Nat
  BY CommandShape, LenProperties DEF CommandShape
<1>10. /\ Len(Unread) = m + Len(c) + 1 - k
       /\ \A i \in 1 .. Len(Unread) :
            Unread[i] = IF m < i /\ i + k <= m + Len(c) THEN c[i + k - m] ELSE Newline
  BY <1>8 DEF Rest
<1> HIDE DEF h, d
<1>11. ASSUME depth' \in Nat, asked' \in Replies \cup {<<>>}, printing' \in Seq(Messages)
       PROVE  TypeOK'
  BY <1>1, <1>4, <1>5, <1>11 DEF TypeOK, Messages
<1>12. CASE m = 1
  <2>1. k = 0 /\ h = Newline
    <3>1. k = 0
      BY <1>8, <1>12
    <3>2. 1 \in 1 .. Len(Unread) /\ ~(m < 1)
      BY <1>5, <1>12
    <3> QED BY <1>5, <1>10, <3>1, <3>2
  <2>2. depth' = depth /\ asked' = asked /\ printing' = printing
    <3>1. h # "(" /\ h # ")"
      BY <2>1 DEF Newline
    <3> QED BY <1>2, <1>3, <3>1
  <2>3. Rest(Unread', 0, c, 0)
    <3>1. Len(Unread') = 0 + Len(c) + 1 - 0
      BY <1>5, <1>9, <1>10, <1>12, <2>1
    <3>2. ASSUME NEW i \in 1 .. Len(Unread')
          PROVE  Unread'[i] = IF 0 < i /\ i + 0 <= 0 + Len(c) THEN c[i + 0 - 0] ELSE Newline
      <4>1. i \in Nat /\ i > 0 /\ i + 1 \in 1 .. Len(Unread)
        BY <1>5
      <4>2. Unread'[i] = IF m < i + 1 /\ i + 1 + k <= m + Len(c) THEN c[i + 1 + k - m] ELSE Newline
        BY <1>5, <1>10, <4>1
      <4>3. /\ m < i + 1 /\ 0 < i
            /\ i + 1 + k <= m + Len(c) <=> i + 0 <= 0 + Len(c)
            /\ i + 1 + k - m = i + 0 - 0
        BY <1>9, <1>12, <2>1, <4>1
      <4> QED BY <4>2, <4>3
    <3> QED BY <3>1, <3>2 DEF Rest
  <2>4. Asking'
    <3>1. /\ 0 \in 0 .. Len(c) - 1
          /\ depth' + Closed(SubSeq(c, 1, 0)) = Opened(SubSeq(c, 1, 0))
      BY <1>8, <1>9, <2>1, <2>2
    <3>2. \E e \in Commands : \E n \in {0, 1}, j \in 0 .. Len(e) - 1 :
            /\ n = 1 => j = 0
            /\ Rest(Unread', n, e, j)
            /\ depth' + Closed(SubSeq(e, 1, j)) = Opened(SubSeq(e, 1, j))
      BY <2>3, <3>1
    <3> QED BY <1>1, <1>6, <2>2, <3>2 DEF Asking
  <2>5. TypeOK'
    BY <1>4, <1>6, <1>11, <2>2, Texts DEF TypeOK
  <2> QED BY <2>4, <2>5 DEF IInv
<1>13. CASE m = 0
  <2>1. h = c[k + 1]
    <3>1. 1 \in 1 .. Len(Unread) /\ m < 1 /\ 1 + k <= m + Len(c) /\ 1 + k - m = k + 1
      BY <1>5, <1>9, <1>13
    <3> QED BY <1>5, <1>10, <3>1
  <2>2. /\ h = "(" => depth + 1 + Closed(SubSeq(c, 1, k + 1)) = Opened(SubSeq(c, 1, k + 1))
        /\ h = ")" => /\ depth > 0
                      /\ depth - 1 + Closed(SubSeq(c, 1, k + 1)) = Opened(SubSeq(c, 1, k + 1))
                      /\ depth - 1 = 0 <=> k + 1 = Len(c)
        /\ h \notin {"(", ")"} =>
             depth + Closed(SubSeq(c, 1, k + 1)) = Opened(SubSeq(c, 1, k + 1))
        /\ k + 1 = Len(c) => h = ")"
    BY <1>4, <1>8, <2>1, DepthNext
  <2>3. /\ Len(Unread') = Len(c) - k
        /\ \A i \in 1 .. Len(Unread') :
             Unread'[i] = IF i + (k + 1) <= Len(c) THEN c[i + (k + 1)] ELSE Newline
    <3>1. Len(Unread') = Len(c) - k
      BY <1>5, <1>9, <1>10, <1>13
    <3>2. ASSUME NEW i \in 1 .. Len(Unread')
          PROVE  Unread'[i] = IF i + (k + 1) <= Len(c) THEN c[i + (k + 1)] ELSE Newline
      <4>1. i \in Nat /\ i > 0 /\ i + 1 \in 1 .. Len(Unread)
        BY <1>5
      <4>2. Unread'[i] = IF m < i + 1 /\ i + 1 + k <= m + Len(c) THEN c[i + 1 + k - m] ELSE Newline
        BY <1>5, <1>10, <4>1
      <4>3. /\ m < i + 1
            /\ i + 1 + k <= m + Len(c) <=> i + (k + 1) <= Len(c)
            /\ i + 1 + k - m = i + (k + 1)
        BY <1>9, <1>13, <4>1
      <4> QED BY <4>2, <4>3
    <3> QED BY <3>1, <3>2
  <2>4. depth' \in Nat
    <3>1. CASE h = ")"
      <4>1. d = depth - 1 /\ depth > 0
        BY <1>3, <2>2, <3>1
      <4> QED BY <1>2, <1>4, <4>1
    <3>2. CASE h # ")"
      <4>1. d = depth \/ d = depth + 1
        BY <1>3, <3>2
      <4> QED BY <1>2, <1>4, <4>1
    <3> QED BY <3>1, <3>2
  <2>5. CASE k + 1 = Len(c)
    <3>1. h = ")" /\ d = 0
      BY <1>3, <2>2, <2>5
    <3>2. PICK r \in Replies : asked' = r /\ printing' = Tagged(r, sent)
      BY <1>2, <3>1
    <3>3. r \in Seq(Chars) /\ Len(r) \in Nat /\ Len(r) > 0 /\ Tagged(r, sent) \in Seq(Messages)
      <4>1. r \in Seq(Chars) /\ r # <<>>
        BY ReplyShape DEF ReplyShape
      <4> QED BY <1>4, <4>1, EmptySeq, LenProperties, TaggedType
    <3>4. (result' \o inpipe') \o printing' = Tagged(asked', sent')
      <4>1. <<>> \in Seq(Messages) /\ <<>> \o <<>> = <<>>
        BY EmptySeq, ConcatEmptySeq
      <4>2. <<>> \o Tagged(r, sent) = Tagged(r, sent)
        BY <3>3, ConcatEmptySeq
      <4> QED BY <1>1, <1>6, <3>2, <4>1, <4>2
    <3>5. Len(Unread') = 1 /\ \A i \in 1 .. Len(Unread') : Unread'[i] = Newline
      <4>1. Len(Unread') = 1
        BY <1>9, <2>3, <2>5
      <4>2. \A i \in 1 .. 1 : ~(i + (k + 1) <= Len(c))
        BY <1>9, <2>5
      <4> QED BY <2>3, <4>1, <4>2
    <3>6. Len(result') = 0
      BY <1>1, <1>6, EmptySeq
    <3>7. /\ asked' \in Replies /\ depth' = 0 /\ pc' \in {"write", "read", "idle"} /\ pc' # "idle"
          /\ pc' = "write" => todo' # <<>> /\ result' = <<>>
          /\ Len(result') < Len(asked') /\ Len(Unread') <= 1
      BY <1>1, <1>2, <1>6, <3>1, <3>2, <3>3, <3>5, <3>6
    <3>8. Answering'
      BY <3>4, <3>5, <3>7 DEF Answering
    <3>9. TypeOK'
      BY <1>11, <2>4, <3>2, <3>3
    <3> QED BY <3>8, <3>9 DEF IInv
  <2>6. CASE k + 1 # Len(c)
    <3>1. ~(h = ")" /\ d = 0)
      BY <1>3, <2>2, <2>6
    <3>2. asked' = asked /\ printing' = printing
      BY <1>2, <3>1
    <3>3. depth' + Closed(SubSeq(c, 1, k + 1)) = Opened(SubSeq(c, 1, k + 1))
      BY <1>2, <1>3, <2>2
    <3>4. Rest(Unread', 0, c, k + 1)
      <4>1. Len(Unread') = 0 + Len(c) + 1 - (k + 1)
        BY <1>9, <2>3
      <4>2. ASSUME NEW i \in 1 .. Len(Unread')
            PROVE  Unread'[i] = IF 0 < i /\ i + (k + 1) <= 0 + Len(c)
                                  THEN c[i + (k + 1) - 0] ELSE Newline
        <5>1. /\ 0 < i /\ i + (k + 1) - 0 = i + (k + 1)
              /\ i + (k + 1) <= 0 + Len(c) <=> i + (k + 1) <= Len(c)
          BY <1>9
        <5>2. Unread'[i] = IF i + (k + 1) <= Len(c) THEN c[i + (k + 1)] ELSE Newline
          BY <2>3
        <5> QED BY <5>1, <5>2
      <4> QED BY <4>1, <4>2 DEF Rest
    <3>5. k + 1 \in 0 .. Len(c) - 1
      BY <1>9, <2>6
    <3>6. \E e \in Commands : \E n \in {0, 1}, j \in 0 .. Len(e) - 1 :
            /\ n = 1 => j = 0
            /\ Rest(Unread', n, e, j)
            /\ depth' + Closed(SubSeq(e, 1, j)) = Opened(SubSeq(e, 1, j))
      BY <3>3, <3>4, <3>5
    <3>7. Asking'
      BY <1>1, <1>6, <3>2, <3>6 DEF Asking
    <3>8. TypeOK'
      BY <1>4, <1>11, <2>4, <3>2, Texts DEF TypeOK
    <3> QED BY <3>7, <3>8 DEF IInv
  <2> QED BY <2>5, <2>6
<1> QED BY <1>12, <1>13

(* After the command only its newline is left to read.                     *)
LEMMA AnsweredKeeps ==
  ASSUME IInv, Answering, BinaryReads
  PROVE  IInv'
<1>1. /\ peer = "binary" /\ outpipe # <<>> /\ outpipe' = Tail(outpipe)
      /\ pc' = pc /\ sent' = sent /\ todo' = todo /\ result' = result
      /\ peer' = peer /\ inpipe' = inpipe /\ copies' = copies
  BY DEF BinaryReads, client
<1>2. TypeOK
  BY DEF IInv
<1>3. /\ Tail(outpipe) \in Seq(Chars) /\ Head(outpipe) = Unread[1]
      /\ Len(Unread') \in Nat /\ Len(Unread) = Len(Unread') + 1
  <2>1. Unread' = Tail(outpipe) \o todo
    BY <1>1 DEF Unread
  <2> HIDE DEF Unread
  <2> QED BY <1>1, <1>2, <2>1, UnreadNext
<1>4. Len(Unread') = 0 /\ Head(outpipe) = Newline
  <2>1. Len(Unread) <= 1 /\ \A i \in 1 .. Len(Unread) : Unread[i] = Newline
    BY DEF Answering
  <2> QED BY <1>3, <2>1
<1>5. depth' = depth /\ asked' = asked /\ printing' = printing
  BY <1>4 DEF BinaryReads, Newline
<1>6. TypeOK'
  BY <1>1, <1>2, <1>3, <1>5 DEF TypeOK
<1>7. Answering'
  <2>1. Len(Unread') <= 1 /\ \A i \in 1 .. Len(Unread') : Unread'[i] = Newline
    BY <1>4
  <2> QED BY <1>1, <1>5, <2>1 DEF Answering
<1> QED BY <1>6, <1>7 DEF IInv

(* Printing moves a piece of the reply into the pipe.                      *)
LEMMA PrintKeeps ==
  ASSUME IInv, BinaryPrints
  PROVE  IInv'
<1>1. /\ peer = "binary" /\ printing # <<>> /\ Len(inpipe) < PipeSize
      /\ pc' = pc /\ sent' = sent /\ todo' = todo /\ result' = result
      /\ peer' = peer /\ depth' = depth /\ asked' = asked /\ outpipe' = outpipe
      /\ copies' = copies
  BY DEF BinaryPrints, client
<1>2. PICK n \in {1, Smaller(Len(printing), PipeSize - Len(inpipe))} :
        /\ inpipe' = inpipe \o SubSeq(printing, 1, n)
        /\ printing' = SubSeq(printing, n + 1, Len(printing))
  BY DEF BinaryPrints
<1>3. /\ TypeOK /\ result \in Seq(Messages) /\ inpipe \in Seq(Messages)
      /\ printing \in Seq(Messages)
      /\ Len(inpipe) \in Nat /\ Len(printing) \in Nat /\ Len(printing) > 0
  BY <1>1, Texts, EmptySeq DEF IInv
<1>4. n \in 0 .. Len(printing)
  <2>1. PipeSize - Len(inpipe) \in Nat
    BY <1>1, <1>3, BufferSizes DEF BufferSizes
  <2>2. Smaller(Len(printing), PipeSize - Len(inpipe)) \in 0 .. Len(printing)
    BY <1>3, <2>1, SmallerType
  <2> QED BY <1>3, <2>2
<1>5. Moved(Messages, inpipe, printing, n)
  BY <1>3, <1>4, Cut
<1>6. /\ inpipe' \in Seq(Messages) /\ printing' \in Seq(Messages)
      /\ inpipe' \o printing' = inpipe \o printing
  BY <1>2, <1>5 DEF Moved
<1>7. TypeOK'
  BY <1>1, <1>3, <1>6 DEF TypeOK, Messages
<1>8. Answering
  BY <1>1 DEF IInv, Asking
<1>9. (result' \o inpipe') \o printing' = Tagged(asked', sent')
  <2>1. (result \o inpipe') \o printing' = result \o (inpipe' \o printing')
    <3>1. /\ result \in Seq(Messages) /\ inpipe' \in Seq(Messages)
          /\ printing' \in Seq(Messages)
      BY <1>3, <1>6
    <3> QED BY <3>1, ConcatAssociative
  <2>2. (result \o inpipe) \o printing = result \o (inpipe \o printing)
    BY <1>3, ConcatAssociative
  <2> QED BY <1>1, <1>6, <1>8, <2>1, <2>2 DEF Answering
<1>10. Unread' = Unread
  BY <1>1 DEF Unread
<1>11. Answering'
  BY <1>1, <1>8, <1>9, <1>10 DEF Answering
<1> QED BY <1>7, <1>11 DEF IInv

(* Init begins with the first command, all of it unread.                   *)
LEMMA InitKeeps == Init => IInv
<1> SUFFICES ASSUME Init PROVE IInv
  OBVIOUS
<1>1. PICK c \in Commands : todo = Append(c, Newline)
  BY DEF Init
<1>2. /\ pc = "write" /\ sent = 1 /\ result = <<>> /\ outpipe = <<>> /\ inpipe = <<>>
      /\ peer = "starting" /\ depth = 0 /\ printing = <<>> /\ asked = <<>> /\ copies = 1
  BY DEF Init
<1>3. c \in Seq(Chars) /\ Newline \in Chars /\ Len(c) \in Nat /\ Len(c) > 0
  <2>1. c \in Seq(Chars) /\ c # <<>>
    BY CommandShape DEF CommandShape
  <2> QED BY <2>1, EmptySeq, LenProperties DEF Chars
<1>4. /\ todo \in Seq(Chars) /\ Len(todo) = Len(c) + 1 /\ todo # <<>>
      /\ \A i \in 1 .. Len(c) : todo[i] = c[i]
      /\ todo[Len(c) + 1] = Newline
  BY <1>1, <1>3, AppendProperties
<1>5. TypeOK
  <2>1. 1 \in 1 .. MaxCommands
    BY BufferSizes DEF BufferSizes
  <2> QED BY <1>2, <1>4, <2>1 DEF TypeOK
<1>6. Unread = todo
  BY <1>2, <1>4, ConcatEmptySeq DEF Unread
<1>7. Rest(Unread, 0, c, 0)
  <2>1. Len(todo) = 0 + Len(c) + 1 - 0
    BY <1>3, <1>4
  <2>2. ASSUME NEW i \in 1 .. Len(todo)
        PROVE  todo[i] = IF 0 < i /\ i + 0 <= 0 + Len(c) THEN c[i + 0 - 0] ELSE Newline
    <3>1. i \in Nat /\ 0 < i /\ i + 0 - 0 = i /\ (i + 0 <= 0 + Len(c) <=> i <= Len(c))
      BY <1>3, <1>4
    <3>2. i <= Len(c) => todo[i] = c[i]
      BY <1>3, <1>4, <3>1
    <3>3. ~(i <= Len(c)) => i = Len(c) + 1
      BY <1>3, <1>4, <3>1
    <3> QED BY <1>4, <3>1, <3>2, <3>3
  <2> QED BY <1>6, <2>1, <2>2 DEF Rest
<1>8. depth + Closed(SubSeq(c, 1, 0)) = Opened(SubSeq(c, 1, 0)) /\ 0 \in 0 .. Len(c) - 1
  BY <1>2, <1>3, NothingOpen
<1>9. Asking
  BY <1>2, <1>4, <1>7, <1>8 DEF Asking
<1> QED BY <1>5, <1>9 DEF IInv

(* A process that ends, or never becomes the binary, leaves the pipes to   *)
(* nobody.                                                                 *)
LEMMA EndKeeps ==
  ASSUME IInv, close_solver \/ BinaryExits \/ execv_fails
  PROVE  IInv'
<1>1. CASE close_solver
  <2>1. TypeOK' /\ peer' = "gone"
    BY <1>1 DEF close_solver, IInv, TypeOK
  <2> QED BY <2>1 DEF IInv
<1>2. CASE BinaryExits
  <2>1. TypeOK' /\ peer' = "gone"
    BY <1>2 DEF BinaryExits, client, IInv, TypeOK
  <2> QED BY <2>1 DEF IInv
<1>3. CASE execv_fails
  <2>1. peer' \in {"gone", "copy"}
    BY <1>3 DEF execv_fails
  <2>2. TypeOK'
    <3> DEFINE w == <<[char |-> "c", cmd |-> 1], [char |-> Newline, cmd |-> 1]>>
    <3>1. w \in Seq(Messages)
      <4>1. 1 \in 1 .. MaxCommands /\ "c" \in Chars /\ Newline \in Chars
        BY BufferSizes DEF BufferSizes, Chars
      <4>2. [char |-> "c", cmd |-> 1] \in Messages /\ [char |-> Newline, cmd |-> 1] \in Messages
        BY <4>1 DEF Messages
      <4> QED BY <4>2
    <3> HIDE DEF w
    <3>2. /\ inpipe' = inpipe \/ inpipe' = w
          /\ copies' \in {copies, 2}
          /\ UNCHANGED <<pc, sent, todo, result, depth, printing, asked, outpipe>>
      BY <1>3 DEF execv_fails, client, w
    <3>3. inpipe' \in Seq(Messages) /\ copies' \in 1 .. 2
      BY <3>1, <3>2, Texts DEF IInv, TypeOK
    <3> QED BY <2>1, <3>2, <3>3 DEF IInv, TypeOK, Messages
  <2> QED BY <2>1, <2>2 DEF IInv
<1> QED BY <1>1, <1>2, <1>3

(* Every step keeps the invariant.                                         *)
LEMMA NextKeeps == IInv /\ [Next]_vars => IInv'
<1> SUFFICES ASSUME IInv, [Next]_vars PROVE IInv'
  OBVIOUS
<1>1. CASE \E c \in Commands : run_command(c)
  BY <1>1, RunKeeps
<1>2. CASE write_internal
  BY <1>2, WriteKeeps
<1>3. CASE read_internal
  BY <1>3, ReadKeeps
<1>4. CASE BinaryReads
  <2>1. Asking \/ Answering
    BY <1>4 DEF IInv, BinaryReads
  <2> QED BY <1>4, <2>1, AskedKeeps, AnsweredKeeps
<1>5. CASE BinaryPrints
  BY <1>5, PrintKeeps
<1>6. CASE close_solver \/ BinaryExits \/ execv_fails
  BY <1>6, EndKeeps
<1>7. CASE execv_succeeds
  <2>1. /\ peer = "starting" /\ peer' = "binary"
        /\ UNCHANGED <<pc, sent, todo, result, depth, printing, asked, outpipe, inpipe, copies>>
    BY <1>7 DEF execv_succeeds, client
  <2>2. TypeOK'
    BY <2>1 DEF IInv, TypeOK
  <2>3. (Asking => Asking') /\ (Answering => Answering')
    BY <2>1 DEF Asking, Answering, Unread
  <2> QED BY <2>1, <2>2, <2>3 DEF IInv
<1>8. CASE UNCHANGED vars
  <2>1. UNCHANGED <<pc, sent, todo, result, depth, printing, asked, outpipe, inpipe, copies, peer>>
    BY <1>8 DEF vars, client, binary
  <2>2. TypeOK'
    BY <2>1 DEF IInv, TypeOK
  <2>3. (Asking => Asking') /\ (Answering => Answering')
    BY <2>1 DEF Asking, Answering, Unread
  <2> QED BY <2>1, <2>2, <2>3 DEF IInv
<1> QED BY <1>1, <1>2, <1>3, <1>4, <1>5, <1>6, <1>7, <1>8 DEF Next, Client

-----------------------------------------------------------------------------
(* The theorems *)

(* At any time the binary has a known rest of one command to read, or the  *)
(* reply to it is divided among the binary, the pipe and the client.       *)
THEOREM Invariance == Spec => []IInv
<1>1. Init => IInv
  BY InitKeeps
<1>2. IInv /\ [Next]_vars => IInv'
  BY NextKeeps
<1> QED BY <1>1, <1>2, PTL DEF Spec

(* The types; the depth of the binary never falls below 0.                 *)
THEOREM TypeCorrect == Spec => []TypeOK
<1>1. IInv => TypeOK
  BY DEF IInv
<1> QED BY <1>1, Invariance, PTL

(* When run_command returns, its result is the whole reply to its own      *)
(* command, and nothing of it is left in the pipe or in the binary.        *)
THEOREM RepliesInStep == Spec => []InStep
<1>1. IInv => InStep
  <2> SUFFICES ASSUME IInv, pc = "idle", peer = "binary"
               PROVE  /\ Text(result) = asked /\ \A i \in 1 .. Len(result) : result[i].cmd = sent
                      /\ inpipe = <<>> /\ printing = <<>>
    BY DEF InStep
  <2>1. TypeOK /\ Answering
    BY DEF IInv, Asking
  <2>2. /\ asked \in Seq(Chars) /\ Len(asked) \in Nat /\ Len(result) = Len(asked)
        /\ Len(result) + Len(inpipe) + Len(printing) = Len(asked)
        /\ \A i \in 1 .. Len(result) : result[i] = Tagged(asked, sent)[i]
    BY <2>1, OnItsWay DEF Answering
  <2>3. /\ inpipe \in Seq(Messages) /\ printing \in Seq(Messages)
        /\ Len(inpipe) \in Nat /\ Len(printing) \in Nat
    BY <2>1, Texts
  <2>4. inpipe = <<>> /\ printing = <<>>
    <3>1. Len(inpipe) = 0 /\ Len(printing) = 0
      BY <2>2, <2>3
    <3> QED BY <2>3, <3>1, NoLength
  <2>5. \A i \in 1 .. Len(asked) :
          Tagged(asked, sent)[i].char = asked[i] /\ Tagged(asked, sent)[i].cmd = sent
    BY <2>1, <2>2, TaggedType DEF TypeOK
  <2>6. Text(result) = [i \in 1 .. Len(asked) |-> asked[i]]
    BY <2>2, <2>5 DEF Text
  <2>7. asked = [i \in 1 .. Len(asked) |-> asked[i]]
    BY <2>2, LenProperties
  <2> QED BY <2>2, <2>4, <2>5, <2>6, <2>7
<1> QED BY <1>1, Invariance, PTL
=============================================================================
