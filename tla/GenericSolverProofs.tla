------------------------- MODULE GenericSolverProofs -------------------------
(***************************************************************************)
(* GenericSolver, for every set of symbols, parameters and sorts and any   *)
(* number of terms and levels: a name is filed under one text only, and as *)
(* long as no string is the name of two things the two maps are inverse to *)
(* each other, the names stand in the binary for the terms handed out, and *)
(* what a core is read back to was assumed.                                *)
(***************************************************************************)
EXTENDS GenericSolver, TLAPS, SequenceTheorems

Known == DOMAIN name_term_map
Texts == DOMAIN term_name_map
GeneratedNames(counter) == {Generated(i) : i \in 1 .. counter}

(* The name under which a text is filed: a symbol's and a parameter's text *)
(* is the name; another term has a number or, if open, its own text.       *)
Filed(x, n, counter) ==
  \/ x \in Atoms /\ n = x
  \/ /\ x[1] \notin {"|", "plain"}
     /\ n \in GeneratedNames(counter) \/ n = <<"text", x>>

(* What holds of the maps whatever the names are: a name leads to a term   *)
(* filed under it, and a text to a name that leads back to it, unless it   *)
(* is that of a parameter whose name was given to another term.            *)
FiledInv ==
  /\ term_counter \in 0 .. MaxTerms
  /\ \A x \in Texts :
       /\ term_name_map[x] \in Known /\ Filed(x, term_name_map[x], term_counter)
       /\ \/ name_term_map[term_name_map[x]].text = x
          \/ x \in GeneratedNames(term_counter)
  /\ \A n \in Known :
       /\ name_term_map[n] \in held
       /\ NameOf(name_term_map[n]) = n
  /\ \A t \in held : IsTerm(t) /\ t.text \in Texts

(* A term made by make_term of terms under these names: its text is its    *)
(* operator and their names, its meaning the operator's of theirs.         *)
Made(t, terms, params) ==
  \E op \in Operators : \E names \in [1 .. Arity[op] -> DOMAIN terms] :
    /\ t.text = <<op, names>>
    /\ t.means = Meaning(op, [i \in 1 .. Arity[op] |-> terms[names[i]].means],
                         Bound(op, names))
    /\ t.ground => \A i \in 1 .. Arity[op] : terms[names[i]].ground
    /\ op = "forall" => names[1] \in params

(* What may stand under name n after counter names were given: a symbol, a *)
(* parameter, a value, or a compound term that is its own name if open.    *)
StoredSymbol(n, t) == \E s \in SymbolNames : n = Piped(s) /\ t = SymbolTerm(s)
StoredParam(n, t, params) ==
  \E s \in ParamNames : n = Plain(s) /\ n \in params /\ t = ParamTerm(s)
StoredGround(n, t, terms, params, counter) ==
  /\ n \in GeneratedNames(counter) /\ t.ground
  /\ t.text[1] = "value" \/ Made(t, terms, params)
StoredOpen(n, t, terms, params) ==
  n = <<"text", t.text>> /\ ~t.ground /\ TwoDeep(n) /\ Made(t, terms, params)
Stored(n, t, terms, params, counter) ==
  \/ StoredSymbol(n, t) \/ StoredParam(n, t, params)
  \/ StoredGround(n, t, terms, params, counter) \/ StoredOpen(n, t, terms, params)

(* What holds as long as the names are apart: the name of a term leads to  *)
(* it, and the binary has its definition right.                            *)
HeldInv == \A t \in held : name_term_map[NameOf(t)] = t
StoredInv ==
  \A n \in Known : Stored(n, name_term_map[n], name_term_map, Params, term_counter)
DefinedRight ==
  \A n \in Known :
    ~IsOpen(n) /\ n \notin Params /\ Identifier(n) \in Visible =>
      definition[Identifier(n)] = name_term_map[n].means
MeansInv == HeldInv /\ StoredInv /\ DefinedRight

(* The binary sees the identifiers of symbols, numbered names and sorts;   *)
(* with global declarations they are all on the lowest level.              *)
SortIdentifiers(S) == {SortIdentifier(s) : s \in S}
ScopesInv ==
  /\ scopes \in Seq(SUBSET DOMAIN definition)
  /\ levels \in Seq(SUBSET Models)
  /\ Len(levels) = Len(scopes) /\ Len(scopes) \in 1 .. MaxLevel + 1
  /\ Visible \subseteq ({Plain(s) : s \in SymbolsMade} \cup GeneratedNames(term_counter))
                         \cup SortIdentifiers(SortNames)
  /\ global => Visible \subseteq scopes[1]

TermsInv ==
  /\ FiledInv /\ ScopesInv /\ GlobalNamesKnown
  /\ NamesApart => MeansInv

AnswerInv ==
  /\ answer \in {"none", "sat", "unsat", "unknown"}
  /\ assumed \subseteq held /\ core \subseteq held
  /\ \A t \in assumed : ~IsOpen(NameOf(t))
  /\ NamesApart => core \subseteq assumed

OtherInv ==
  /\ sorts \subseteq SortNames
  /\ context_level_ \in Nat /\ Len(levels) <= context_level_ + 1
  /\ global \in BOOLEAN
  /\ history \subseteq {"reset", "refused"}

IInv == TermsInv /\ AnswerInv /\ OtherInv /\ LevelsAgree

-----------------------------------------------------------------------------
(* Names *)

(* The keys after an entry.                                                *)
LEMMA EnteredDomain ==
  ASSUME NEW f, NEW k, NEW v
  PROVE  DOMAIN Enter(f, k, v) = DOMAIN f \cup {k}
BY DEF Enter

(* Names of different kinds differ.                                        *)
LEMMA NameKinds ==
  ASSUME NEW r, NEW s
  PROVE  /\ Piped(s)[1] = "|" /\ Piped(s)[2] = s
         /\ Plain(s)[1] = "plain" /\ Plain(s)[2] = s
         /\ SortIdentifier(s)[1] = "sort"
         /\ Piped(r) = Piped(s) => r = s
         /\ Plain(r) = Plain(s) => r = s
         /\ Piped(r) # Plain(s) /\ SortIdentifier(r) # Plain(s)
         /\ ~IsOpen(Piped(s)) /\ ~IsOpen(Plain(s))
         /\ Identifier(Piped(s)) = Plain(s) /\ Identifier(Plain(s)) = Plain(s)
<1>1. Piped(s)[1] = "|" /\ Piped(s)[2] = s /\ Piped(r)[1] = "|" /\ Piped(r)[2] = r
  BY DEF Piped
<1>2. Plain(s)[1] = "plain" /\ Plain(s)[2] = s /\ Plain(r)[2] = r
  BY DEF Plain
<1>3. SortIdentifier(s)[1] = "sort" /\ SortIdentifier(r)[1] = "sort"
  BY DEF SortIdentifier
<1>4. Piped(r) = Piped(s) => r = s
  BY <1>1
<1>5. Plain(r) = Plain(s) => r = s
  BY <1>2
<1>6. Piped(r) # Plain(s) /\ SortIdentifier(r) # Plain(s)
  <2>1. "|" # "plain" /\ "sort" # "plain"
    OBVIOUS
  <2> QED BY <1>1, <1>2, <1>3, <2>1, Zenon
<1>7. ~IsOpen(Piped(s)) /\ ~IsOpen(Plain(s))
  <2>1. "|" # "text" /\ "plain" # "text"
    OBVIOUS
  <2> QED BY <1>1, <1>2, <2>1, Zenon DEF IsOpen
<1>8. Identifier(Piped(s)) = Plain(s) /\ Identifier(Plain(s)) = Plain(s)
  BY <1>1, <1>2 DEF Identifier
<1> QED BY <1>1, <1>2, <1>3, <1>4, <1>5, <1>6, <1>7, <1>8

(* A bare name is that of one string.                                      *)
LEMMA PlainOnce == \A r, s : Plain(r) = Plain(s) => r = s
BY NameKinds

(* The names of get_name, each given once.                                 *)
LEMMA Numbers ==
  ASSUME NEW counter \in 0 .. MaxTerms, NEW n \in GeneratedNames(counter)
  PROVE  /\ n[1] = "plain" /\ ~IsOpen(n) /\ Identifier(n) = n
         /\ n # Generated(counter + 1) \/ counter = MaxTerms
<1>1. PICK i \in 1 .. counter : n = Plain(Numbered[i])
  BY DEF GeneratedNames, Generated
<1>2. n[1] = "plain" /\ ~IsOpen(n) /\ Identifier(n) = n
  BY <1>1, NameKinds
<1>3. ASSUME n = Generated(counter + 1), counter # MaxTerms PROVE FALSE
  <2>1. Numbered[i] = Numbered[counter + 1]
    <3>1. Plain(Numbered[i]) = Plain(Numbered[counter + 1])
      BY <1>1, <1>3 DEF Generated
    <3> QED BY <3>1, PlainOnce, Zenon
  <2>2. i \in 1 .. MaxTerms /\ counter + 1 \in 1 .. MaxTerms /\ i # counter + 1
    BY <1>1, <1>3, GenericBounds DEF GenericBounds
  <2> QED BY <2>1, <2>2, GenericBounds DEF GenericBounds
<1> QED BY <1>2, <1>3

(* More numbers, more names.                                               *)
LEMMA MoreNumbers ==
  ASSUME NEW k \in Nat, NEW l \in Nat, k <= l
  PROVE  GeneratedNames(k) \subseteq GeneratedNames(l)
<1>1. 1 .. k \subseteq 1 .. l
  OBVIOUS
<1> QED BY <1>1, Zenon DEF GeneratedNames

(* The text of a made term is not that of a leaf.                          *)
LEMMA MadeText ==
  ASSUME NEW t, NEW terms, NEW params, Made(t, terms, params)
  PROVE  /\ t.text[1] \in Operators
         /\ t.text[1] \notin {"|", "plain", "value"}
<1>1. PICK op \in Operators : \E names \in [1 .. Arity[op] -> DOMAIN terms] :
        t.text = <<op, names>>
  BY Zenon DEF Made
<1>2. t.text[1] = op
  BY <1>1
<1> QED BY <1>1, <1>2 DEF Operators

(* The terms of a symbol and of a parameter.                               *)
LEMMA AtomTerms ==
  ASSUME NEW s
  PROVE  /\ SymbolTerm(s).text = Piped(s) /\ ParamTerm(s).text = Plain(s)
         /\ SymbolTerm(s).ground = TRUE /\ ParamTerm(s).ground = FALSE
         /\ ParamTerm(s).means = Where(Plain(s))
         /\ IsTerm(SymbolTerm(s)) /\ IsTerm(ParamTerm(s))
<1> DEFINE S == Where(Piped(s))
           P == Where(Plain(s))
<1>1. /\ SymbolTerm(s) = [text |-> Piped(s), sort |-> "Bool", ground |-> TRUE, means |-> S]
      /\ ParamTerm(s) = [text |-> Plain(s), sort |-> "Bool", ground |-> FALSE, means |-> P]
  BY DEF SymbolTerm, ParamTerm, Leaf
<1> HIDE DEF S, P
<1>2. /\ SymbolTerm(s).text = Piped(s) /\ ParamTerm(s).text = Plain(s)
      /\ SymbolTerm(s).ground = TRUE /\ ParamTerm(s).ground = FALSE
      /\ ParamTerm(s).means = P
  BY <1>1
<1>3. IsTerm(SymbolTerm(s)) /\ IsTerm(ParamTerm(s))
  BY <1>1 DEF IsTerm
<1> QED BY <1>2, <1>3, Zenon DEF P

(* Under which names the three kinds of texts are filed.                   *)
LEMMA FiledKinds ==
  ASSUME FiledInv, NEW x \in Texts
  PROVE  LET n == term_name_map[x]
         IN \/ x \in Atoms /\ n = x
            \/ x \notin Atoms /\ n \in GeneratedNames(term_counter)
            \/ x \notin Atoms /\ n = <<"text", x>> /\ IsOpen(n)
<1> DEFINE n == term_name_map[x]
<1>1. Filed(x, n, term_counter)
  BY DEF FiledInv
<1> HIDE DEF n
<1>2. CASE x \in Atoms /\ n = x
  BY <1>2 DEF n
<1>3. CASE /\ x[1] \notin {"|", "plain"}
           /\ n \in GeneratedNames(term_counter) \/ n = <<"text", x>>
  <2>1. x \notin Atoms
    <3>1. ASSUME NEW s, x = Piped(s) \/ x = Plain(s) PROVE FALSE
      BY <1>3, <3>1, NameKinds
    <3> QED BY <3>1, Zenon DEF Atoms
  <2>2. n = <<"text", x>> => IsOpen(n)
    BY DEF IsOpen
  <2> QED BY <1>3, <2>1, <2>2 DEF n
<1> QED BY <1>1, <1>2, <1>3 DEF Filed

(* A name that is known is filed for the text of its term.                 *)
LEMMA KnownFiled ==
  ASSUME FiledInv, NEW n \in Known
  PROVE  LET x == name_term_map[n].text
         IN /\ x \in Texts /\ term_name_map[x] = n
            /\ \/ x \in Atoms /\ n = x
               \/ x \notin Atoms /\ n \in GeneratedNames(term_counter)
               \/ x \notin Atoms /\ n = <<"text", x>> /\ IsOpen(n)
<1>1. name_term_map[n] \in held /\ NameOf(name_term_map[n]) = n
  BY DEF FiledInv
<1>2. name_term_map[n].text \in Texts /\ term_name_map[name_term_map[n].text] = n
  BY <1>1 DEF FiledInv, NameOf
<1> QED BY <1>2, FiledKinds

(* Symbols and parameters that were made, and no others, are atoms on file.*)
LEMMA AtomsMade ==
  /\ \A s : Piped(s) \in Atoms \cap Texts <=> s \in SymbolsMade
  /\ \A s : Plain(s) \in Atoms \cap Texts <=> s \in ParamsMade
  /\ \A s : Plain(s) \in Params <=> s \in ParamsMade
<1>1. ASSUME NEW s PROVE Piped(s) \in Atoms <=> s \in SymbolNames
  <2>1. \A r : Piped(s) # Plain(r) /\ (Piped(s) = Piped(r) => s = r)
    BY NameKinds
  <2> QED BY <2>1, Zenon DEF Atoms
<1>2. ASSUME NEW s PROVE Plain(s) \in Atoms <=> s \in ParamNames
  <2>1. \A r : Plain(s) # Piped(r) /\ (Plain(s) = Plain(r) => s = r)
    BY NameKinds
  <2> QED BY <2>1, Zenon DEF Atoms
<1>3. ASSUME NEW s PROVE Plain(s) \in Params <=> s \in ParamsMade
  <2>1. \A r : Plain(s) = Plain(r) => s = r
    BY NameKinds
  <2> QED BY <2>1, Zenon DEF Params
<1> QED BY <1>1, <1>2, <1>3 DEF SymbolsMade, ParamsMade, Texts

(* With the names apart no numbered name is that of a symbol or parameter. *)
LEMMA ApartNumbers ==
  ASSUME NamesApart, NEW n \in GeneratedNames(term_counter), NEW s, n = Plain(s)
  PROVE  s \notin SymbolsMade /\ s \notin ParamsMade
<1>1. PICK i \in 1 .. term_counter : n = Plain(Numbered[i])
  BY DEF GeneratedNames, Generated
<1>2. s = Numbered[i]
  <2>1. Plain(s) = Plain(Numbered[i])
    BY <1>1
  <2> QED BY <2>1, PlainOnce, Zenon
<1>3. s \in NumbersGiven
  BY <1>1, <1>2, Zenon DEF NumbersGiven
<1> QED BY <1>3 DEF NamesApart

(* What may be known is the name of a symbol, a parameter or a number, or  *)
(* an open text; identifiers of different ones differ.                     *)
LEMMA KnownKinds ==
  ASSUME FiledInv, NamesApart, NEW n \in Known
  PROVE  \/ IsOpen(n)
         \/ \E s \in SymbolsMade : n = Piped(s)
         \/ \E s \in ParamsMade : n = Plain(s) /\ n \in Params
         \/ n \in GeneratedNames(term_counter) /\ n \notin Params
<1> DEFINE x == name_term_map[n].text
<1>1. /\ x \in Texts
      /\ \/ x \in Atoms /\ n = x
         \/ n \in GeneratedNames(term_counter)
         \/ IsOpen(n)
  BY KnownFiled
<1> HIDE DEF x
<1>2. CASE x \in Atoms /\ n = x
  <2>1. PICK s : n = Piped(s) \/ n = Plain(s)
    BY <1>2, Zenon DEF Atoms
  <2> QED BY <1>1, <1>2, <2>1, AtomsMade
<1>3. CASE n \in GeneratedNames(term_counter)
  <2>1. ASSUME NEW s \in ParamsMade, n = Plain(s) PROVE FALSE
    BY <1>3, <2>1, ApartNumbers
  <2> QED BY <1>3, <2>1, Zenon DEF Params
<1> QED BY <1>1, <1>2, <1>3

LEMMA SameIdentifier ==
  ASSUME FiledInv, NamesApart, NEW n \in Known, NEW k \in Known,
         ~IsOpen(n), ~IsOpen(k), n \notin Params, k \notin Params,
         Identifier(n) = Identifier(k)
  PROVE  n = k
<1>1. \/ \E s \in SymbolsMade : n = Piped(s)
      \/ n \in GeneratedNames(term_counter)
  BY KnownKinds
<1>2. \/ \E s \in SymbolsMade : k = Piped(s)
      \/ k \in GeneratedNames(term_counter)
  BY KnownKinds
<1>3. term_counter \in 0 .. MaxTerms
  BY DEF FiledInv
<1>4. ASSUME NEW s \in SymbolsMade, NEW g \in GeneratedNames(term_counter),
             Identifier(Piped(s)) = Identifier(g)
      PROVE  FALSE
  <2>1. g = Plain(s)
    BY <1>3, <1>4, Numbers, NameKinds
  <2> QED BY <2>1, ApartNumbers
<1>5. CASE n \in GeneratedNames(term_counter) /\ k \in GeneratedNames(term_counter)
  <2>1. Identifier(n) = n /\ Identifier(k) = k
    BY <1>3, <1>5, Numbers
  <2> QED BY <2>1
<1>6. ASSUME NEW s \in SymbolsMade, NEW r \in SymbolsMade, n = Piped(s), k = Piped(r)
      PROVE  n = k
  <2>1. Plain(s) = Plain(r)
    BY <1>6, NameKinds
  <2> QED BY <1>6, <2>1, NameKinds
<1> QED BY <1>1, <1>2, <1>4, <1>5, <1>6

-----------------------------------------------------------------------------
(* New entries *)

(* What is on file stays there.                                            *)
Grows ==
  /\ Known \subseteq Known' /\ Texts \subseteq Texts' /\ held \subseteq held'
  /\ term_counter \in Nat /\ term_counter' \in Nat /\ term_counter <= term_counter'

(* Names that are apart were apart before.                                 *)
LEMMA ApartBefore ==
  ASSUME Grows
  PROVE  /\ SymbolsMade \subseteq SymbolsMade' /\ ParamsMade \subseteq ParamsMade'
         /\ Params \subseteq Params'
         /\ NamesApart' => NamesApart
<1>1. SymbolsMade \subseteq SymbolsMade' /\ ParamsMade \subseteq ParamsMade'
  BY DEF Grows, Texts, SymbolsMade, ParamsMade
<1>2. Params \subseteq Params'
  BY <1>1 DEF Params
<1>3. NumbersGiven \subseteq NumbersGiven'
  <2>1. 1 .. term_counter \subseteq 1 .. term_counter'
    BY DEF Grows
  <2> QED BY <2>1 DEF NumbersGiven
<1> QED BY <1>1, <1>2, <1>3 DEF NamesApart

(* A step that leaves the maps alone.                                      *)
LEMMA MapsKept ==
  ASSUME FiledInv, UNCHANGED <<name_term_map, term_name_map, held, term_counter>>
  PROVE  /\ FiledInv' /\ Grows /\ NamesApart' = NamesApart
         /\ SymbolsMade' = SymbolsMade /\ Params' = Params /\ Known' = Known
<1>1. SymbolsMade' = SymbolsMade /\ ParamsMade' = ParamsMade /\ NumbersGiven' = NumbersGiven
  BY DEF SymbolsMade, ParamsMade, NumbersGiven
<1>2. FiledInv'
  BY DEF FiledInv, Known, Texts, NameOf
<1>3. term_counter \in Nat
  BY DEF FiledInv
<1>4. Grows
  BY <1>3 DEF Grows, Known, Texts
<1> QED BY <1>1, <1>2, <1>4 DEF NamesApart, Params, Known

(* The maps with one more term.                                            *)
LEMMA MapEffect ==
  ASSUME NEW name, NEW t, Map(name, t)
  PROVE  /\ Known' = Known \cup {name} /\ Texts' = Texts \cup {t.text}
         /\ held' = held \cup {t}
         /\ name_term_map'[name] = t
         /\ \A n \in Known : n # name => name_term_map'[n] = name_term_map[n]
         /\ term_name_map'[t.text] = name
         /\ \A x \in Texts : x # t.text => term_name_map'[x] = term_name_map[x]
<1>1. /\ name_term_map' = Enter(name_term_map, name, t)
      /\ term_name_map' = Enter(term_name_map, t.text, name)
      /\ held' = held \cup {t}
  BY DEF Map
<1>2. /\ DOMAIN name_term_map' = DOMAIN name_term_map \cup {name}
      /\ DOMAIN term_name_map' = DOMAIN term_name_map \cup {t.text}
  BY <1>1, EnteredDomain
<1>3. /\ name_term_map'[name] = t
      /\ \A n \in DOMAIN name_term_map : n # name => name_term_map'[n] = name_term_map[n]
  BY <1>1 DEF Enter
<1>4. /\ term_name_map'[t.text] = name
      /\ \A x \in DOMAIN term_name_map : x # t.text => term_name_map'[x] = term_name_map[x]
  BY <1>1 DEF Enter
<1> QED BY <1>1, <1>2, <1>3, <1>4 DEF Known, Texts

(* A new term, filed as it should be: a name leads to another term than    *)
(* before only if it was a parameter's and is given away.                  *)
LEMMA FiledKeeps ==
  ASSUME FiledInv, NEW name, NEW t, Map(name, t), IsTerm(t), t.text \notin Texts,
         term_counter' \in term_counter .. MaxTerms,
         Filed(t.text, name, term_counter'),
         \A x \in Texts : term_name_map[x] = name => x \in GeneratedNames(term_counter')
  PROVE  FiledInv' /\ Grows
<1>1. /\ Known' = Known \cup {name} /\ Texts' = Texts \cup {t.text}
      /\ held' = held \cup {t}
      /\ name_term_map'[name] = t
      /\ \A n \in Known : n # name => name_term_map'[n] = name_term_map[n]
      /\ term_name_map'[t.text] = name
      /\ \A x \in Texts : term_name_map'[x] = term_name_map[x]
  BY MapEffect
<1>2. /\ term_counter \in Nat /\ term_counter' \in Nat /\ term_counter <= term_counter'
      /\ term_counter' \in 0 .. MaxTerms
  BY GenericBounds DEF GenericBounds, FiledInv
<1>3. GeneratedNames(term_counter) \subseteq GeneratedNames(term_counter')
  BY <1>2, MoreNumbers
<1>4. ASSUME NEW x \in Texts'
      PROVE  /\ term_name_map'[x] \in Known' /\ Filed(x, term_name_map'[x], term_counter')
             /\ \/ name_term_map'[term_name_map'[x]].text = x
                \/ x \in GeneratedNames(term_counter')
  <2>1. CASE x = t.text
    BY <1>1, <2>1
  <2>2. CASE x \in Texts
    <3> DEFINE n == term_name_map[x]
    <3>1. n \in Known /\ Filed(x, n, term_counter) /\ term_name_map'[x] = n
      BY <1>1, <2>2 DEF FiledInv
    <3>2. name_term_map[n].text = x \/ x \in GeneratedNames(term_counter)
      BY <2>2 DEF FiledInv
    <3>3. n = name => x \in GeneratedNames(term_counter')
      BY <2>2
    <3> HIDE DEF n
    <3>4. Filed(x, n, term_counter')
      BY <1>3, <3>1 DEF Filed
    <3>5. n # name => name_term_map'[n] = name_term_map[n]
      BY <1>1, <3>1
    <3> QED BY <1>1, <1>3, <3>1, <3>2, <3>3, <3>4, <3>5
  <2> QED BY <1>1, <2>1, <2>2
<1>5. ASSUME NEW n \in Known'
      PROVE  /\ name_term_map'[n] \in held'
             /\ term_name_map'[name_term_map'[n].text] = n
  <2>1. CASE n = name
    BY <1>1, <2>1
  <2>2. CASE n # name
    <3>1. n \in Known /\ name_term_map'[n] = name_term_map[n]
      BY <1>1, <2>2
    <3>2. name_term_map[n] \in held /\ name_term_map[n].text \in Texts
      BY <3>1 DEF FiledInv
    <3>3. term_name_map[name_term_map[n].text] = n
      BY <3>1 DEF FiledInv, NameOf
    <3> QED BY <1>1, <3>1, <3>2, <3>3
  <2> QED BY <2>1, <2>2
<1>6. \A u \in held' : IsTerm(u) /\ u.text \in Texts'
  BY <1>1 DEF FiledInv
<1>7. FiledInv'
  BY <1>2, <1>4, <1>5, <1>6 DEF FiledInv, NameOf
<1> QED BY <1>1, <1>2, <1>7 DEF Grows

(* The name of a symbol, a parameter or an open term that is not known is  *)
(* not on file, nor is its text.                                           *)
LEMMA AtomNew ==
  ASSUME FiledInv, NEW a \in Atoms, a \notin Known
  PROVE  a \notin Texts
<1> SUFFICES ASSUME a \in Texts PROVE FALSE
  OBVIOUS
<1>1. term_name_map[a] = a
  BY FiledKinds
<1>2. term_name_map[a] \in Known
  BY DEF FiledInv
<1> QED BY <1>1, <1>2

LEMMA OpenNew ==
  ASSUME FiledInv, NEW x, x \notin Texts
  PROVE  <<"text", x>> \notin Known
<1> SUFFICES ASSUME NEW n \in Known, n = <<"text", x>> PROVE FALSE
  OBVIOUS
<1> DEFINE y == name_term_map[n].text
<1>1. /\ y \in Texts
      /\ \/ y \in Atoms /\ n = y
         \/ n \in GeneratedNames(term_counter)
         \/ n = <<"text", y>>
  BY KnownFiled
<1> HIDE DEF y
<1>2. n[1] = "text" /\ n[2] = x
  OBVIOUS
<1>3. n \notin GeneratedNames(term_counter)
  <2>1. term_counter \in 0 .. MaxTerms
    BY DEF FiledInv
  <2>2. n[1] # "plain"
    BY <1>2
  <2> QED BY <2>1, <2>2, Numbers
<1>4. n \notin Atoms
  <2>1. ASSUME NEW s, n = Piped(s) \/ n = Plain(s) PROVE FALSE
    <3>1. n[1] = "|" \/ n[1] = "plain"
      BY <2>1, NameKinds
    <3> QED BY <1>2, <3>1
  <2> QED BY <2>1, Zenon DEF Atoms
<1>5. n[2] = y
  BY <1>1, <1>3, <1>4
<1> QED BY <1>1, <1>2, <1>5

(* Only a parameter can be filed under a name that get_name gives,         *)
LEMMA GeneratedFiled ==
  ASSUME FiledInv, term_counter < MaxTerms, NEW x \in Texts,
         term_name_map[x] = Generated(term_counter + 1)
  PROVE  x \in Atoms /\ x = Generated(term_counter + 1)
<1> DEFINE n == Generated(term_counter + 1)
<1>1. term_counter \in 0 .. MaxTerms /\ term_counter # MaxTerms
  BY DEF FiledInv
<1>2. n \notin GeneratedNames(term_counter)
  BY <1>1, Numbers
<1>3. ~IsOpen(n)
  BY NameKinds DEF Generated
<1> HIDE DEF n
<1>4. term_name_map[x] = n
  BY DEF n
<1> QED BY <1>2, <1>3, <1>4, FiledKinds DEF n

(* and none with names that are apart.                                     *)
LEMMA GeneratedNew ==
  ASSUME FiledInv, term_counter < MaxTerms, term_counter' = term_counter + 1, Grows, NamesApart'
  PROVE  Generated(term_counter + 1) \notin Known
<1> SUFFICES ASSUME NEW n \in Known, n = Generated(term_counter + 1) PROVE FALSE
  OBVIOUS
<1> DEFINE x == name_term_map[n].text
<1>1. x \in Texts /\ term_name_map[x] = n
  BY KnownFiled
<1>2. x \in Atoms /\ x = Plain(Numbered[term_counter + 1])
  BY <1>1, GeneratedFiled DEF Generated
<1>3. Numbered[term_counter + 1] \in ParamsMade'
  <2>1. Numbered[term_counter + 1] \in ParamsMade
    BY <1>1, <1>2, AtomsMade
  <2> QED BY <2>1, ApartBefore
<1>4. Numbered[term_counter + 1] \in NumbersGiven'
  <2>1. term_counter + 1 \in 1 .. term_counter'
    BY DEF Grows
  <2> QED BY <2>1 DEF NumbersGiven
<1> QED BY <1>3, <1>4 DEF NamesApart

(* What is stored stays stored when other terms join it.                   *)
LEMMA StoredStays ==
  ASSUME NEW n, NEW t, NEW old, NEW new, NEW few, NEW more,
         NEW k \in Nat, NEW l \in Nat, k <= l, few \subseteq more,
         DOMAIN old \subseteq DOMAIN new,
         \A x \in DOMAIN old : new[x] = old[x],
         Stored(n, t, old, few, k)
  PROVE  Stored(n, t, new, more, l)
<1>1. ASSUME Made(t, old, few) PROVE Made(t, new, more)
  <2> DEFINE Is(op, names, terms, params) ==
               /\ t.text = <<op, names>>
               /\ t.means = Meaning(op, [i \in 1 .. Arity[op] |-> terms[names[i]].means],
                                    Bound(op, names))
               /\ t.ground => \A i \in 1 .. Arity[op] : terms[names[i]].ground
               /\ op = "forall" => names[1] \in params
  <2>1. PICK op \in Operators : \E names \in [1 .. Arity[op] -> DOMAIN old] :
          Is(op, names, old, few)
    BY <1>1, Zenon DEF Made
  <2>2. PICK names \in [1 .. Arity[op] -> DOMAIN old] : Is(op, names, old, few)
    BY <2>1, Zenon
  <2> DEFINE I == 1 .. Arity[op]
  <2>3. names \in [I -> DOMAIN old]
    BY <2>2
  <2>4. /\ t.text = <<op, names>>
        /\ t.means = Meaning(op, [i \in I |-> old[names[i]].means], Bound(op, names))
        /\ t.ground => \A i \in I : old[names[i]].ground
        /\ op = "forall" => names[1] \in few
    BY <2>2
  <2> HIDE DEF I
  <2>5. /\ [i \in I |-> old[names[i]].means] = [i \in I |-> new[names[i]].means]
        /\ \A i \in I : old[names[i]] = new[names[i]]
    BY <2>3
  <2>6. names \in [I -> DOMAIN new]
    BY <2>3
  <2>7. /\ t.means = Meaning(op, [i \in I |-> new[names[i]].means], Bound(op, names))
        /\ t.ground => \A i \in I : new[names[i]].ground
    BY <2>4, <2>5, Zenon
  <2>8. op = "forall" => names[1] \in more
    BY <2>4
  <2>9. Is(op, names, new, more)
    BY <2>4, <2>7, <2>8, Zenon DEF I
  <2> QED BY <2>6, <2>9, Zenon DEF Made, I
<1>2. GeneratedNames(k) \subseteq GeneratedNames(l)
  BY MoreNumbers
<1>3. ASSUME StoredParam(n, t, few) PROVE StoredParam(n, t, more)
  BY <1>3 DEF StoredParam
<1>4. ASSUME StoredGround(n, t, old, few, k) PROVE StoredGround(n, t, new, more, l)
  BY <1>1, <1>2, <1>4 DEF StoredGround
<1> QED BY <1>1, <1>3, <1>4, Zenon DEF Stored, StoredOpen

(* With the names apart a new term comes to those that are right.          *)
LEMMA StoredKeeps ==
  ASSUME FiledInv, HeldInv, StoredInv, Grows, NEW name, NEW t, Map(name, t),
         name \notin Known, t.text \notin Texts,
         Stored(name, t, name_term_map, Params', term_counter')
  PROVE  HeldInv' /\ StoredInv'
<1>1. /\ Known' = Known \cup {name} /\ Texts' = Texts \cup {t.text}
      /\ held' = held \cup {t}
      /\ name_term_map'[name] = t
      /\ \A n \in Known : name_term_map'[n] = name_term_map[n]
      /\ term_name_map'[t.text] = name
      /\ \A x \in Texts : term_name_map'[x] = term_name_map[x]
  BY MapEffect
<1>2. Params \subseteq Params'
  BY ApartBefore
<1>3. ASSUME NEW n \in Known'
      PROVE  Stored(n, name_term_map'[n], name_term_map', Params', term_counter')
  <2>1. /\ DOMAIN name_term_map \subseteq DOMAIN name_term_map'
        /\ \A x \in DOMAIN name_term_map : name_term_map'[x] = name_term_map[x]
    BY <1>1 DEF Known
  <2>2. term_counter \in Nat /\ term_counter' \in Nat /\ term_counter <= term_counter'
    BY DEF Grows
  <2>3. CASE n = name
    <3>1. Stored(n, name_term_map'[n], name_term_map, Params', term_counter')
      BY <1>1, <2>3
    <3> QED BY <2>1, <2>2, <3>1, StoredStays
  <2>4. CASE n # name
    <3>1. n \in Known /\ name_term_map'[n] = name_term_map[n]
      BY <1>1, <2>4
    <3>2. Stored(n, name_term_map'[n], name_term_map, Params, term_counter)
      BY <3>1 DEF StoredInv
    <3> QED BY <1>2, <2>1, <2>2, <3>2, StoredStays
  <2> QED BY <2>3, <2>4
<1>4. ASSUME NEW u \in held' PROVE name_term_map'[term_name_map'[u.text]] = u
  <2>1. CASE u = t
    BY <1>1, <2>1
  <2>2. CASE u \in held
    <3>1. u.text \in Texts /\ term_name_map[u.text] \in Known
      BY <2>2 DEF FiledInv
    <3>2. name_term_map[term_name_map[u.text]] = u
      BY <2>2 DEF HeldInv, NameOf
    <3> QED BY <1>1, <3>1, <3>2
  <2> QED BY <1>1, <2>1, <2>2
<1> QED BY <1>3, <1>4 DEF HeldInv, StoredInv, NameOf

-----------------------------------------------------------------------------
(* What the binary reads *)

(* The names as a client should choose them, and what follows.             *)
ReadInv == FiledInv /\ MeansInv /\ NamesApart

(* What an open term is, name, parts and meaning;                          *)
OpenTerm(n, t, terms, params, op, k, names) ==
  /\ op \in Operators /\ k = 1 .. Arity[op]
  /\ names \in [k -> DOMAIN terms] /\ DOMAIN names = k
  /\ t.text = <<op, names>> /\ n[2][1] = op /\ n[2][2] = names
  /\ IsOpen(n) /\ Parts(n) = {names[i] : i \in k} /\ Binds(n) \subseteq params
  /\ t.means = Meaning(op, [i \in k |-> terms[names[i]].means], Bound(op, names))

(* every made term under its own name is one.                              *)
LEMMA OpenParts ==
  ASSUME NEW n, NEW t, NEW terms, NEW params, n = <<"text", t.text>>, Made(t, terms, params)
  PROVE  \E op, k, names : OpenTerm(n, t, terms, params, op, k, names)
<1>1. PICK op \in Operators : \E names \in [1 .. Arity[op] -> DOMAIN terms] :
        /\ t.text = <<op, names>>
        /\ t.means = Meaning(op, [i \in 1 .. Arity[op] |-> terms[names[i]].means],
                             Bound(op, names))
        /\ op = "forall" => names[1] \in params
  BY Zenon DEF Made
<1> DEFINE k == 1 .. Arity[op]
<1>2. PICK names \in [k -> DOMAIN terms] :
        /\ t.text = <<op, names>>
        /\ t.means = Meaning(op, [i \in k |-> terms[names[i]].means], Bound(op, names))
        /\ op = "forall" => names[1] \in params
  BY <1>1, Zenon
<1>3. k = 1 .. Arity[op]
  OBVIOUS
<1> HIDE DEF k
<1>4. DOMAIN names = k
  BY <1>2
<1>5. t.text[1] = op /\ t.text[2] = names
  BY <1>2
<1>6. n[1] = "text" /\ n[2] = t.text
  OBVIOUS
<1>7. IsOpen(n)
  BY <1>6 DEF IsOpen
<1>8. n[2][1] = op /\ n[2][2] = names
  BY <1>5, <1>6
<1>9. Parts(n) = {names[i] : i \in k}
  BY <1>4, <1>7, <1>8, Zenon DEF Parts, Range
<1>10. Binds(n) \subseteq params
  BY <1>2, <1>8 DEF Binds
<1>11. OpenTerm(n, t, terms, params, op, k, names)
  BY <1>2, <1>3, <1>4, <1>7, <1>8, <1>9, <1>10 DEF OpenTerm
<1> QED BY <1>11, Zenon

(* Only open terms are texts, of names in the map and two texts deep.      *)
LEMMA OpenNames ==
  ASSUME ReadInv, NEW n \in Known, IsOpen(n)
  PROVE  StoredOpen(n, name_term_map[n], name_term_map, Params)
<1>1. Stored(n, name_term_map[n], name_term_map, Params, term_counter)
  BY DEF ReadInv, MeansInv, StoredInv
<1>2. ~StoredSymbol(n, name_term_map[n])
  BY NameKinds DEF StoredSymbol
<1>3. ~StoredParam(n, name_term_map[n], Params)
  BY NameKinds DEF StoredParam
<1>4. n \notin GeneratedNames(term_counter)
  <2>1. term_counter \in 0 .. MaxTerms
    BY DEF ReadInv, FiledInv
  <2> QED BY <2>1, Numbers
<1> QED BY <1>1, <1>2, <1>3, <1>4 DEF Stored, StoredGround

(* A bound parameter, a symbol or a numbered name is read as its term.     *)
LEMMA AtomRight ==
  ASSUME ReadInv, NEW env \in SUBSET Params, NEW n \in Known, ScopesInv,
         ~IsOpen(n), Identifier(n) \in env \cup Visible
  PROVE  AtomMeans(n, env) = name_term_map[n].means
<1>0. FiledInv /\ NamesApart /\ StoredInv /\ DefinedRight /\ term_counter \in 0 .. MaxTerms
  BY DEF ReadInv, MeansInv, FiledInv
<1>1. CASE n \in Params
  <2>1. PICK s \in ParamsMade : n = Plain(s)
    BY <1>1 DEF Params
  <2>2. Identifier(n) = n
    BY <2>1, NameKinds
  <2>3. n \notin Visible
    <3> SUFFICES ASSUME n \in Visible PROVE FALSE
      OBVIOUS
    <3>1. n \in ({Plain(r) : r \in SymbolsMade} \cup GeneratedNames(term_counter))
                  \cup SortIdentifiers(SortNames)
      BY DEF ScopesInv
    <3>2. ASSUME NEW r \in SymbolsMade, n = Plain(r) PROVE FALSE
      <4>1. r = s
        BY <2>1, <3>2, PlainOnce
      <4> QED BY <1>0, <4>1 DEF NamesApart
    <3>3. n \notin GeneratedNames(term_counter)
      BY <1>0, <2>1, ApartNumbers
    <3>4. n \notin SortIdentifiers(SortNames)
      BY <2>1, NameKinds DEF SortIdentifiers
    <3> QED BY <3>1, <3>2, <3>3, <3>4
  <2>4. AtomMeans(n, env) = Where(n)
    BY <2>2, <2>3 DEF AtomMeans
  <2>5. Stored(n, name_term_map[n], name_term_map, Params, term_counter)
    BY <1>0 DEF StoredInv
  <2>6. StoredParam(n, name_term_map[n], Params)
    <3>1. ~StoredSymbol(n, name_term_map[n])
      BY <2>1, NameKinds DEF StoredSymbol
    <3>2. n \notin GeneratedNames(term_counter)
      BY <1>0, <2>1, ApartNumbers
    <3>3. n # <<"text", name_term_map[n].text>>
      <4>1. n[1] = "plain"
        BY <2>1, NameKinds
      <4> QED BY <4>1
    <3> QED BY <2>5, <3>1, <3>2, <3>3 DEF Stored, StoredGround, StoredOpen
  <2>7. name_term_map[n].means = Where(n)
    BY <2>6, AtomTerms DEF StoredParam
  <2> QED BY <2>4, <2>7
<1>2. CASE n \notin Params
  <2>1. Identifier(n) \notin Params
    <3> SUFFICES ASSUME NEW s \in ParamsMade, Identifier(n) = Plain(s) PROVE FALSE
      BY DEF Params
    <3>1. CASE n \in GeneratedNames(term_counter)
      <4>1. n = Plain(s)
        BY <1>0, <3>1, Numbers
      <4> QED BY <1>0, <3>1, <4>1, ApartNumbers
    <3>2. ASSUME NEW r \in SymbolsMade, n = Piped(r) PROVE FALSE
      <4>1. Plain(r) = Plain(s)
        BY <3>2, NameKinds
      <4>2. r = s
        BY <4>1, PlainOnce, Zenon
      <4> QED BY <1>0, <4>2 DEF NamesApart
    <3> QED BY <1>0, <1>2, <3>1, <3>2, KnownKinds
  <2>2. Identifier(n) \notin env
    BY <2>1
  <2>3. definition[Identifier(n)] = name_term_map[n].means
    BY <1>0, <1>2, <2>2 DEF DefinedRight
  <2> QED BY <2>2, <2>3 DEF AtomMeans
<1> QED BY <1>1, <1>2

(* A text of such names is read as its term,                               *)
LEMMA InnerRight ==
  ASSUME ReadInv, ScopesInv, NEW env \in SUBSET Params, NEW n \in Known,
         \A p \in Parts(n) :
           ~IsOpen(p) /\ Identifier(p) \in (env \cup Binds(n)) \cup Visible
  PROVE  InnerMeans(n, env) = name_term_map[n].means
<1>1. CASE ~IsOpen(n)
  <2>1. Parts(n) = {n} /\ Binds(n) = {}
    BY <1>1 DEF Parts, Binds
  <2>2. AtomMeans(n, env) = name_term_map[n].means
    BY <1>1, <2>1, AtomRight
  <2> QED BY <1>1, <2>2, Zenon DEF InnerMeans, TextMeans
<1>2. CASE IsOpen(n)
  <2> DEFINE t == name_term_map[n]
             terms == name_term_map
             inner == env \cup Binds(n)
  <2>1. n = <<"text", t.text>> /\ Made(t, terms, Params)
    BY <1>2, OpenNames DEF StoredOpen
  <2> HIDE DEF t, terms
  <2>2. PICK op, k, names : OpenTerm(n, t, terms, Params, op, k, names)
    BY <2>1, OpenParts, Zenon
  <2>3. /\ names \in [k -> DOMAIN terms] /\ DOMAIN names = k
        /\ n[2][1] = op /\ n[2][2] = names
        /\ Parts(n) = {names[i] : i \in k} /\ Binds(n) \subseteq Params
        /\ t.means = Meaning(op, [i \in k |-> terms[names[i]].means], Bound(op, names))
    BY <2>2 DEF OpenTerm
  <2>4. inner \in SUBSET Params
    BY <2>3
  <2>5. ASSUME NEW i \in k PROVE AtomMeans(names[i], inner) = terms[names[i]].means
    <3>1. names[i] \in Known /\ names[i] \in Parts(n)
      BY <2>3 DEF terms, Known
    <3>2. ~IsOpen(names[i]) /\ Identifier(names[i]) \in inner \cup Visible
      BY <3>1
    <3> HIDE DEF inner
    <3> QED BY <2>4, <3>1, <3>2, AtomRight DEF terms
  <2>6. [i \in k |-> AtomMeans(names[i], inner)] = [i \in k |-> terms[names[i]].means]
    BY <2>5
  <2>7. InnerMeans(n, env)
          = Meaning(op, [i \in k |-> AtomMeans(names[i], inner)], Bound(op, names))
    BY <1>2, <2>3, Zenon DEF InnerMeans, TextMeans
  <2> QED BY <2>3, <2>6, <2>7, Zenon DEF t
<1> QED BY <1>1, <1>2

(* The identifiers free in a name, two texts deep.                         *)
LEMMA UnderstandsParts ==
  ASSUME NEW n, NEW env
  PROVE  Understands(n, env) <=>
           \A p \in Parts(n) : \A q \in Parts(p) :
             Identifier(q) \in ((env \cup Binds(n)) \cup Binds(p)) \cup Visible
<1>1. Understands(n, env) <=>
        \A p \in Parts(n) : InnerFree(p, env \cup Binds(n)) \subseteq Visible
  BY DEF Understands, Free
<1>2. ASSUME NEW p \in Parts(n)
      PROVE  InnerFree(p, env \cup Binds(n)) \subseteq Visible <=>
               \A q \in Parts(p) :
                 Identifier(q) \in ((env \cup Binds(n)) \cup Binds(p)) \cup Visible
  BY DEF InnerFree
<1> QED BY <1>1, <1>2

(* and so is whatever else the binary understands.                         *)
LEMMA BinaryRight ==
  ASSUME ReadInv, ScopesInv, NEW env \in SUBSET Params, NEW n \in Known, Understands(n, env)
  PROVE  BinaryMeans(n, env) = name_term_map[n].means
<1>1. CASE ~IsOpen(n)
  <2>1. Parts(n) = {n} /\ Binds(n) = {}
    BY <1>1 DEF Parts, Binds
  <2>2. Identifier(n) \in env \cup Visible
    BY <2>1, UnderstandsParts
  <2>3. AtomMeans(n, env) = name_term_map[n].means
    BY <1>1, <2>2, AtomRight
  <2> QED BY <1>1, <2>3, Zenon DEF BinaryMeans, TextMeans
<1>2. CASE IsOpen(n)
  <2> DEFINE t == name_term_map[n]
             terms == name_term_map
             inner == env \cup Binds(n)
  <2>1. n = <<"text", t.text>> /\ Made(t, terms, Params) /\ TwoDeep(n)
    BY <1>2, OpenNames DEF StoredOpen
  <2> HIDE DEF t, terms
  <2>2. PICK op, k, names : OpenTerm(n, t, terms, Params, op, k, names)
    BY <2>1, OpenParts, Zenon
  <2>3. /\ names \in [k -> DOMAIN terms] /\ DOMAIN names = k
        /\ n[2][1] = op /\ n[2][2] = names
        /\ Parts(n) = {names[i] : i \in k} /\ Binds(n) \subseteq Params
        /\ t.means = Meaning(op, [i \in k |-> terms[names[i]].means], Bound(op, names))
    BY <2>2 DEF OpenTerm
  <2>4. inner \in SUBSET Params
    BY <2>3
  <2>5. ASSUME NEW i \in k PROVE InnerMeans(names[i], inner) = terms[names[i]].means
    <3>1. names[i] \in Known /\ names[i] \in Parts(n)
      BY <2>3 DEF terms, Known
    <3>2. ASSUME NEW q \in Parts(names[i])
          PROVE  ~IsOpen(q) /\ Identifier(q) \in (inner \cup Binds(names[i])) \cup Visible
      <4>1. ~IsOpen(q)
        BY <2>1, <3>1 DEF TwoDeep
      <4> QED BY <3>1, <4>1, UnderstandsParts
    <3> HIDE DEF inner
    <3> QED BY <2>4, <3>1, <3>2, InnerRight DEF terms
  <2>6. [i \in k |-> InnerMeans(names[i], inner)] = [i \in k |-> terms[names[i]].means]
    BY <2>5
  <2>7. BinaryMeans(n, env)
          = Meaning(op, [i \in k |-> InnerMeans(names[i], inner)], Bound(op, names))
    BY <1>2, <2>3, Zenon DEF BinaryMeans, TextMeans
  <2> QED BY <2>3, <2>6, <2>7, Zenon DEF t
<1> QED BY <1>1, <1>2

-----------------------------------------------------------------------------
(* Terms a client holds *)

(* The term that make_term builds of terms held.                           *)
Built(t, op, k, names) ==
  /\ op \in Operators /\ k = 1 .. Arity[op]
  /\ names \in [k -> Known] /\ DOMAIN names = k
  /\ t.text = <<op, names>>
  /\ op = "forall" => names[1] \in Params

(* Its meaning and its openness, where the names lead to the arguments.    *)
BuiltMeans(t, op, k, names) ==
  /\ t.means = Meaning(op, [i \in k |-> name_term_map[names[i]].means], Bound(op, names))
  /\ t.ground => \A i \in k : name_term_map[names[i]].ground

(* It is built of the names of its arguments.                              *)
LEMMA CompoundBuilt ==
  ASSUME FiledInv, NEW op \in Operators, NEW args \in Arguments(op)
  PROVE  \E t, k, names :
           /\ t = Compound(op, args) /\ names = t.text[2] /\ IsTerm(t)
           /\ Built(t, op, k, names)
           /\ HeldInv => BuiltMeans(t, op, k, names)
<1> DEFINE k == 1 .. Arity[op]
           names == [i \in DOMAIN args |-> NameOf(args[i])]
           g == \A i \in DOMAIN args : args[i].ground
           m == Meaning(op, [i \in DOMAIN args |-> args[i].means], Bound(op, names))
           t == Compound(op, args)
<1>1. t = [text |-> <<op, names>>, sort |-> "Bool", ground |-> g, means |-> m]
  BY DEF Compound, Leaf
<1>2. args \in [k -> held] /\ (op = "forall" => args[1].text \in {Plain(s) : s \in ParamNames})
  BY DEF Arguments, BoolTerms
<1>3. m = Meaning(op, [i \in DOMAIN args |-> args[i].means], Bound(op, names))
  OBVIOUS
<1>4. names = [i \in DOMAIN args |-> NameOf(args[i])]
  OBVIOUS
<1>5. g => \A i \in DOMAIN args : args[i].ground
  OBVIOUS
<1>0. op = "forall" => 1 \in k
  BY DEF Arity
<1> HIDE DEF k, names, g, m, t
<1>6. t.text = <<op, names>> /\ t.means = m /\ t.ground = g /\ t.text[2] = names
  BY <1>1
<1>7. IsTerm(t)
  BY <1>1 DEF IsTerm
<1>8. DOMAIN args = k /\ DOMAIN names = k
  BY <1>2, <1>4
<1>9. ASSUME NEW i \in k
      PROVE  /\ args[i] \in held /\ names[i] = NameOf(args[i])
             /\ args[i].text \in Texts /\ names[i] \in Known
  BY <1>2, <1>4, <1>8 DEF FiledInv, NameOf
<1>10. names \in [k -> Known]
  BY <1>4, <1>8, <1>9
<1>11. op = "forall" => names[1] \in Params
  <2> SUFFICES ASSUME op = "forall" PROVE names[1] \in Params
    OBVIOUS
  <2>1. PICK s \in ParamNames : args[1].text = Plain(s)
    BY <1>2
  <2>2. Plain(s) \in Atoms /\ Plain(s) \in Texts /\ names[1] = term_name_map[Plain(s)]
    BY <1>0, <1>9, <2>1, Zenon DEF Atoms, NameOf
  <2>3. names[1] = Plain(s)
    BY <2>2, FiledKinds
  <2> QED BY <2>2, <2>3, AtomsMade
<1>12. Built(t, op, k, names)
  BY <1>6, <1>8, <1>10, <1>11 DEF Built, k
<1>13. ASSUME HeldInv PROVE BuiltMeans(t, op, k, names)
  <2>1. \A i \in k : name_term_map[names[i]] = args[i]
    BY <1>9, <1>13 DEF HeldInv
  <2>2. [i \in k |-> name_term_map[names[i]].means] = [i \in DOMAIN args |-> args[i].means]
    BY <1>8, <2>1
  <2>3. t.means = Meaning(op, [i \in k |-> name_term_map[names[i]].means], Bound(op, names))
    BY <1>3, <1>6, <2>2, Zenon
  <2>4. t.ground => \A i \in k : name_term_map[names[i]].ground
    BY <1>5, <1>6, <1>8, <2>1, Zenon
  <2> QED BY <2>3, <2>4 DEF BuiltMeans
<1> QED BY <1>6, <1>7, <1>12, <1>13, Zenon DEF t

(* A term built so is a made term.                                         *)
LEMMA BuiltMade ==
  ASSUME NEW t, NEW op, NEW k, NEW names, Built(t, op, k, names), BuiltMeans(t, op, k, names)
  PROVE  Made(t, name_term_map, Params)
<1>1. k = 1 .. Arity[op] /\ op \in Operators
  BY DEF Built
<1>2. names \in [1 .. Arity[op] -> DOMAIN name_term_map]
  BY <1>1, Zenon DEF Built, Known
<1>3. /\ t.text = <<op, names>>
      /\ t.means = Meaning(op, [i \in 1 .. Arity[op] |-> name_term_map[names[i]].means],
                           Bound(op, names))
      /\ t.ground => \A i \in 1 .. Arity[op] : name_term_map[names[i]].ground
      /\ op = "forall" => names[1] \in Params
  BY <1>1, Zenon DEF Built, BuiltMeans
<1> QED BY <1>1, <1>2, <1>3, Zenon DEF Made

(* What the binary takes its text for is what the client asked for.        *)
LEMMA BuiltRight ==
  ASSUME ReadInv, ScopesInv, NEW t, NEW op, NEW k, NEW names,
         Built(t, op, k, names), BuiltMeans(t, op, k, names),
         UNION {Free(n, {}) : n \in Range(names)} \subseteq Visible
  PROVE  Meaning(op, [i \in DOMAIN names |-> BinaryMeans(names[i], {})], Bound(op, names))
           = t.means
<1>1. /\ names \in [k -> Known] /\ DOMAIN names = k
      /\ t.means = Meaning(op, [i \in k |-> name_term_map[names[i]].means], Bound(op, names))
  BY DEF Built, BuiltMeans
<1>2. ASSUME NEW i \in k PROVE BinaryMeans(names[i], {}) = name_term_map[names[i]].means
  <2>1. names[i] \in Known /\ names[i] \in Range(names)
    BY <1>1 DEF Range
  <2>2. Understands(names[i], {})
    BY <2>1 DEF Understands
  <2>3. {} \in SUBSET Params
    OBVIOUS
  <2> QED BY <2>1, <2>2, <2>3, BinaryRight
<1>3. [i \in DOMAIN names |-> BinaryMeans(names[i], {})]
        = [i \in k |-> name_term_map[names[i]].means]
  BY <1>1, <1>2
<1> QED BY <1>1, <1>3, Zenon


-----------------------------------------------------------------------------
(* The scopes of the binary *)

(* What is visible is declared on some level, and defined.                 *)
LEMMA VisibleOn ==
  ASSUME ScopesInv
  PROVE  /\ scopes \in Seq(SUBSET DOMAIN definition)
         /\ Len(scopes) \in Nat /\ 1 \in 1 .. Len(scopes)
         /\ \A x : x \in Visible <=> \E i \in 1 .. Len(scopes) : x \in scopes[i]
         /\ Visible \subseteq DOMAIN definition
<1>1. scopes \in Seq(SUBSET DOMAIN definition) /\ Len(scopes) \in 1 .. MaxLevel + 1
  BY DEF ScopesInv
<1>2. Len(scopes) \in Nat /\ 1 \in 1 .. Len(scopes)
  BY <1>1
<1>3. DOMAIN scopes = 1 .. Len(scopes)
  BY <1>1
<1>4. \A x : x \in Visible <=> \E i \in 1 .. Len(scopes) : x \in scopes[i]
  BY <1>3 DEF Visible, Range
<1>5. \A i \in 1 .. Len(scopes) : scopes[i] \subseteq DOMAIN definition
  BY <1>1
<1> QED BY <1>1, <1>2, <1>4, <1>5

(* A declaration: one identifier more, and one definition.                 *)
LEMMA Declared ==
  ASSUME ScopesInv, NEW identifier, NEW means, Declare(identifier, means), global' = global
  PROVE  /\ scopes' \in Seq(SUBSET DOMAIN definition') /\ Len(scopes') = Len(scopes)
         /\ Visible' = Visible \cup {identifier}
         /\ global => Visible' \subseteq scopes'[1]
         /\ definition'[identifier] = means
         /\ \A x \in Visible : x # identifier => definition'[x] = definition[x]
<1>1. /\ scopes \in Seq(SUBSET DOMAIN definition)
      /\ Len(scopes) \in Nat /\ 1 \in 1 .. Len(scopes)
      /\ \A x : x \in Visible <=> \E i \in 1 .. Len(scopes) : x \in scopes[i]
      /\ Visible \subseteq DOMAIN definition
  BY VisibleOn
<1>2. definition' = Enter(definition, identifier, means)
  BY Zenon DEF Declare
<1>3. DOMAIN definition' = DOMAIN definition \cup {identifier}
  BY <1>2, EnteredDomain
<1>4. /\ definition'[identifier] = means
      /\ \A x \in DOMAIN definition : x # identifier => definition'[x] = definition[x]
  BY <1>2 DEF Enter
<1>5. PICK j \in 1 .. Len(scopes) : /\ scopes' = [scopes EXCEPT ![j] = @ \cup {identifier}]
                                    /\ global => j = 1
  <2>1. CASE global
    BY <1>1, <2>1 DEF Declare
  <2>2. CASE ~global
    <3>1. scopes' = [scopes EXCEPT ![Len(scopes)] = @ \cup {identifier}]
      BY <2>2 DEF Declare
    <3>2. Len(scopes) \in 1 .. Len(scopes)
      BY <1>1
    <3> QED BY <2>2, <3>1, <3>2
  <2> QED BY <2>1, <2>2
<1> DEFINE D == DOMAIN definition
           E == DOMAIN definition'
<1>6. scopes \in Seq(SUBSET D) /\ D \subseteq E /\ identifier \in E
  BY <1>1, <1>3
<1> HIDE DEF D, E
<1>7. scopes \in [1 .. Len(scopes) -> SUBSET E]
  BY <1>1, <1>6
<1>8. scopes' \in [1 .. Len(scopes) -> SUBSET E]
  BY <1>5, <1>6, <1>7
<1>9. scopes' \in Seq(SUBSET E) /\ Len(scopes') = Len(scopes) /\ DOMAIN scopes' = 1 .. Len(scopes)
  BY <1>1, <1>8
<1>10. \A i \in 1 .. Len(scopes) :
         scopes'[i] = IF i = j THEN scopes[i] \cup {identifier} ELSE scopes[i]
  BY <1>5, <1>7
<1>11. \A x : x \in Visible' <=> \E i \in 1 .. Len(scopes) : x \in scopes'[i]
  BY <1>9 DEF Visible, Range
<1>12. \A x : x \in Visible' <=> x \in Visible \cup {identifier}
  BY <1>1, <1>10, <1>11
<1>13. Visible' = Visible \cup {identifier}
  BY <1>12
<1>14. global => Visible' \subseteq scopes'[1]
  BY <1>1, <1>5, <1>10, <1>13 DEF ScopesInv
<1> QED BY <1>1, <1>4, <1>9, <1>13, <1>14 DEF E

(* What the binary may see: more symbols and numbers, more identifiers.    *)
Nameable == ({Plain(s) : s \in SymbolsMade} \cup GeneratedNames(term_counter))
              \cup SortIdentifiers(SortNames)

LEMMA NameableGrows ==
  ASSUME Grows
  PROVE  Nameable \subseteq Nameable'
<1>1. SymbolsMade \subseteq SymbolsMade'
  BY ApartBefore
<1>2. GeneratedNames(term_counter) \subseteq GeneratedNames(term_counter)'
  BY MoreNumbers DEF Grows
<1>3. {Plain(s) : s \in SymbolsMade} \subseteq {Plain(s) : s \in SymbolsMade'}
  BY <1>1, Zenon
<1> QED BY <1>2, <1>3 DEF Nameable

(* The scopes after a declaration, and when nothing is declared.           *)
LEMMA ScopesGrow ==
  ASSUME ScopesInv, Grows, NEW identifier \in Nameable', NEW means,
         Declare(identifier, means), UNCHANGED <<levels, global>>
  PROVE  /\ ScopesInv' /\ Visible \subseteq Visible' /\ identifier \in Visible'
<1>1. /\ scopes' \in Seq(SUBSET DOMAIN definition') /\ Len(scopes') = Len(scopes)
      /\ Visible' = Visible \cup {identifier}
      /\ global => Visible' \subseteq scopes'[1]
  BY Declared, Zenon
<1>2. Visible \subseteq Nameable
  BY DEF ScopesInv, Nameable
<1>3. Visible' \subseteq Nameable'
  BY <1>1, <1>2, NameableGrows
<1>4. ScopesInv'
  BY <1>1, <1>3 DEF ScopesInv, Nameable
<1> QED BY <1>1, <1>4

LEMMA ScopesKept ==
  ASSUME ScopesInv, Grows, UNCHANGED <<levels, global, scopes, definition>>
  PROVE  ScopesInv' /\ Visible' = Visible
<1>1. Visible' = Visible
  BY DEF Visible
<1>2. Visible \subseteq Nameable
  BY DEF ScopesInv, Nameable
<1>3. Visible' \subseteq Nameable'
  BY <1>1, <1>2, NameableGrows
<1> QED BY <1>1, <1>3 DEF ScopesInv, Nameable

-----------------------------------------------------------------------------
(* New terms *)

(* Under more quantifiers less is free;                                    *)
LEMMA FreeLess ==
  ASSUME NEW n, NEW env, NEW more, env \subseteq more
  PROVE  Free(n, more) \subseteq Free(n, env)
<1>1. ASSUME NEW p PROVE InnerFree(p, more \cup Binds(n)) \subseteq InnerFree(p, env \cup Binds(n))
  BY DEF InnerFree
<1> QED BY <1>1 DEF Free

(* in a name that is no text, at most its identifier;                      *)
LEMMA AtomFree ==
  ASSUME NEW n, NEW env, ~IsOpen(n)
  PROVE  Free(n, env) = {Identifier(n)} \ env
<1>1. Parts(n) = {n} /\ Binds(n) = {}
  BY DEF Parts, Binds
<1>2. Free(n, env) = InnerFree(n, env \cup {})
  BY <1>1 DEF Free
<1>3. InnerFree(n, env \cup {}) = {Identifier(n)} \ env
  BY <1>1 DEF InnerFree
<1> QED BY <1>2, <1>3

(* and in an open term what is free in its parts.                          *)
LEMMA TextFree ==
  ASSUME NEW n, NEW env, TwoDeep(n), NEW x \in Free(n, env)
  PROVE  \E p \in Parts(n) : x \in Free(p, env)
<1>1. PICK p \in Parts(n) : x \in InnerFree(p, env \cup Binds(n))
  BY DEF Free
<1>2. PICK q \in Parts(p) : x = Identifier(q) /\ x \notin env /\ x \notin Binds(p)
  BY <1>1 DEF InnerFree
<1>3. Parts(q) = {q} /\ Binds(q) = {}
  BY <1>2 DEF TwoDeep, Parts, Binds
<1>4. x \in InnerFree(q, env \cup Binds(p))
  BY <1>2, <1>3 DEF InnerFree
<1> QED BY <1>2, <1>4 DEF Free

(* What is understood stays so, with one name more.                        *)
LEMMA KnownWithOne ==
  ASSUME GlobalNamesKnown, Grows, NEW name, Known' = Known \cup {name},
         Visible \subseteq Visible', UNCHANGED <<global, sorts>>,
         history' = {} => history = {},
         global /\ history' = {} => Free(name, Params') \subseteq Visible'
  PROVE  GlobalNamesKnown'
<1> SUFFICES ASSUME global, history' = {}
             PROVE  /\ \A n \in Known' : Free(n, Params') \subseteq Visible'
                    /\ {SortIdentifier(s) : s \in sorts} \subseteq Visible'
  BY DEF GlobalNamesKnown, Known, Understands
<1>1. /\ \A n \in Known : Free(n, Params) \subseteq Visible
      /\ {SortIdentifier(s) : s \in sorts} \subseteq Visible
  BY DEF GlobalNamesKnown, Known, Understands
<1>2. ASSUME NEW n \in Known PROVE Free(n, Params') \subseteq Visible'
  <2>1. Params \subseteq Params'
    BY ApartBefore
  <2>2. Free(n, Params') \subseteq Free(n, Params)
    BY <2>1, FreeLess
  <2> QED BY <1>1, <2>2
<1> QED BY <1>1, <1>2

(* Identifiers tell names apart, also in the next state.                   *)
IdentifiersDiffer ==
  FiledInv /\ NamesApart =>
    \A n, k \in Known :
      /\ ~IsOpen(n) /\ ~IsOpen(k) /\ n \notin Params /\ k \notin Params
      /\ Identifier(n) = Identifier(k)
      => n = k

LEMMA OnceIdentified == IdentifiersDiffer
BY SameIdentifier DEF IdentifiersDiffer

(* With the names apart, a term under a new name comes to the others: the  *)
(* binary gets its definition, or it is no name the binary has to know.    *)
LEMMA MeansKeeps ==
  ASSUME FiledInv, ScopesInv, MeansInv, FiledInv', Grows, NamesApart',
         NEW name, NEW t, Map(name, t), name \notin Known, t.text \notin Texts,
         Stored(name, t, name_term_map, Params', term_counter'), global' = global,
         \/ Declare(Identifier(name), t.means) /\ ~IsOpen(name) /\ name \notin Params'
         \/ /\ UNCHANGED <<scopes, definition>>
            /\ IsOpen(name) \/ name \in Params' \/ Identifier(name) \notin Visible
  PROVE  MeansInv'
<1>1. HeldInv' /\ StoredInv'
  BY StoredKeeps DEF MeansInv
<1>2. /\ Known' = Known \cup {name} /\ name_term_map'[name] = t
      /\ \A n \in Known : name_term_map'[n] = name_term_map[n]
  BY MapEffect
<1>3. Params \subseteq Params'
  BY ApartBefore
<1>4. ASSUME NEW n \in Known', ~IsOpen(n), n \notin Params', Identifier(n) \in Visible'
      PROVE  definition'[Identifier(n)] = name_term_map'[n].means
  <2>1. ASSUME n # name, Identifier(n) \in Visible
        PROVE  definition[Identifier(n)] = name_term_map'[n].means
    BY <1>2, <1>3, <1>4, <2>1 DEF MeansInv, DefinedRight
  <2>2. CASE Declare(Identifier(name), t.means) /\ ~IsOpen(name) /\ name \notin Params'
    <3>1. /\ Visible' = Visible \cup {Identifier(name)}
          /\ definition'[Identifier(name)] = t.means
          /\ \A x \in Visible : x # Identifier(name) => definition'[x] = definition[x]
      BY <2>2, Declared, Zenon
    <3>2. IdentifiersDiffer'
      BY OnceIdentified, PTL
    <3>3. Identifier(n) = Identifier(name) => n = name
      BY <1>2, <1>4, <2>2, <3>2 DEF IdentifiersDiffer
    <3> QED BY <1>2, <1>4, <2>1, <3>1, <3>3
  <2>3. CASE /\ UNCHANGED <<scopes, definition>>
             /\ IsOpen(name) \/ name \in Params' \/ Identifier(name) \notin Visible
    <3>1. Visible' = Visible
      BY <2>3 DEF Visible
    <3> QED BY <1>4, <2>1, <2>3, <3>1
  <2> QED BY <2>2, <2>3
<1>5. DefinedRight'
  BY <1>4 DEF DefinedRight
<1> QED BY <1>1, <1>5 DEF MeansInv

(* make_symbol, whether or not the binary takes the declaration            *)
LEMMA SymbolKeeps ==
  ASSUME TermsInv, NEW s \in SymbolNames, make_symbol(s)
  PROVE  TermsInv' /\ Grows
<1> DEFINE name == Piped(s)
           t == SymbolTerm(s)
           x == Plain(s)
<1>1. /\ Map(name, t) /\ Declares(x, t.means) /\ name \notin Known
      /\ UNCHANGED <<sorts, term_counter, levels, global>>
  BY NameKinds DEF make_symbol, Known, stack
<1>2. /\ IsTerm(t) /\ t.text = name /\ ~IsOpen(name) /\ Identifier(name) = x
      /\ StoredSymbol(name, t)
  BY AtomTerms, NameKinds DEF StoredSymbol
<1>3. name \in Atoms
  BY Zenon DEF Atoms
<1>4. name \notin Params'
  BY NameKinds DEF Params
<1>5. FiledInv /\ ScopesInv /\ GlobalNamesKnown /\ term_counter \in 0 .. MaxTerms
  BY DEF TermsInv, FiledInv
<1>6. t.text \notin Texts
  BY <1>1, <1>2, <1>3, <1>5, AtomNew
<1>7. FiledInv' /\ Grows
  <2>1. Filed(t.text, name, term_counter')
    BY <1>2, <1>3 DEF Filed
  <2>2. \A y \in Texts : term_name_map[y] # name
    BY <1>1, <1>5 DEF FiledInv
  <2>3. term_counter' \in term_counter .. MaxTerms
    BY <1>1, <1>5, GenericBounds DEF GenericBounds
  <2> HIDE DEF name, t
  <2> QED BY <1>1, <1>2, <1>5, <1>6, <2>1, <2>2, <2>3, FiledKeeps
<1>8. Known' = Known \cup {name} /\ Texts' = Texts \cup {t.text}
  <2> HIDE DEF name, t
  <2> QED BY <1>1, MapEffect
<1>9. s \in SymbolsMade'
  BY <1>2, <1>8 DEF SymbolsMade, Texts
<1>10. x \in Nameable'
  BY <1>9 DEF Nameable
<1>11. Stored(name, t, name_term_map, Params', term_counter')
  BY <1>2 DEF Stored
<1>12. ASSUME NamesApart' PROVE x \notin Visible
  <2>1. s \notin NumbersGiven'
    BY <1>9, <1>12 DEF NamesApart
  <2>2. s \notin SymbolsMade
    BY <1>2, <1>6 DEF SymbolsMade, Texts
  <2>3. ASSUME NEW r, x = Plain(r) PROVE r = s
    BY <2>3, PlainOnce
  <2>4. x \notin {Plain(r) : r \in SymbolsMade}
    BY <2>2, <2>3, Zenon
  <2>5. x \notin GeneratedNames(term_counter)
    <3>1. ASSUME NEW i \in 1 .. term_counter, x = Plain(Numbered[i]) PROVE FALSE
      BY <1>1, <2>1, <2>3, <3>1 DEF NumbersGiven
    <3> QED BY <3>1 DEF GeneratedNames, Generated
  <2>6. x \notin SortIdentifiers(SortNames)
    BY NameKinds DEF SortIdentifiers
  <2> QED BY <1>5, <2>4, <2>5, <2>6 DEF ScopesInv
<1> HIDE DEF name, t, x
<1>13. CASE Declare(x, t.means) /\ UNCHANGED history
  <2>1. ScopesInv' /\ Visible \subseteq Visible' /\ x \in Visible'
    BY <1>1, <1>5, <1>7, <1>10, <1>13, ScopesGrow
  <2>2. NamesApart' => MeansInv'
    BY <1>1, <1>2, <1>4, <1>5, <1>6, <1>7, <1>11, <1>13, ApartBefore, MeansKeeps DEF TermsInv
  <2>3. Free(name, Params') \subseteq Visible'
    BY <1>2, <2>1, AtomFree
  <2>4. GlobalNamesKnown'
    BY <1>1, <1>5, <1>7, <1>8, <1>13, <2>1, <2>3, KnownWithOne
  <2> QED BY <1>7, <2>1, <2>2, <2>4 DEF TermsInv
<1>14. CASE history' = history \cup {"refused"} /\ UNCHANGED <<scopes, definition>>
  <2>1. ScopesInv' /\ Visible' = Visible
    BY <1>1, <1>5, <1>7, <1>14, ScopesKept
  <2>2. NamesApart' => MeansInv'
    BY <1>1, <1>2, <1>4, <1>5, <1>6, <1>7, <1>11, <1>12, <1>14, ApartBefore, MeansKeeps
       DEF TermsInv
  <2>3. GlobalNamesKnown'
    BY <1>14 DEF GlobalNamesKnown
  <2> QED BY <1>7, <2>1, <2>2, <2>3 DEF TermsInv
<1> QED BY <1>1, <1>13, <1>14 DEF Declares

(* make_param                                                              *)
LEMMA ParamKeeps ==
  ASSUME TermsInv, NEW s \in ParamNames, make_param(s)
  PROVE  TermsInv' /\ Grows
<1> DEFINE name == Plain(s)
           t == ParamTerm(s)
<1>1. /\ Map(name, t) /\ name \notin Known
      /\ UNCHANGED <<sorts, term_counter, levels, global, scopes, definition, history>>
  BY DEF make_param, Known, stack
<1>2. IsTerm(t) /\ t.text = name /\ ~IsOpen(name) /\ Identifier(name) = name
  BY AtomTerms, NameKinds
<1>3. name \in Atoms
  BY Zenon DEF Atoms
<1>4. FiledInv /\ ScopesInv /\ GlobalNamesKnown /\ term_counter \in 0 .. MaxTerms
  BY DEF TermsInv, FiledInv
<1>5. t.text \notin Texts
  BY <1>1, <1>2, <1>3, <1>4, AtomNew
<1>6. FiledInv' /\ Grows
  <2>1. Filed(t.text, name, term_counter')
    BY <1>2, <1>3 DEF Filed
  <2>2. \A y \in Texts : term_name_map[y] # name
    BY <1>1, <1>4 DEF FiledInv
  <2>3. term_counter' \in term_counter .. MaxTerms
    BY <1>1, <1>4, GenericBounds DEF GenericBounds
  <2> HIDE DEF name, t
  <2> QED BY <1>1, <1>2, <1>4, <1>5, <2>1, <2>2, <2>3, FiledKeeps
<1>7. Known' = Known \cup {name} /\ Texts' = Texts \cup {t.text}
  <2> HIDE DEF name, t
  <2> QED BY <1>1, MapEffect
<1>8. name \in Params'
  <2>1. s \in ParamsMade'
    BY <1>2, <1>7 DEF ParamsMade, Texts
  <2> QED BY <2>1 DEF Params
<1>9. Stored(name, t, name_term_map, Params', term_counter')
  BY <1>8 DEF Stored, StoredParam
<1> HIDE DEF name, t
<1>10. ScopesInv' /\ Visible' = Visible
  BY <1>1, <1>4, <1>6, ScopesKept
<1>11. NamesApart' => MeansInv'
  BY <1>1, <1>4, <1>5, <1>6, <1>8, <1>9, ApartBefore, MeansKeeps DEF TermsInv
<1>12. Free(name, Params') \subseteq Visible'
  BY <1>2, <1>8, AtomFree
<1>13. GlobalNamesKnown'
  BY <1>1, <1>4, <1>6, <1>7, <1>10, <1>12, KnownWithOne
<1> QED BY <1>6, <1>10, <1>11, <1>13 DEF TermsInv

(* store_term of a ground term: under the next number, which was a         *)
(* parameter's at most; the binary reads it as it is meant as long as no   *)
(* string is the name of two things.                                       *)
LEMMA GroundKeeps ==
  ASSUME TermsInv, NEW t, NEW uses, NEW means, StoreGround(t, uses, means), IsTerm(t),
         t.text[1] \notin {"|", "plain"},
         NamesApart => t.text[1] = "value" \/ Made(t, name_term_map, Params),
         NamesApart /\ uses \subseteq Visible => means = t.means,
         UNCHANGED <<sorts, levels, global, history>>
  PROVE  TermsInv' /\ Grows
<1> DEFINE name == Generated(term_counter + 1)
<1>1. /\ t.text \notin Texts /\ t.ground
      /\ term_counter < MaxTerms /\ term_counter' = term_counter + 1
  BY DEF StoreGround, Texts
<1>2. FiledInv /\ ScopesInv /\ GlobalNamesKnown /\ term_counter \in 0 .. MaxTerms
  BY DEF TermsInv, FiledInv
<1>3. /\ term_counter \in Nat /\ MaxTerms \in Nat /\ term_counter' \in Nat
      /\ term_counter' \in term_counter .. MaxTerms /\ term_counter' \in 0 .. MaxTerms
      /\ term_counter + 1 \in 1 .. term_counter'
  BY <1>1, <1>2, GenericBounds DEF GenericBounds
<1>4. name \in GeneratedNames(term_counter')
  BY <1>3, Zenon DEF GeneratedNames
<1>5. ~IsOpen(name) /\ Identifier(name) = name
  BY NameKinds DEF Generated
<1>6. CASE /\ uses \subseteq Visible
           /\ Map(Generated(term_counter'), t) /\ Declare(Generated(term_counter'), means)
  <2>1. Map(name, t) /\ Declare(name, means) /\ uses \subseteq Visible
    BY <1>1, <1>6
  <2>2. FiledInv' /\ Grows
    <3>1. Filed(t.text, name, term_counter')
      BY <1>4 DEF Filed
    <3>2. ASSUME NEW x \in Texts, term_name_map[x] = name
          PROVE  x \in GeneratedNames(term_counter')
      BY <1>1, <1>2, <1>4, <3>2, GeneratedFiled
    <3> HIDE DEF name
    <3> QED BY <1>1, <1>2, <1>3, <2>1, <3>1, <3>2, FiledKeeps
  <2>3. name \in Nameable'
    BY <1>4 DEF Nameable
  <2>4. ASSUME NamesApart'
        PROVE  /\ name \notin Known /\ name \notin Params' /\ means = t.means
               /\ Stored(name, t, name_term_map, Params', term_counter')
    <3>1. NamesApart /\ Params \subseteq Params'
      BY <2>2, <2>4, ApartBefore
    <3>2. name \notin Known
      BY <1>1, <1>2, <2>2, <2>4, GeneratedNew
    <3>3. name \notin Params'
      <4>1. Numbered[term_counter + 1] \in NumbersGiven'
        BY <1>3 DEF NumbersGiven
      <4>2. ASSUME NEW s \in ParamsMade', name = Plain(s) PROVE FALSE
        <5>1. s = Numbered[term_counter + 1]
          BY <4>2, PlainOnce DEF Generated
        <5> QED BY <2>4, <4>1, <5>1 DEF NamesApart
      <4> QED BY <4>2, Zenon DEF Params
    <3>4. StoredGround(name, t, name_term_map, Params, term_counter')
      BY <1>1, <1>4, <3>1 DEF StoredGround
    <3> HIDE DEF name
    <3>5. Stored(name, t, name_term_map, Params, term_counter')
      BY <3>4 DEF Stored
    <3>6. Stored(name, t, name_term_map, Params', term_counter')
      BY <1>3, <3>1, <3>5, StoredStays
    <3> QED BY <2>1, <3>1, <3>2, <3>3, <3>6
  <2> HIDE DEF name
  <2>5. ScopesInv' /\ Visible \subseteq Visible' /\ name \in Visible'
    BY <1>2, <2>1, <2>2, <2>3, ScopesGrow
  <2>6. NamesApart' => MeansInv'
    BY <1>1, <1>2, <1>5, <2>1, <2>2, <2>4, ApartBefore, MeansKeeps DEF TermsInv
  <2>7. Known' = Known \cup {name}
    BY <2>1, MapEffect
  <2>8. Free(name, Params') \subseteq Visible'
    BY <1>5, <2>5, AtomFree
  <2>9. GlobalNamesKnown'
    BY <1>2, <2>2, <2>5, <2>7, <2>8, KnownWithOne
  <2> QED BY <2>2, <2>5, <2>6, <2>9 DEF TermsInv
<1>7. CASE UNCHANGED <<name_term_map, term_name_map, held, scopes, definition>>
  <2>1. GeneratedNames(term_counter) \subseteq GeneratedNames(term_counter')
    BY <1>1, <1>3, MoreNumbers
  <2>2. FiledInv' /\ Grows
    <3>1. \A x, n : Filed(x, n, term_counter) => Filed(x, n, term_counter')
      BY <2>1 DEF Filed
    <3> QED BY <1>1, <1>2, <1>3, <1>7, <2>1, <3>1 DEF FiledInv, Grows, Known, Texts, NameOf
  <2>3. ScopesInv' /\ Visible' = Visible
    BY <1>2, <1>7, <2>2, ScopesKept
  <2>4. Params' = Params
    BY <1>7 DEF Params, ParamsMade
  <2>5. ASSUME NamesApart' PROVE MeansInv'
    <3>1. HeldInv /\ StoredInv /\ DefinedRight
      BY <2>2, <2>5, ApartBefore DEF TermsInv, MeansInv
    <3>2. ASSUME NEW n \in Known
          PROVE  Stored(n, name_term_map[n], name_term_map, Params, term_counter')
      <4>1. Stored(n, name_term_map[n], name_term_map, Params, term_counter)
        BY <3>1 DEF StoredInv
      <4> QED BY <1>1, <1>3, <4>1, StoredStays
    <3>3. StoredInv'
      BY <1>7, <2>4, <3>2 DEF StoredInv, Known
    <3>4. HeldInv' /\ DefinedRight'
      BY <1>7, <2>3, <2>4, <3>1 DEF HeldInv, DefinedRight, Known, NameOf
    <3> QED BY <3>3, <3>4 DEF MeansInv
  <2>6. GlobalNamesKnown'
    BY <1>2, <1>7, <2>3, <2>4 DEF GlobalNamesKnown, Understands
  <2> QED BY <2>2, <2>3, <2>5, <2>6 DEF TermsInv
<1> QED BY <1>6, <1>7 DEF StoreGround

(* store_term of an open term: it is its own name                          *)
LEMMA OpenKeeps ==
  ASSUME TermsInv, NEW t, IsTerm(t), StoreOpen(t), NEW op, NEW k, NEW names,
         Built(t, op, k, names), HeldInv => BuiltMeans(t, op, k, names),
         UNCHANGED <<sorts, levels, global, history>>
  PROVE  TermsInv' /\ Grows
<1> DEFINE name == <<"text", t.text>>
<1>1. /\ t.text \notin Texts /\ ~t.ground /\ TwoDeep(name) /\ Map(name, t)
      /\ UNCHANGED <<term_counter, scopes, definition>>
  BY DEF StoreOpen, Texts
<1>2. FiledInv /\ ScopesInv /\ GlobalNamesKnown /\ term_counter \in 0 .. MaxTerms
  BY DEF TermsInv, FiledInv
<1>3. name \notin Known
  BY <1>1, <1>2, OpenNew
<1>4. IsOpen(name) /\ name[2] = t.text
  BY DEF IsOpen
<1>5. op \in Operators /\ names \in [k -> Known] /\ DOMAIN names = k /\ t.text = <<op, names>>
  BY DEF Built
<1>6. \A p \in Parts(name) : p \in Known
  <2>1. Parts(name) = Range(names)
    BY <1>4, <1>5 DEF Parts
  <2> QED BY <1>5, <2>1 DEF Range
<1>7. Filed(t.text, name, term_counter')
  <2>1. t.text[1] \notin {"|", "plain"}
    BY <1>5 DEF Operators
  <2> QED BY <2>1 DEF Filed
<1>8. ASSUME HeldInv PROVE StoredOpen(name, t, name_term_map, Params)
  BY <1>1, <1>8, BuiltMade, Zenon DEF StoredOpen
<1> HIDE DEF name
<1>9. FiledInv' /\ Grows
  <2>1. \A y \in Texts : term_name_map[y] # name
    BY <1>2, <1>3 DEF FiledInv
  <2>2. term_counter' \in term_counter .. MaxTerms
    BY <1>1, <1>2, GenericBounds DEF GenericBounds
  <2> QED BY <1>1, <1>2, <1>7, <2>1, <2>2, FiledKeeps
<1>10. ScopesInv' /\ Visible' = Visible
  BY <1>1, <1>2, <1>9, ScopesKept
<1>11. ASSUME NamesApart' PROVE MeansInv'
  <2>1. MeansInv /\ Params \subseteq Params'
    BY <1>9, <1>11, ApartBefore DEF TermsInv
  <2>2. Stored(name, t, name_term_map, Params, term_counter')
    BY <1>8, <2>1 DEF MeansInv, Stored
  <2>3. term_counter' \in Nat
    BY <1>9 DEF Grows
  <2>4. Stored(name, t, name_term_map, Params', term_counter')
    BY <2>1, <2>2, <2>3, StoredStays
  <2> QED BY <1>1, <1>2, <1>3, <1>4, <1>9, <1>11, <2>1, <2>4, MeansKeeps
<1>12. ASSUME global, history' = {} PROVE Free(name, Params') \subseteq Visible'
  <2>1. \A n \in Known : Free(n, Params) \subseteq Visible
    BY <1>2, <1>12 DEF GlobalNamesKnown, Known, Understands
  <2>2. ASSUME NEW x \in Free(name, Params') PROVE x \in Visible
    <3>1. PICK p \in Parts(name) : x \in Free(p, Params')
      BY <1>1, TextFree
    <3>2. Params \subseteq Params'
      BY <1>9, ApartBefore
    <3>3. x \in Free(p, Params)
      BY <3>1, <3>2, FreeLess
    <3> QED BY <1>6, <2>1, <3>1, <3>3
  <2> QED BY <1>10, <2>2
<1>13. Known' = Known \cup {name}
  BY <1>1, MapEffect
<1>14. GlobalNamesKnown'
  BY <1>2, <1>9, <1>10, <1>12, <1>13, KnownWithOne
<1> QED BY <1>9, <1>10, <1>11, <1>14 DEF TermsInv

(* make_term of a value                                                    *)
LEMMA ValueKeeps ==
  ASSUME TermsInv, NEW v, make_value(v), IsTerm(v), v.text[1] = "value"
  PROVE  TermsInv' /\ Grows
<1>1. StoreGround(v, {}, v.means) /\ UNCHANGED <<sorts, levels, global, history>>
  BY DEF make_value, stack
<1>2. v.text[1] \notin {"|", "plain"}
  OBVIOUS
<1> QED BY <1>1, <1>2, GroundKeeps

(* both kinds of values are such terms                                     *)
LEMMA Values ==
  /\ \A b : IsTerm(BoolValue(b)) /\ BoolValue(b).text[1] = "value"
  /\ \A s : IsTerm(ZeroValue(s)) /\ ZeroValue(s).text[1] = "value"
<1>1. ASSUME NEW b PROVE IsTerm(BoolValue(b)) /\ BoolValue(b).text[1] = "value"
  <2> DEFINE m == IF b THEN Models ELSE {}
  <2>1. BoolValue(b) = [text |-> <<"value", b>>, sort |-> "Bool", ground |-> TRUE, means |-> m]
    BY DEF BoolValue, Leaf
  <2> HIDE DEF m
  <2> QED BY <2>1 DEF IsTerm
<1>2. ASSUME NEW s PROVE IsTerm(ZeroValue(s)) /\ ZeroValue(s).text[1] = "value"
  BY DEF ZeroValue, Leaf, IsTerm
<1> QED BY <1>1, <1>2

(* store_term of an operator's term                                        *)
LEMMA TermKeeps ==
  ASSUME TermsInv, NEW op \in Operators, NEW args \in Arguments(op), store_term(op, args)
  PROVE  TermsInv' /\ Grows
<1>1. PICK t, names :
        /\ t = Compound(op, args) /\ names = t.text[2]
        /\ \/ StoreGround(t, UNION {Free(n, {}) : n \in Range(names)},
                          Meaning(op, [i \in DOMAIN names |-> BinaryMeans(names[i], {})],
                                  Bound(op, names)))
           \/ StoreOpen(t)
  BY DEF store_term
<1>2. UNCHANGED <<sorts, levels, global, history>>
  BY DEF store_term, stack
<1>3. FiledInv /\ ScopesInv
  BY DEF TermsInv
<1>4. PICK u, k, given :
        /\ u = Compound(op, args) /\ given = u.text[2] /\ IsTerm(u)
        /\ Built(u, op, k, given)
        /\ HeldInv => BuiltMeans(u, op, k, given)
  BY <1>3, CompoundBuilt, Zenon
<1>5. u = t /\ given = names
  BY <1>1, <1>4
<1>6. IsTerm(t) /\ Built(t, op, k, names) /\ (HeldInv => BuiltMeans(t, op, k, names))
  BY <1>4, <1>5, Zenon
<1>7. CASE StoreGround(t, UNION {Free(n, {}) : n \in Range(names)},
                       Meaning(op, [i \in DOMAIN names |-> BinaryMeans(names[i], {})],
                               Bound(op, names)))
  <2> DEFINE uses == UNION {Free(n, {}) : n \in Range(names)}
             means == Meaning(op, [i \in DOMAIN names |-> BinaryMeans(names[i], {})],
                              Bound(op, names))
  <2>1. ASSUME NamesApart PROVE ReadInv /\ HeldInv
    BY <1>3, <2>1 DEF TermsInv, ReadInv, MeansInv
  <2>2. NamesApart /\ uses \subseteq Visible => means = t.means
    BY <1>3, <1>6, <2>1, BuiltRight, Zenon
  <2>3. NamesApart => Made(t, name_term_map, Params)
    BY <1>6, <2>1, BuiltMade, Zenon
  <2>4. t.text[1] \notin {"|", "plain"}
    BY <1>6 DEF Built, Operators
  <2>5. StoreGround(t, uses, means)
    BY <1>7
  <2> HIDE DEF uses, means
  <2> QED BY <1>2, <1>6, <2>2, <2>3, <2>4, <2>5, GroundKeeps
<1>8. CASE StoreOpen(t)
  BY <1>2, <1>6, <1>8, OpenKeeps, Zenon
<1> QED BY <1>1, <1>7, <1>8

-----------------------------------------------------------------------------
(* The other calls *)

(* make_sort: the identifier of a sort is none of a term.                  *)
LEMMA SortKeeps ==
  ASSUME TermsInv, NEW s \in SortNames, make_sort(s)
  PROVE  TermsInv' /\ Grows
<1> DEFINE x == SortIdentifier(s)
<1>1. /\ sorts' = sorts \cup {s} /\ Declares(x, {})
      /\ UNCHANGED <<name_term_map, term_name_map, held, term_counter, levels, global>>
  BY DEF make_sort, stack
<1>2. /\ FiledInv' /\ Grows /\ NamesApart' = NamesApart
      /\ SymbolsMade' = SymbolsMade /\ Params' = Params /\ Known' = Known
  BY <1>1, MapsKept DEF TermsInv
<1>3. FiledInv /\ ScopesInv /\ GlobalNamesKnown
  BY DEF TermsInv
<1>4. x \in Nameable'
  BY DEF Nameable, SortIdentifiers
<1>5. {SortIdentifier(r) : r \in sorts'} = {SortIdentifier(r) : r \in sorts} \cup {x}
  BY <1>1
<1>6. ASSUME NEW n \in Known, ~IsOpen(n), FiledInv, NamesApart PROVE Identifier(n) # x
  <2>1. CASE n \in GeneratedNames(term_counter)
    <3>1. term_counter \in 0 .. MaxTerms
      BY <1>6 DEF FiledInv
    <3>2. Identifier(n)[1] = "plain"
      BY <2>1, <3>1, Numbers
    <3>3. x[1] = "sort"
      BY NameKinds
    <3> QED BY <3>2, <3>3
  <2>2. ASSUME NEW r, n = Piped(r) \/ n = Plain(r) PROVE Identifier(n) # x
    BY <2>2, NameKinds
  <2> QED BY <1>6, <2>1, <2>2, KnownKinds
<1> HIDE DEF x
<1>7. HeldInv /\ StoredInv => HeldInv' /\ StoredInv'
  BY <1>1, <1>2 DEF HeldInv, StoredInv, NameOf
<1>8. CASE Declare(x, {}) /\ UNCHANGED history
  <2>1. ScopesInv' /\ Visible \subseteq Visible' /\ x \in Visible'
    BY <1>1, <1>2, <1>3, <1>4, <1>8, ScopesGrow
  <2>2. ASSUME NamesApart PROVE MeansInv'
    <3>1. MeansInv
      BY <2>2 DEF TermsInv
    <3>2. /\ Visible' = Visible \cup {x}
          /\ \A y \in Visible : y # x => definition'[y] = definition[y]
      BY <1>1, <1>3, <1>8, Declared
    <3>3. ASSUME NEW n \in Known, ~IsOpen(n), n \notin Params, Identifier(n) \in Visible'
          PROVE  definition'[Identifier(n)] = name_term_map[n].means
      BY <1>3, <1>6, <2>2, <3>1, <3>2, <3>3 DEF MeansInv, DefinedRight
    <3>4. DefinedRight'
      BY <1>1, <1>2, <3>3 DEF DefinedRight
    <3> QED BY <1>7, <3>1, <3>4 DEF MeansInv
  <2>3. GlobalNamesKnown'
    <3> SUFFICES ASSUME global, history = {}
                 PROVE  /\ \A n \in Known : Free(n, Params) \subseteq Visible'
                        /\ {SortIdentifier(r) : r \in sorts'} \subseteq Visible'
      BY <1>1, <1>2, <1>8 DEF GlobalNamesKnown, Understands, Known
    <3>1. /\ \A n \in Known : Free(n, Params) \subseteq Visible
          /\ {SortIdentifier(r) : r \in sorts} \subseteq Visible
      BY <1>3 DEF GlobalNamesKnown, Understands, Known
    <3> QED BY <1>5, <2>1, <3>1
  <2> QED BY <1>2, <2>1, <2>2, <2>3 DEF TermsInv
<1>9. CASE history' = history \cup {"refused"} /\ UNCHANGED <<scopes, definition>>
  <2>1. ScopesInv' /\ Visible' = Visible
    BY <1>1, <1>2, <1>3, <1>9, ScopesKept
  <2>2. ASSUME NamesApart PROVE MeansInv'
    BY <1>1, <1>2, <1>7, <1>9, <2>1, <2>2 DEF TermsInv, MeansInv, DefinedRight
  <2>3. GlobalNamesKnown'
    BY <1>9 DEF GlobalNamesKnown
  <2> QED BY <1>2, <2>1, <2>2, <2>3 DEF TermsInv
<1> QED BY <1>1, <1>8, <1>9 DEF Declares

(* Calls that store nothing: fewer names may be visible, of those of       *)
(* global declarations none less.                                          *)
LEMMA NothingStored ==
  ASSUME TermsInv, UNCHANGED <<maps, definition>>,
         scopes' \in Seq(SUBSET DOMAIN definition), levels' \in Seq(SUBSET Models),
         Len(levels') = Len(scopes'), Len(scopes') \in 1 .. MaxLevel + 1,
         Visible' \subseteq Visible,
         global' => Visible' \subseteq scopes'[1],
         global' /\ history' = {} => global /\ history = {} /\ Visible \subseteq Visible'
  PROVE  TermsInv' /\ Grows
<1>1. UNCHANGED <<name_term_map, term_name_map, held, term_counter, sorts, definition>>
  BY DEF maps
<1>2. /\ FiledInv' /\ Grows /\ NamesApart' = NamesApart
      /\ SymbolsMade' = SymbolsMade /\ Params' = Params /\ Known' = Known
  BY <1>1, MapsKept DEF TermsInv
<1>3. ScopesInv'
  BY <1>1, <1>2 DEF TermsInv, ScopesInv
<1>4. ASSUME NamesApart PROVE MeansInv'
  <2>1. HeldInv /\ StoredInv /\ DefinedRight
    BY <1>4 DEF TermsInv, MeansInv
  <2>2. HeldInv' /\ StoredInv'
    BY <1>1, <1>2, <2>1 DEF HeldInv, StoredInv, NameOf
  <2>3. DefinedRight'
    BY <1>1, <1>2, <2>1 DEF DefinedRight
  <2> QED BY <2>2, <2>3 DEF MeansInv
<1>5. GlobalNamesKnown'
  BY <1>1, <1>2 DEF TermsInv, GlobalNamesKnown, Understands, Known
<1> QED BY <1>2, <1>3, <1>4, <1>5 DEF TermsInv

(* The binary's stack as it was.                                           *)
LEMMA StackKept ==
  ASSUME TermsInv, UNCHANGED <<maps, scopes, definition, global, history>>,
         levels' \in Seq(SUBSET Models), Len(levels') = Len(levels)
  PROVE  TermsInv' /\ Grows
<1>1. Visible' = Visible
  BY DEF Visible
<1>2. /\ scopes' \in Seq(SUBSET DOMAIN definition) /\ Len(levels') = Len(scopes')
      /\ Len(scopes') \in 1 .. MaxLevel + 1
      /\ global' => Visible' \subseteq scopes'[1]
  BY <1>1 DEF TermsInv, ScopesInv
<1> QED BY <1>1, <1>2, NothingStored

(* The levels of the binary, and that it has one.                          *)
LEMMA LevelsOn ==
  ASSUME ScopesInv
  PROVE  /\ levels \in Seq(SUBSET Models) /\ Len(levels) \in Nat /\ Len(levels) >= 1
         /\ Len(levels) = Len(scopes) /\ Top \in SUBSET Models
<1>1. /\ levels \in Seq(SUBSET Models) /\ Len(levels) = Len(scopes)
      /\ Len(scopes) \in 1 .. MaxLevel + 1
  BY DEF ScopesInv
<1>2. Len(levels) \in Nat /\ Len(levels) >= 1
  BY <1>1
<1>3. levels[Len(levels)] \in SUBSET Models
  BY <1>1, <1>2, ElementOfSeq
<1> QED BY <1>1, <1>2, <1>3 DEF Top

(* assert_formula                                                          *)
LEMMA AssertKeeps ==
  ASSUME TermsInv, NEW t, assert_formula(t)
  PROVE  TermsInv' /\ Grows /\ Len(levels') = Len(levels)
<1> DEFINE M == SUBSET Models
           n == BinaryMeans(NameOf(t), {})
<1>1. /\ levels \in Seq(M) /\ Len(levels) \in Nat /\ Len(levels) >= 1
  BY LevelsOn DEF TermsInv
<1>2. /\ levels' = [levels EXCEPT ![Len(levels)] = @ \cap n]
      /\ UNCHANGED <<maps, scopes, definition, global, history>>
  BY DEF assert_formula
<1>3. \A x \in M : x \cap n \in M
  OBVIOUS
<1> HIDE DEF M, n
<1>4. levels' \in [1 .. Len(levels) -> M]
  BY <1>1, <1>2, <1>3
<1>5. levels' \in Seq(M) /\ Len(levels') = Len(levels)
  BY <1>1, <1>4
<1> QED BY <1>2, <1>5, StackKept DEF M

(* push                                                                    *)
LEMMA PushKeeps ==
  ASSUME TermsInv, NEW num \in Nat, push(num)
  PROVE  TermsInv' /\ Grows /\ Len(levels') = Len(levels) + num
<1> DEFINE M == SUBSET Models
           D == SUBSET DOMAIN definition
           tops == [i \in 1 .. num |-> Top]
           none == [i \in 1 .. num |-> {}]
<1>1. /\ levels' = levels \o tops /\ scopes' = scopes \o none
      /\ UNCHANGED <<maps, definition, global, history>>
      /\ Len(levels) + num <= MaxLevel + 1
  BY DEF push
<1>2. /\ levels \in Seq(M) /\ Len(levels) \in Nat /\ Len(levels) >= 1
      /\ Len(levels) = Len(scopes) /\ Top \in M
  BY LevelsOn DEF TermsInv
<1>3. /\ scopes \in Seq(D) /\ Len(scopes) \in Nat
      /\ \A x : x \in Visible <=> \E i \in 1 .. Len(scopes) : x \in scopes[i]
  BY VisibleOn DEF TermsInv
<1>4. {} \in D
  OBVIOUS
<1> HIDE DEF M, D
<1>5. tops \in Seq(M) /\ Len(tops) = num
  BY <1>2
<1>6. none \in Seq(D) /\ Len(none) = num /\ \A i \in 1 .. num : none[i] = {}
  BY <1>4
<1> HIDE DEF tops, none
<1>7. levels' \in Seq(M) /\ Len(levels') = Len(levels) + num
  BY <1>1, <1>2, <1>5, ConcatProperties
<1>8. /\ scopes' \in Seq(D) /\ Len(scopes') = Len(scopes) + num
      /\ \A i \in 1 .. Len(scopes) + num :
           scopes'[i] = IF i <= Len(scopes) THEN scopes[i] ELSE none[i - Len(scopes)]
  <2>1. scopes \in Seq(D) /\ none \in Seq(D)
    BY <1>3, <1>6
  <2>2. /\ scopes \o none \in Seq(D)
        /\ Len(scopes \o none) = Len(scopes) + Len(none)
        /\ \A i \in 1 .. Len(scopes) + Len(none) :
             (scopes \o none)[i] = IF i <= Len(scopes) THEN scopes[i] ELSE none[i - Len(scopes)]
    BY <2>1, ConcatProperties, Zenon
  <2>3. scopes' = scopes \o none /\ Len(none) = num
    BY <1>1, <1>6
  <2> QED BY <2>2, <2>3, Zenon
<1>9. DOMAIN scopes' = 1 .. Len(scopes) + num
  BY <1>3, <1>8
<1>10. \A x : x \in Visible' <=> \E i \in 1 .. Len(scopes) + num : x \in scopes'[i]
  BY <1>9 DEF Visible, Range
<1>11. \A i \in 1 .. Len(scopes) : i \in 1 .. Len(scopes) + num /\ scopes'[i] = scopes[i]
  BY <1>3, <1>8
<1>12. \A i \in 1 .. Len(scopes) + num : i \notin 1 .. Len(scopes) => scopes'[i] = {}
  BY <1>3, <1>6, <1>8
<1>13. Visible' = Visible
  BY <1>3, <1>10, <1>11, <1>12
<1>14. scopes'[1] = scopes[1]
  BY <1>2, <1>11
<1>15. Len(scopes') \in 1 .. MaxLevel + 1 /\ Len(levels') = Len(scopes')
  BY <1>1, <1>2, <1>7, <1>8, GenericBounds DEF GenericBounds
<1>16. global' => Visible' \subseteq scopes'[1]
  BY <1>1, <1>13, <1>14 DEF TermsInv, ScopesInv
<1> QED BY <1>1, <1>7, <1>8, <1>13, <1>15, <1>16, NothingStored DEF M, D

(* pop                                                                     *)
LEMMA PopKeeps ==
  ASSUME TermsInv, NEW num \in Nat, pop(num)
  PROVE  /\ TermsInv' /\ Grows
         /\ num < Len(levels) /\ Len(levels') = Len(levels) - num
<1> DEFINE M == SUBSET Models
           D == SUBSET DOMAIN definition
           left == Len(levels) - num
<1>1. /\ levels' = SubSeq(levels, 1, Len(levels) - num)
      /\ scopes' = SubSeq(scopes, 1, Len(scopes) - num)
      /\ UNCHANGED <<maps, definition, global, history>>
      /\ num < Len(levels)
  BY DEF pop
<1>2. /\ levels \in Seq(M) /\ Len(levels) \in Nat /\ Len(levels) >= 1
      /\ Len(levels) = Len(scopes)
  BY LevelsOn DEF TermsInv
<1>3. /\ scopes \in Seq(D) /\ Len(scopes) \in Nat
      /\ \A x : x \in Visible <=> \E i \in 1 .. Len(scopes) : x \in scopes[i]
  BY VisibleOn DEF TermsInv
<1>4. left \in Nat /\ left >= 1 /\ left <= Len(levels)
  BY <1>1, <1>2
<1>5. levels' = SubSeq(levels, 1, left) /\ scopes' = SubSeq(scopes, 1, left)
  BY <1>1, <1>2
<1> HIDE DEF M, D, left
<1>6. /\ \A i \in 1 .. left : levels[i] \in M
      /\ \A i \in 1 .. left : scopes[i] \in D
  BY <1>2, <1>3, <1>4
<1>7. levels' \in Seq(M) /\ Len(levels') = left
  BY <1>2, <1>4, <1>5, <1>6, SubSeqProperties
<1>8. /\ scopes' \in Seq(D) /\ Len(scopes') = left
      /\ \A i \in 1 .. left : scopes'[i] = scopes[i]
  BY <1>2, <1>3, <1>4, <1>5, <1>6, SubSeqProperties
<1>9. DOMAIN scopes' = 1 .. left
  BY <1>8
<1>10. \A x : x \in Visible' <=> \E i \in 1 .. left : x \in scopes'[i]
  BY <1>9 DEF Visible, Range
<1>11. \A i \in 1 .. left : i \in 1 .. Len(scopes) /\ scopes'[i] = scopes[i]
  BY <1>2, <1>4, <1>8
<1>12. Visible' \subseteq Visible
  BY <1>3, <1>10, <1>11
<1>13. scopes'[1] = scopes[1] /\ 1 \in 1 .. left
  BY <1>4, <1>11
<1>14. global => Visible \subseteq scopes[1]
  BY DEF TermsInv, ScopesInv
<1>15. global => Visible \subseteq Visible' /\ Visible' \subseteq scopes'[1]
  BY <1>10, <1>12, <1>13, <1>14
<1>16. Len(scopes') \in 1 .. MaxLevel + 1 /\ Len(levels') = Len(scopes')
  <2>1. Len(levels) <= MaxLevel + 1
    BY <1>2 DEF TermsInv, ScopesInv
  <2> QED BY <1>2, <1>4, <1>7, <1>8, <2>1, GenericBounds DEF GenericBounds
<1> QED BY <1>1, <1>7, <1>8, <1>12, <1>15, <1>16, NothingStored DEF M, D, left

(* reset and reset_assertions                                              *)
LEMMA ResetKeeps ==
  ASSUME TermsInv, reset \/ reset_assertions
  PROVE  TermsInv' /\ Grows /\ Len(levels') = 1 /\ "reset" \in history'
<1>1. PICK S : /\ levels' = <<Models>> /\ scopes' = <<S>>
               /\ S = {} \/ (S = Visible /\ global' = global)
               /\ UNCHANGED <<maps, definition>>
               /\ history' = history \cup {"reset"}
  BY DEF reset, reset_assertions
<1>2. Visible \subseteq DOMAIN definition
  BY VisibleOn DEF TermsInv
<1>3. S \in SUBSET DOMAIN definition /\ S \subseteq Visible
  BY <1>1, <1>2
<1>4. <<S>> \in Seq(SUBSET DOMAIN definition) /\ Len(<<S>>) = 1 /\ <<S>>[1] = S
  BY <1>3
<1>5. <<Models>> \in Seq(SUBSET Models) /\ Len(<<Models>>) = 1
  OBVIOUS
<1>6. Visible' = S
  BY <1>1, <1>4 DEF Visible, Range
<1>7. 1 \in 1 .. MaxLevel + 1
  BY GenericBounds DEF GenericBounds
<1>8. "reset" \in history'
  BY <1>1
<1> QED BY <1>1, <1>3, <1>4, <1>5, <1>6, <1>7, <1>8, NothingStored
-----------------------------------------------------------------------------
(* Cores *)

(* A name that is no text is a symbol's or bare.                           *)
LEMMA KnownAtom ==
  ASSUME FiledInv, NEW n \in Known, ~IsOpen(n)
  PROVE  Identifier(n) = n \/ \E s : n = Piped(s)
<1> DEFINE x == name_term_map[n].text
<1>1. \/ x \in Atoms /\ n = x
      \/ n \in GeneratedNames(term_counter)
  BY KnownFiled
<1> HIDE DEF x
<1>2. CASE n \in Atoms
  <2>1. PICK s : n = Piped(s) \/ n = Plain(s)
    BY <1>2, Zenon DEF Atoms
  <2> QED BY <2>1, NameKinds
<1>3. CASE n \in GeneratedNames(term_counter)
  <2>1. term_counter \in 0 .. MaxTerms
    BY DEF FiledInv
  <2> QED BY <1>3, <2>1, Numbers
<1> QED BY <1>1, <1>2, <1>3

(* With or without its bars such a name leads to a term,                   *)
LEMMA AtomHeld ==
  ASSUME FiledInv, NEW n \in Known, ~IsOpen(n), NEW name \in {n, Identifier(n)}
  PROVE  Atom(name) \in held
<1>1. \A k \in Known : name_term_map[k] \in held
  BY DEF FiledInv
<1>2. name \in Known \/ Piped(name[2]) \in Known
  <2>1. ASSUME NEW s, n = Piped(s), name = Plain(s) PROVE Piped(name[2]) \in Known
    BY <2>1, NameKinds
  <2> QED BY <2>1, KnownAtom, NameKinds
<1> QED BY <1>1, <1>2 DEF Atom, Known

(* and to its own as long as no string is the name of two things.          *)
LEMMA AtomFound ==
  ASSUME FiledInv, NamesApart, NEW n \in Known, ~IsOpen(n), NEW name \in {n, Identifier(n)}
  PROVE  Atom(name) = name_term_map[n]
<1>1. CASE name = n
  BY <1>1 DEF Atom, Known
<1>2. ASSUME NEW s, n = Piped(s), name = Plain(s) PROVE Atom(name) = name_term_map[n]
  <2>1. s \in SymbolsMade
    <3>1. \A r : n # Plain(r) /\ (n = Piped(r) => r = s)
      BY <1>2, NameKinds
    <3>2. n \notin Params
      BY <3>1 DEF Params
    <3>3. n \notin GeneratedNames(term_counter)
      BY <3>1 DEF GeneratedNames, Generated
    <3> QED BY <3>1, <3>2, <3>3, KnownKinds
  <2>2. name \notin Known
    <3> SUFFICES ASSUME NEW k \in Known, k = Plain(s) PROVE FALSE
      BY <1>2
    <3>1. ~IsOpen(k) /\ \A r : k # Piped(r) /\ (k = Plain(r) => r = s)
      BY NameKinds
    <3>2. CASE k \in GeneratedNames(term_counter)
      BY <2>1, <3>2, ApartNumbers
    <3>3. ASSUME NEW r \in ParamsMade, k = Plain(r) PROVE FALSE
      BY <2>1, <3>1, <3>3 DEF NamesApart
    <3> QED BY <3>1, <3>2, <3>3, KnownKinds
  <2>3. Piped(name[2]) = n
    BY <1>2, NameKinds
  <2> QED BY <2>2, <2>3 DEF Atom, Known
<1> QED BY <1>1, <1>2, KnownAtom, NameKinds

(* The name of a term is kept when another is stored.                      *)
LEMMA NamesStay ==
  ASSUME FiledInv, NEW op, NEW args, store_term(op, args), NEW u \in held
  PROVE  NameOf(u)' = NameOf(u)
<1>1. u.text \in Texts
  BY DEF FiledInv
<1>2. \/ UNCHANGED term_name_map
      \/ \E name, t : Map(name, t) /\ t.text \notin DOMAIN term_name_map
  BY Zenon DEF store_term, StoreGround, StoreOpen
<1>3. ASSUME NEW name, NEW t, Map(name, t), t.text \notin DOMAIN term_name_map
      PROVE  term_name_map'[u.text] = term_name_map[u.text]
  <2>1. \A x \in Texts : x # t.text => term_name_map'[x] = term_name_map[x]
    BY <1>3, MapEffect
  <2>2. u.text # t.text
    BY <1>1, <1>3 DEF Texts
  <2> QED BY <1>1, <2>1, <2>2
<1>4. term_name_map'[u.text] = term_name_map[u.text]
  BY <1>2, <1>3
<1> QED BY <1>4 DEF NameOf

(* The negation of a term is the operator's text of its name.              *)
LEMMA NegatedText ==
  ASSUME NEW atom
  PROVE  Compound("not", <<atom>>).text = <<"not", <<NameOf(atom)>>>>
<1> DEFINE names == [i \in DOMAIN <<atom>> |-> NameOf(<<atom>>[i])]
<1>1. Compound("not", <<atom>>).text = <<"not", names>>
  BY DEF Compound, Leaf
<1>2. names = <<NameOf(atom)>>
  OBVIOUS
<1> QED BY <1>1, <1>2

(* A negated assumption: its child is no open term, and it is found.       *)
LEMMA NegationFound ==
  ASSUME FiledInv, HeldInv, StoredInv, NamesApart, NEW t \in held, ~IsOpen(NameOf(t)),
         t.text[1] = "not"
  PROVE  LET p == t.text[2][1]
         IN /\ p \in Known /\ ~IsOpen(p)
            /\ t.text = <<"not", <<p>>>> /\ NameOf(name_term_map[p]) = p
<1> DEFINE n == NameOf(t)
<1>1. n \in Known /\ name_term_map[n] = t
  BY DEF FiledInv, HeldInv, NameOf
<1>2. Stored(n, t, name_term_map, Params, term_counter)
  BY <1>1 DEF StoredInv
<1>3. n # <<"text", t.text>>
  BY DEF IsOpen
<1> HIDE DEF n
<1>4. ~StoredSymbol(n, t) /\ ~StoredParam(n, t, Params)
  <2>1. ASSUME NEW s PROVE t # SymbolTerm(s) /\ t # ParamTerm(s)
    <3>1. SymbolTerm(s).text[1] = "|" /\ ParamTerm(s).text[1] = "plain"
      <4>1. SymbolTerm(s).text = Piped(s) /\ ParamTerm(s).text = Plain(s)
        BY AtomTerms
      <4>2. Piped(s)[1] = "|" /\ Plain(s)[1] = "plain"
        BY NameKinds
      <4> QED BY <4>1, <4>2
    <3> QED BY <3>1
  <2> QED BY <2>1, Zenon DEF StoredSymbol, StoredParam
<1>5. t.ground /\ Made(t, name_term_map, Params)
  <2>1. t.text[1] # "value"
    OBVIOUS
  <2> QED BY <1>2, <1>3, <1>4, <2>1 DEF Stored, StoredGround, StoredOpen
<1>6. PICK op \in Operators : \E names \in [1 .. Arity[op] -> DOMAIN name_term_map] :
        /\ t.text = <<op, names>>
        /\ t.ground => \A i \in 1 .. Arity[op] : name_term_map[names[i]].ground
  BY <1>5, Zenon DEF Made
<1>7. op = "not" /\ Arity[op] = 1
  BY <1>6 DEF Arity
<1>8. PICK names \in [1 .. 1 -> Known] :
        /\ t.text = <<"not", names>>
        /\ \A i \in 1 .. 1 : name_term_map[names[i]].ground
  BY <1>5, <1>6, <1>7 DEF Known
<1> DEFINE p == names[1]
<1>9. p \in Known /\ name_term_map[p].ground /\ t.text[2] = names /\ names = <<p>>
  BY <1>8
<1> HIDE DEF p
<1>10. t.text = <<"not", <<p>>>> /\ t.text[2][1] = p
  BY <1>8, <1>9
<1>11. NameOf(name_term_map[p]) = p
  BY <1>9 DEF FiledInv
<1>12. ~IsOpen(p)
  <2> SUFFICES ASSUME IsOpen(p) PROVE FALSE
    OBVIOUS
  <2>1. Stored(p, name_term_map[p], name_term_map, Params, term_counter)
    BY <1>9 DEF StoredInv
  <2>2. ~StoredSymbol(p, name_term_map[p]) /\ ~StoredParam(p, name_term_map[p], Params)
    BY NameKinds DEF StoredSymbol, StoredParam
  <2>3. p \notin GeneratedNames(term_counter)
    BY Numbers DEF FiledInv
  <2> QED BY <1>9, <2>1, <2>2, <2>3 DEF Stored, StoredGround, StoredOpen
<1> QED BY <1>9, <1>10, <1>11, <1>12

(* Reading a literal back stores at most its negation,                     *)
LEMMA ReadBackKeeps ==
  ASSUME TermsInv, AnswerInv, get_unsat_assumptions
  PROVE  /\ TermsInv' /\ Grows /\ core' \subseteq held'
         /\ \A u \in held : NameOf(u)' = NameOf(u)
<1>1. PICK t \in assumed : \E literal \in Literals(t) : get_assumption(literal)
  BY DEF get_unsat_assumptions
<1>2. PICK literal \in Literals(t) : get_assumption(literal)
  BY <1>1
<1>3. /\ UNCHANGED <<levels, global, history>>
      /\ FiledInv /\ ScopesInv /\ t \in held /\ ~IsOpen(NameOf(t))
  BY DEF get_unsat_assumptions, stack, TermsInv, AnswerInv
<1>4. ASSUME UNCHANGED <<maps, scopes, definition>>
      PROVE  /\ TermsInv' /\ Grows /\ held' = held
             /\ \A u \in held : NameOf(u)' = NameOf(u)
  <2>1. levels' \in Seq(SUBSET Models) /\ Len(levels') = Len(levels)
    BY <1>3, LevelsOn
  <2>2. TermsInv' /\ Grows
    BY <1>3, <1>4, <2>1, StackKept
  <2> QED BY <1>4, <2>2 DEF maps, NameOf
<1>5. CASE literal.positive /\ core' = {Atom(literal.name)} /\ UNCHANGED <<maps, scopes, definition>>
  <2>1. NameOf(t) \in Known
    BY <1>3 DEF FiledInv, NameOf
  <2>2. literal.name \in {NameOf(t), Identifier(NameOf(t))}
    BY <1>2, <1>5 DEF Literals
  <2>3. Atom(literal.name) \in held
    BY <1>3, <2>1, <2>2, AtomHeld
  <2> QED BY <1>4, <1>5, <2>3
<1>6. CASE Atom(literal.name) \in BoolTerms /\ Negate(Atom(literal.name))
  <2> DEFINE atom == Atom(literal.name)
             u == Compound("not", <<atom>>)
  <2>1. CASE /\ u.text \in DOMAIN term_name_map
             /\ core' = {name_term_map[NameOf(u)]}
             /\ UNCHANGED <<maps, scopes, definition>>
    <3>1. name_term_map[NameOf(u)] \in held
      BY <1>3, <2>1 DEF FiledInv, NameOf, Texts
    <3> QED BY <1>4, <2>1, <3>1
  <2>2. CASE store_term("not", <<atom>>) /\ core' = {v \in {u} : v \in held'}
    <3>1. "not" \in Operators /\ Arity["not"] = 1
      BY DEF Operators, Arity
    <3>2. <<atom>> \in [1 .. 1 -> BoolTerms]
      BY <1>6
    <3>3. <<atom>> \in Arguments("not")
      BY <3>1, <3>2 DEF Arguments
    <3>4. TermsInv' /\ Grows
      BY <2>2, <3>1, <3>3, TermKeeps
    <3> QED BY <1>3, <2>2, <3>4, NamesStay
  <2> QED BY <1>6, <2>1, <2>2 DEF Negate
<1> QED BY <1>2, <1>5, <1>6 DEF get_assumption

(* and finds the assumption.                                               *)
LEMMA AssumptionFound ==
  ASSUME TermsInv, AnswerInv, get_unsat_assumptions, NamesApart
  PROVE  core' \subseteq assumed
<1>1. PICK t \in assumed : \E literal \in Literals(t) : get_assumption(literal)
  BY DEF get_unsat_assumptions
<1>2. PICK literal \in Literals(t) : get_assumption(literal)
  BY <1>1
<1>3. /\ FiledInv /\ HeldInv /\ StoredInv /\ t \in held /\ ~IsOpen(NameOf(t))
  BY DEF TermsInv, MeansInv, AnswerInv
<1>4. NameOf(t) \in Known /\ name_term_map[NameOf(t)] = t
  BY <1>3 DEF FiledInv, HeldInv, NameOf
<1>5. CASE literal.positive /\ core' = {Atom(literal.name)}
  <2>1. literal.name \in {NameOf(t), Identifier(NameOf(t))}
    BY <1>2, <1>5 DEF Literals
  <2>2. Atom(literal.name) = t
    BY <1>3, <1>4, <2>1, AtomFound
  <2> QED BY <1>5, <2>2
<1>6. CASE ~literal.positive /\ Negate(Atom(literal.name))
  <2> DEFINE p == t.text[2][1]
             atom == name_term_map[p]
             u == Compound("not", <<atom>>)
  <2>1. t.text[1] = "not" /\ literal.name \in {p, Identifier(p)}
    BY <1>2, <1>6 DEF Literals
  <2>2. /\ p \in Known /\ ~IsOpen(p)
        /\ t.text = <<"not", <<p>>>> /\ NameOf(atom) = p
    BY <1>3, <2>1, NegationFound
  <2>3. Atom(literal.name) = atom
    <3> HIDE DEF p
    <3> QED BY <1>3, <2>1, <2>2, AtomFound
  <2>4. u.text = t.text
    <3> HIDE DEF p, atom
    <3> QED BY <2>2, NegatedText
  <2>5. u.text \in DOMAIN term_name_map /\ NameOf(u) = NameOf(t)
    BY <1>3, <2>4 DEF FiledInv, Texts, NameOf
  <2> HIDE DEF p, atom, u
  <2>6. ~store_term("not", <<atom>>)
    <3>1. Compound("not", <<atom>>).text \in DOMAIN term_name_map
      BY <2>5 DEF u
    <3> QED BY <3>1, Zenon DEF store_term, StoreGround, StoreOpen
  <2>7. Negate(atom)
    BY <1>6, <2>3
  <2>8. core' = {name_term_map[NameOf(u)]}
    BY <2>6, <2>7, Zenon DEF Negate, u
  <2> QED BY <1>4, <2>5, <2>8
<1> QED BY <1>2, <1>5, <1>6 DEF get_assumption

(* get_unsat_assumptions                                                   *)
LEMMA CoreKeeps ==
  ASSUME TermsInv, AnswerInv, get_unsat_assumptions
  PROVE  TermsInv' /\ AnswerInv'
<1>1. /\ TermsInv' /\ Grows /\ core' \subseteq held'
      /\ \A u \in held : NameOf(u)' = NameOf(u)
  BY ReadBackKeeps
<1>2. UNCHANGED <<answer, assumed>>
  BY DEF get_unsat_assumptions
<1>3. assumed' \subseteq held' /\ \A t \in assumed' : ~IsOpen(NameOf(t)')
  BY <1>1, <1>2 DEF AnswerInv, Grows
<1>4. NamesApart' => core' \subseteq assumed'
  BY <1>1, <1>2, ApartBefore, AssumptionFound
<1> QED BY <1>1, <1>2, <1>3, <1>4 DEF AnswerInv

(* The other calls leave no core.                                          *)
LEMMA NoCore ==
  ASSUME answer' \in {"none", "sat", "unsat", "unknown"}, core' = {},
         assumed' \subseteq held', \A t \in assumed' : ~IsOpen(NameOf(t)')
  PROVE  AnswerInv'
BY DEF AnswerInv
-----------------------------------------------------------------------------
(* Theorems *)

(* A new solver has no names and one level.                                *)
LEMMA InitInv == Init => IInv
<1> SUFFICES ASSUME Init PROVE IInv
  OBVIOUS
<1>1. /\ DOMAIN name_term_map = {} /\ DOMAIN term_name_map = {}
      /\ sorts = {} /\ term_counter = 0 /\ context_level_ = 0
      /\ scopes = <<{}>> /\ DOMAIN definition = {} /\ levels = <<Models>>
      /\ global \in BOOLEAN
      /\ answer = "none" /\ assumed = {} /\ core = {} /\ history = {}
  BY DEF Init
<1>2. Known = {} /\ Texts = {} /\ held = {}
  BY <1>1 DEF Known, Texts, Init
<1>3. FiledInv
  BY <1>1, <1>2, GenericBounds DEF GenericBounds, FiledInv
<1>4. scopes \in Seq(SUBSET DOMAIN definition) /\ Len(scopes) = 1 /\ scopes[1] = {}
  BY <1>1
<1>5. Visible = {}
  BY <1>4 DEF Visible, Range
<1>6. levels \in Seq(SUBSET Models) /\ Len(levels) = 1
  BY <1>1
<1>7. ScopesInv
  BY <1>4, <1>5, <1>6, GenericBounds DEF GenericBounds, ScopesInv
<1>8. MeansInv
  BY <1>2 DEF MeansInv, HeldInv, StoredInv, DefinedRight
<1>9. GlobalNamesKnown
  BY <1>1 DEF GlobalNamesKnown
<1>10. TermsInv
  BY <1>3, <1>7, <1>8, <1>9 DEF TermsInv
<1>11. AnswerInv /\ OtherInv /\ LevelsAgree
  BY <1>1, <1>6 DEF AnswerInv, OtherInv, LevelsAgree
<1> QED BY <1>10, <1>11 DEF IInv

(* A step that leaves the level counters alone, and one that moves both.   *)
LEMMA CountersKeep ==
  ASSUME IInv, TermsInv', AnswerInv',
         sorts' \subseteq SortNames, global' \in {global, FALSE},
         history \subseteq history', history' \subseteq {"reset", "refused"},
         context_level_' \in Nat,
         \/ context_level_' - context_level_ = Len(levels') - Len(levels)
         \/ context_level_' = context_level_ /\ Len(levels') = 1 /\ "reset" \in history'
  PROVE  IInv'
<1>1. /\ Len(levels) \in Nat /\ context_level_ \in Nat /\ global \in BOOLEAN
      /\ Len(levels) <= context_level_ + 1
      /\ "reset" \in history \/ context_level_ = Len(levels) - 1
  BY LevelsOn DEF IInv, OtherInv, LevelsAgree
<1>2. Len(levels') \in Nat
  BY DEF TermsInv, ScopesInv
<1>3. Len(levels') <= context_level_' + 1
  <2>1. CASE context_level_' - context_level_ = Len(levels') - Len(levels)
    BY <1>1, <1>2, <2>1
  <2>2. CASE context_level_' = context_level_ /\ Len(levels') = 1
    BY <1>1, <2>2
  <2> QED BY <2>1, <2>2
<1>4. "reset" \in history' \/ context_level_' = Len(levels') - 1
  <2>1. CASE "reset" \in history
    BY <2>1
  <2>2. CASE "reset" \notin history' /\ "reset" \notin history
    <3>1. /\ context_level_' - context_level_ = Len(levels') - Len(levels)
          /\ context_level_ = Len(levels) - 1
      BY <1>1, <2>2
    <3> QED BY <1>1, <1>2, <3>1
  <2> QED BY <2>1, <2>2
<1>5. global' \in BOOLEAN
  BY <1>1
<1>6. OtherInv' /\ LevelsAgree'
  BY <1>3, <1>4, <1>5 DEF OtherInv, LevelsAgree
<1> QED BY <1>6 DEF IInv

(* Every step keeps the invariant.                                         *)
LEMMA StepInv == IInv /\ [Next]_vars => IInv'
<1> SUFFICES ASSUME IInv, [Next]_vars PROVE IInv'
  OBVIOUS
<1>1. TermsInv /\ AnswerInv /\ OtherInv
  BY DEF IInv
<1>2. /\ sorts \subseteq SortNames /\ context_level_ \in Nat
      /\ history \subseteq {"reset", "refused"}
      /\ Len(levels) \in Nat /\ Len(levels) <= context_level_ + 1
  BY <1>1, LevelsOn DEF OtherInv, TermsInv
<1>3. ASSUME TermsInv', Grows, NoQuery, UNCHANGED <<context_level_, global>>,
             Len(levels') = Len(levels), sorts' \subseteq SortNames,
             history' \in {history, history \cup {"refused"}}
      PROVE  IInv'
  <2>1. AnswerInv'
    BY <1>3, NoCore DEF NoQuery
  <2> QED BY <1>2, <1>3, <2>1, CountersKeep
<1>4. ASSUME NEW s \in SortNames, make_sort(s) PROVE IInv'
  <2>1. TermsInv' /\ Grows
    BY <1>1, <1>4, SortKeeps
  <2>2. /\ NoQuery /\ UNCHANGED <<context_level_, levels, global>>
        /\ sorts' = sorts \cup {s}
        /\ history' \in {history, history \cup {"refused"}}
    BY <1>4 DEF make_sort, stack, Declares
  <2> QED BY <1>2, <1>3, <2>1, <2>2
<1>5. ASSUME NEW s \in SymbolNames, make_symbol(s) PROVE IInv'
  <2>1. TermsInv' /\ Grows
    BY <1>1, <1>5, SymbolKeeps
  <2>2. /\ NoQuery /\ UNCHANGED <<context_level_, levels, global, sorts>>
        /\ history' \in {history, history \cup {"refused"}}
    BY <1>5 DEF make_symbol, stack, Declares
  <2> QED BY <1>2, <1>3, <2>1, <2>2
<1>6. ASSUME NEW s \in ParamNames, make_param(s) PROVE IInv'
  <2>1. TermsInv' /\ Grows
    BY <1>1, <1>6, ParamKeeps
  <2>2. NoQuery /\ UNCHANGED <<context_level_, levels, global, sorts, history>>
    BY <1>6 DEF make_param, stack
  <2> QED BY <1>2, <1>3, <2>1, <2>2
<1>7. ASSUME NEW b, make_value(BoolValue(b)) \/ make_value(ZeroValue(b)) PROVE IInv'
  <2>1. PICK v : make_value(v) /\ IsTerm(v) /\ v.text[1] = "value"
    BY <1>7, Values
  <2>2. TermsInv' /\ Grows
    BY <1>1, <2>1, ValueKeeps
  <2>3. NoQuery /\ UNCHANGED <<context_level_, levels, global, sorts, history>>
    BY <2>1 DEF make_value, stack
  <2> QED BY <1>2, <1>3, <2>2, <2>3
<1>8. ASSUME NEW op \in Operators, NEW args \in Arguments(op), make_term(op, args)
      PROVE  IInv'
  <2>1. store_term(op, args) /\ NoQuery
    BY <1>8 DEF make_term
  <2>2. TermsInv' /\ Grows
    BY <1>1, <2>1, TermKeeps
  <2>3. UNCHANGED <<context_level_, levels, global, sorts, history>>
    BY <2>1 DEF store_term, stack
  <2> QED BY <1>2, <1>3, <2>1, <2>2, <2>3
<1>9. ASSUME NoQuery PROVE AnswerInv'
  BY <1>9, NoCore DEF NoQuery
<1>10. ASSUME NEW t, assert_formula(t) PROVE IInv'
  <2>1. TermsInv' /\ Grows /\ Len(levels') = Len(levels)
    BY <1>1, <1>10, AssertKeeps
  <2>2. NoQuery /\ UNCHANGED <<context_level_, global, sorts, history>>
    BY <1>10 DEF assert_formula, maps
  <2> QED BY <1>2, <1>3, <2>1, <2>2
<1>11. ASSUME NEW n \in Counts, push(n) PROVE IInv'
  <2>1. n \in Nat
    BY GenericBounds DEF GenericBounds
  <2>2. TermsInv' /\ Grows /\ Len(levels') = Len(levels) + n
    BY <1>1, <1>11, <2>1, PushKeeps
  <2>3. /\ NoQuery /\ UNCHANGED <<global, sorts, history>>
        /\ context_level_' = context_level_ + n
    BY <1>11 DEF push, maps
  <2>4. AnswerInv'
    BY <1>9, <2>3
  <2>5. context_level_' \in Nat /\ context_level_' - context_level_ = Len(levels') - Len(levels)
    BY <1>2, <2>1, <2>2, <2>3
  <2> QED BY <1>2, <2>2, <2>3, <2>4, <2>5, CountersKeep
<1>12. ASSUME NEW n \in Counts, pop(n) PROVE IInv'
  <2>1. n \in Nat
    BY GenericBounds DEF GenericBounds
  <2>2. TermsInv' /\ Grows /\ n < Len(levels) /\ Len(levels') = Len(levels) - n
    BY <1>1, <1>12, <2>1, PopKeeps
  <2>3. /\ NoQuery /\ UNCHANGED <<global, sorts, history>>
        /\ context_level_' = context_level_ - n
    BY <1>12 DEF pop, maps
  <2>4. AnswerInv'
    BY <1>9, <2>3
  <2>5. context_level_' \in Nat /\ context_level_' - context_level_ = Len(levels') - Len(levels)
    BY <1>2, <2>1, <2>2, <2>3
  <2> QED BY <1>2, <2>2, <2>3, <2>4, <2>5, CountersKeep
<1>13. ASSUME NEW A \in SUBSET held, \A t \in A : ~IsOpen(NameOf(t)), assumed' = A, core' = {},
              answer' \in {"sat", "unsat", "unknown"},
              UNCHANGED <<maps, stack, scopes, definition, global, history>>
       PROVE  IInv'
  <2>1. UNCHANGED <<levels, context_level_, sorts, held, term_name_map>>
    BY <1>13 DEF stack, maps
  <2>2. levels' \in Seq(SUBSET Models) /\ Len(levels') = Len(levels)
    BY <1>1, <2>1, LevelsOn DEF TermsInv
  <2>3. TermsInv'
    BY <1>1, <1>13, <2>2, StackKept
  <2>4. AnswerInv'
    BY <1>13, <2>1, NoCore DEF NameOf
  <2>5. context_level_' - context_level_ = Len(levels') - Len(levels) /\ context_level_' \in Nat
    BY <1>2, <2>1
  <2> QED BY <1>2, <1>13, <2>1, <2>3, <2>4, <2>5, CountersKeep
<1>14. CASE check_sat
  BY <1>13, <1>14 DEF check_sat
<1>15. ASSUME NEW A \in {{t} : t \in BoolTerms}, check_sat_assuming(A) PROVE IInv'
  <2>1. A \in SUBSET held
    BY DEF BoolTerms
  <2> QED BY <1>13, <1>15, <2>1 DEF check_sat_assuming
<1>16. CASE get_unsat_assumptions
  <2>1. UNCHANGED <<stack, global, history>> /\ sorts' = sorts
    BY <1>16 DEF get_unsat_assumptions, get_assumption, Negate, store_term, maps
  <2>2. UNCHANGED <<levels, context_level_>>
    BY <2>1 DEF stack
  <2>3. TermsInv' /\ AnswerInv'
    BY <1>1, <1>16, CoreKeeps
  <2>4. context_level_' - context_level_ = Len(levels') - Len(levels) /\ context_level_' \in Nat
    BY <1>2, <2>2
  <2> QED BY <1>2, <2>1, <2>2, <2>3, <2>4, CountersKeep
<1>17. CASE reset \/ reset_assertions
  <2>1. TermsInv' /\ Grows /\ Len(levels') = 1 /\ "reset" \in history'
    BY <1>1, <1>17, ResetKeeps
  <2>2. /\ NoQuery /\ UNCHANGED <<context_level_, sorts>>
        /\ global' \in {global, FALSE} /\ history' = history \cup {"reset"}
    BY <1>17 DEF reset, reset_assertions, maps
  <2>3. AnswerInv'
    BY <1>9, <2>2
  <2> QED BY <1>2, <2>1, <2>2, <2>3, CountersKeep
<1>18. CASE UNCHANGED vars
  <2>1. /\ UNCHANGED <<maps, stack, scopes, definition, global, history>>
        /\ UNCHANGED <<answer, assumed, core>>
    BY <1>18 DEF vars
  <2>2. UNCHANGED <<levels, context_level_, sorts>>
    BY <2>1 DEF stack, maps
  <2>3. levels' \in Seq(SUBSET Models) /\ Len(levels') = Len(levels)
    BY <1>1, <2>2, LevelsOn DEF TermsInv
  <2>4. TermsInv'
    BY <1>1, <2>1, <2>3, StackKept
  <2>5. AnswerInv'
    <3>1. UNCHANGED <<held, term_name_map>> /\ NamesApart' = NamesApart
      BY <2>1 DEF maps, NamesApart, SymbolsMade, ParamsMade, NumbersGiven
    <3> QED BY <1>1, <2>1, <3>1 DEF AnswerInv, NameOf
  <2>6. context_level_' - context_level_ = Len(levels') - Len(levels) /\ context_level_' \in Nat
    BY <1>2, <2>2
  <2> QED BY <1>2, <2>1, <2>2, <2>4, <2>5, <2>6, CountersKeep
<1> QED BY <1>4, <1>5, <1>6, <1>7, <1>8, <1>10, <1>11, <1>12, <1>14, <1>15, <1>16,
           <1>17, <1>18 DEF Next

(* src/generic_solver.cpp: maps, scopes, cores and counters together.      *)
THEOREM Invariance == Spec => []IInv
BY InitInv, StepInv, PTL DEF Spec

(* What the invariant says of types,                                       *)
LEMMA InvTypes == IInv => TypeOK
<1> SUFFICES ASSUME IInv PROVE TypeOK
  OBVIOUS
<1>1. FiledInv /\ ScopesInv /\ AnswerInv /\ OtherInv
  BY DEF IInv, TermsInv
<1>2. \A t \in held : IsTerm(t) /\ t.text \in DOMAIN term_name_map
  BY <1>1 DEF FiledInv, Texts
<1>3. /\ Range(name_term_map) \subseteq held
      /\ Range(term_name_map) \subseteq DOMAIN name_term_map
  BY <1>1 DEF FiledInv, Range, Known, Texts
<1>4. Visible \subseteq DOMAIN definition
  BY <1>1, VisibleOn
<1>5. \A i \in 1 .. Len(levels) : levels[i] \subseteq Models
  <2>1. levels \in Seq(SUBSET Models)
    BY <1>1 DEF ScopesInv
  <2> QED BY <2>1
<1>6. Len(scopes) = Len(levels) /\ Len(levels) \in 1 .. MaxLevel + 1
  BY <1>1 DEF ScopesInv
<1>7. term_counter \in 0 .. MaxTerms
  BY <1>1 DEF FiledInv
<1>8. /\ sorts \subseteq SortNames /\ context_level_ \in Nat
      /\ global \in BOOLEAN /\ history \subseteq {"reset", "refused"}
  BY <1>1 DEF OtherInv
<1>9. /\ answer \in {"none", "sat", "unsat", "unknown"}
      /\ assumed \subseteq held /\ core \subseteq held
  BY <1>1 DEF AnswerInv
<1> QED BY <1>2, <1>3, <1>4, <1>5, <1>6, <1>7, <1>8, <1>9 DEF TypeOK

(* and of names.                                                           *)
LEMMA InvMeans == IInv => NamesMean
<1> SUFFICES ASSUME IInv, NEW x \in DOMAIN term_name_map
             PROVE  LET n == term_name_map[x]
                        t == name_term_map[n]
                    IN /\ t.text = x \/ x \in {Plain(s) : s \in NumbersGiven}
                       /\ NamesApart =>
                            \A env \in SUBSET Params :
                              Understands(n, env) => BinaryMeans(n, env) = t.means
  BY Zenon DEF NamesMean
<1> DEFINE n == term_name_map[x]
           t == name_term_map[n]
<1>1. FiledInv /\ ScopesInv /\ (NamesApart => MeansInv)
  BY DEF IInv, TermsInv
<1>2. n \in Known /\ (t.text = x \/ x \in GeneratedNames(term_counter))
  BY <1>1 DEF FiledInv, Texts
<1> HIDE DEF n, t
<1>3. x \in GeneratedNames(term_counter) => x \in {Plain(s) : s \in NumbersGiven}
  BY DEF GeneratedNames, Generated, NumbersGiven
<1>4. ASSUME NamesApart, NEW env \in SUBSET Params, Understands(n, env)
      PROVE  BinaryMeans(n, env) = t.means
  <2>1. ReadInv
    BY <1>1, <1>4 DEF ReadInv
  <2> QED BY <1>1, <1>2, <1>4, <2>1, BinaryRight DEF t
<1> QED BY <1>2, <1>3, <1>4, Zenon DEF n, t

(* src/generic_solver.cpp:743, 769, 977: every name and every text leads   *)
(* to a term a client was given, and the binary has as many scopes as      *)
(* levels.                                                                 *)
THEOREM TypeCorrect == Spec => []TypeOK
BY Invariance, InvTypes, PTL

(* src/generic_solver.cpp:735, 769, 979: the two maps agree but for        *)
(* parameters whose name get_name gives away; and as long as no string is  *)
(* the name of two things, what the binary takes a name for is what the    *)
(* client meant, under whatever quantifiers.                               *)
THEOREM NamesStandForTerms == Spec => []NamesMean
BY Invariance, InvMeans, PTL

(* src/generic_solver.cpp:763, 942: with global declarations no pop takes  *)
(* a name away that GenericSolver still keeps.                             *)
THEOREM NamesSurvivePops == Spec => []GlobalNamesKnown
<1>1. IInv => GlobalNamesKnown
  BY DEF IInv, TermsInv
<1> QED BY <1>1, Invariance, PTL

(* src/generic_solver.cpp:1318: context_level_ is the binary's level until *)
(* a reset.                                                                *)
THEOREM LevelsInStep == Spec => []LevelsAgree
<1>1. IInv => LevelsAgree
  BY DEF IInv
<1> QED BY <1>1, Invariance, PTL

(* src/generic_solver.cpp:1119: what a core is read back to was assumed, as *)
(* long as no string is the name of two things.                            *)
THEOREM CoresAssumed == Spec => []CoreFromAssumptions
<1>1. IInv => CoreFromAssumptions
  BY DEF IInv, AnswerInv, CoreFromAssumptions
<1> QED BY <1>1, Invariance, PTL
=============================================================================
