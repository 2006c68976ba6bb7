---------------------------- MODULE PayloadProofs ---------------------------
(***************************************************************************)
(* Proofs about Payload, for every unit's types, in any order and linked   *)
(* in any way that ends, and any number of parameters and registers.       *)
(***************************************************************************)
EXTENDS Payload, Induction, SequenceTheorems, FiniteSetTheorems

-----------------------------------------------------------------------------
(***************************************************************************)
(* The types along the links: what Path, which is defined by recursion     *)
(* along them, has at each type.                                           *)
(***************************************************************************)

(* What links there are and how many steps they take. *)
LEMMA UnitType ==
  ASSUME NEW u \in Units
  PROVE  /\ Len(u) \in Nat /\ DOMAIN u = 1 .. Len(u)
         /\ \A t \in DOMAIN u : /\ t \in Nat \ {0} /\ u[t].type \in Nat /\ u[t].tag \in STRING
                                /\ u[t].tag = "structure_type" => u[t].type = 0
         /\ \E steps \in [DOMAIN u -> 0 .. Len(u)] :
              \A t \in DOMAIN u : u[t].type \in DOMAIN u => steps[u[t].type] < steps[t]
<1> DEFINE Types == [tag : STRING, type : Nat, words : Nat, members : Nat]
<1>1. u \in Seq(Types)
  BY PayloadAssumption
<1>2. Len(u) \in Nat /\ DOMAIN u = 1 .. Len(u)
  BY <1>1, LenProperties
<1>3. ASSUME NEW t \in DOMAIN u
      PROVE  t \in Nat \ {0} /\ u[t].type \in Nat /\ u[t].tag \in STRING
  <2>1. u[t] \in Types
    BY <1>1, <1>2, ElementOfSeq
  <2>2. QED
    BY <1>2, <2>1
<1>4. QED
  BY <1>2, <1>3, PayloadAssumption

Round(u, from, s) == IF s \in DOMAIN u THEN <<s>> \o from[u[s].type] ELSE << >>

LEMMA LinksEnd ==
  ASSUME NEW u \in Units
  PROVE  \E from : from = [s \in Nat |-> Round(u, from, s)]
<1>1. PICK steps \in [DOMAIN u -> 0 .. Len(u)] :
        \A t \in DOMAIN u : u[t].type \in DOMAIN u => steps[u[t].type] < steps[t]
  BY UnitType
<1> DEFINE Within(s, n) == s \in DOMAIN u => steps[s] < n
           Upto(n, g) == \A s \in Nat : Within(s, n) => g[s] = Round(u, g, s)
           S == {n \in Nat : \E g : Upto(n, g)}
<1>2. \A t \in DOMAIN u : u[t].type \in Nat /\ steps[t] \in Nat /\ steps[t] <= Len(u)
  BY <1>1, UnitType
<1>3. 0 \in S
  <2> DEFINE g == [s \in Nat |-> << >>]
  <2>1. \A s \in Nat : Within(s, 0) => s \notin DOMAIN u
    BY <1>2
  <2>2. Upto(0, g)
    BY <2>1 DEF Round
  <2> HIDE DEF Upto
  <2>3. QED
    BY <2>2
<1>4. ASSUME NEW n \in Nat, n \in S
      PROVE  n + 1 \in S
  <2>1. PICK g : Upto(n, g)
    BY <1>4
  <2> DEFINE h == [s \in Nat |-> Round(u, g, s)]
  <2>2. ASSUME NEW s \in Nat, Within(s, n + 1)
        PROVE  h[s] = Round(u, h, s)
    <3>1. CASE s \notin DOMAIN u
      BY <3>1 DEF Round
    <3>2. CASE s \in DOMAIN u
      <4>1. PICK t \in Nat : t = u[s].type
        BY <1>2, <3>2
      <4>2. Within(t, n)
        BY <1>1, <1>2, <2>2, <3>2, <4>1
      <4>3. g[t] = h[t]
        BY <2>1, <4>2
      <4>4. QED
        BY <3>2, <4>1, <4>3 DEF Round
    <3>3. QED
      BY <3>1, <3>2
  <2>3. Upto(n + 1, h)
    BY <2>2
  <2> HIDE DEF Upto, h
  <2>4. QED
    BY <2>3
<1>5. Len(u) + 1 \in S
  <2> HIDE DEF S
  <2>1. Nat \subseteq S
    BY <1>3, <1>4, SetInduction
  <2>2. QED
    BY <2>1, UnitType
<1>6. PICK g : Upto(Len(u) + 1, g)
  BY <1>5
<1>7. \A s \in Nat : g[s] = Round(u, g, s)
  BY <1>2, <1>6, UnitType
<1> DEFINE from == [s \in Nat |-> g[s]]
<1>8. ASSUME NEW s \in Nat
      PROVE  g[s] = Round(u, from, s)
  BY <1>2, <1>7 DEF Round
<1>9. from = [s \in Nat |-> Round(u, from, s)]
  <2> HIDE DEF Round
  <2>1. QED
    BY <1>8
<1>10. QED
  BY <1>9

(* Path and Chain, of the types u. *)
Along(u, t) ==
  LET from[s \in Nat] == IF s \in DOMAIN u THEN <<s>> \o from[u[s].type] ELSE << >>
  IN from[t]

Tags(u, t) == LET p == Along(u, t) IN [i \in DOMAIN p |-> u[p[i]].tag]

LEMMA PathAlong ==
  ASSUME NEW t
  PROVE  Path(t) = Along(datatypes, t) /\ Chain(t) = Tags(datatypes, t)
BY DEF Path, Along, Chain, Tags

LEMMA PathIs ==
  ASSUME NEW u \in Units, NEW t \in Nat
  PROVE  /\ t \in DOMAIN u => Along(u, t) = <<t>> \o Along(u, u[t].type)
         /\ t \notin DOMAIN u => Along(u, t) = << >>
<1> DEFINE Follows(from) == from = [s \in Nat |-> Round(u, from, s)]
           links == CHOOSE from : Follows(from)
<1>1. Follows(links)
  <2>1. \E from : Follows(from)
    BY LinksEnd
  <2> HIDE DEF Follows
  <2>2. QED
    BY <2>1
<1>2. \A s : Along(u, s) = links[s]
  BY DEF Along, Round
<1> HIDE DEF links
<1>3. links[t] = Round(u, links, t)
  BY <1>1
<1>4. QED
  BY <1>2, <1>3 DEF Round


LEMMA PathType ==
  ASSUME NEW u \in Units, NEW t \in Nat
  PROVE  Along(u, t) \in Seq(DOMAIN u)
<1>1. PICK steps \in [DOMAIN u -> 0 .. Len(u)] :
        \A s \in DOMAIN u :
          u[s].type \in DOMAIN u => steps[u[s].type] < steps[s]
  BY UnitType
<1>2. \A s \in DOMAIN u : /\ u[s].type \in Nat
                                  /\ steps[s] \in Nat /\ steps[s] <= Len(u)
  BY <1>1, UnitType
<1> DEFINE Within(s, n) == s \in DOMAIN u => steps[s] < n
           S == {n \in Nat : \A s \in Nat : Within(s, n) => Along(u, s) \in Seq(DOMAIN u)}
<1>3. 0 \in S
  <2>1. \A s \in Nat : Within(s, 0) => s \notin DOMAIN u
    BY <1>2
  <2>2. QED
    BY <2>1, PathIs, EmptySeq
<1>4. ASSUME NEW n \in Nat, n \in S
      PROVE  n + 1 \in S
  <2>1. ASSUME NEW s \in Nat, Within(s, n + 1)
        PROVE  Along(u, s) \in Seq(DOMAIN u)
    <3>1. CASE s \notin DOMAIN u
      BY <3>1, PathIs, EmptySeq
    <3>2. CASE s \in DOMAIN u
      <4>1. PICK r \in Nat : r = u[s].type
        BY <1>2, <3>2
      <4>2. Within(r, n)
        BY <1>1, <1>2, <2>1, <3>2, <4>1
      <4>3. Along(u, r) \in Seq(DOMAIN u)
        BY <1>4, <4>2
      <4>4. <<s>> \in Seq(DOMAIN u)
        BY <3>2
      <4>5. Along(u, s) = <<s>> \o Along(u, r)
        BY <3>2, <4>1, PathIs
      <4>6. QED
        BY <4>3, <4>4, <4>5, ConcatProperties
    <3>3. QED
      BY <3>1, <3>2
  <2>2. QED
    BY <2>1
<1>5. Len(u) + 1 \in S
  <2> HIDE DEF S
  <2>1. Nat \subseteq S
    BY <1>3, <1>4, SetInduction
  <2>2. QED
    BY <2>1, UnitType
<1>6. Within(t, Len(u) + 1)
  BY <1>2, UnitType
<1>7. QED
  BY <1>5, <1>6

(* A type comes first on its own path, and what its link leads to next. *)
LEMMA PathStep ==
  ASSUME NEW u \in Units, NEW t \in DOMAIN u
  PROVE  /\ u[t].type \in Nat
         /\ Along(u, u[t].type) \in Seq(DOMAIN u)
         /\ Len(Along(u, t)) = Len(Along(u, u[t].type)) + 1
         /\ Along(u, t)[1] = t
         /\ \A i \in 1 .. Len(Along(u, u[t].type)) : Along(u, t)[i + 1] = Along(u, u[t].type)[i]
<1>1. t \in Nat /\ u[t].type \in Nat
  BY UnitType
<1>2. PICK p : p = Along(u, u[t].type)
  OBVIOUS
<1>3. p \in Seq(DOMAIN u) /\ Along(u, t) = <<t>> \o p
  BY <1>1, <1>2, PathType, PathIs
<1>4. /\ Len(<<t>> \o p) = Len(p) + 1
      /\ (<<t>> \o p)[1] = t
      /\ \A i \in 1 .. Len(p) : (<<t>> \o p)[i + 1] = p[i]
  <2>1. <<t>> \in Seq(DOMAIN u) /\ Len(<<t>>) = 1 /\ <<t>>[1] = t
    OBVIOUS
  <2>2. Len(p) \in Nat
    BY <1>3, LenProperties
  <2>3. /\ Len(<<t>> \o p) = 1 + Len(p)
        /\ \A i \in 1 .. 1 + Len(p) :
             (<<t>> \o p)[i] = IF i <= 1 THEN <<t>>[i] ELSE p[i - 1]
    BY <1>3, <2>1, ConcatProperties
  <2>4. 1 \in 1 .. 1 + Len(p) /\ \A i \in 1 .. Len(p) : i + 1 \in 1 .. 1 + Len(p) /\ ~(i + 1 <= 1) /\ (i + 1) - 1 = i
    BY <2>2
  <2>5. QED
    BY <2>1, <2>2, <2>3, <2>4
<1>5. QED
  BY <1>1, <1>2, <1>3, <1>4

LEMMA NoPath ==
  ASSUME NEW u \in Units, NEW t \in Nat, t \notin DOMAIN u
  PROVE  Along(u, t) = << >>
BY PathIs

LEMMA Singleton ==
  ASSUME NEW S, NEW e \in S
  PROVE  <<e>> \in Seq(S) /\ Len(<<e>>) = 1 /\ <<e>>[1] = e
OBVIOUS

-----------------------------------------------------------------------------
(***************************************************************************)
(* Types.                                                                  *)
(***************************************************************************)

Places == {"param", "chain", "value", "show", "push", "search", "abort", "done"}

TypeInv ==
  /\ datatypes \in Units
  /\ parameters \in Seq(Parameters)
  /\ at \in Places
  /\ index \in Nat \ {0}
  /\ at \notin {"param", "done"} => index \in 1 .. Len(parameters)
  /\ type \in Nat
  /\ tags \in Seq(STRING)
  /\ pos \in Nat \ {0}

LEMMA ParameterType ==
  ASSUME parameters \in Seq(Parameters), NEW k \in 1 .. Len(parameters)
  PROVE  /\ parameters[k] \in Parameters
         /\ parameters[k].type \in Nat
         /\ parameters[k].tag \in STRING
         /\ parameters[k].tag = "unspecified_parameters" => parameters[k].type = 0
<1>1. parameters[k] \in Parameters
  BY ElementOfSeq
<1>2. QED
  BY <1>1, PayloadAssumption

LEMMA StepTypeInv == TypeInv /\ [Next]_vars => TypeInv'
<1> SUFFICES ASSUME TypeInv, [Next]_vars
             PROVE  TypeInv'
  OBVIOUS
<1>1. UNCHANGED <<datatypes, parameters>>
  BY DEF Next, vars, input, NextParam, Follow, ChainEnds, ValueFromRegister, ShowMembers, NoValue, Push,
     SearchLink, SearchNext, SearchFails, SearchFinds, Return
<1>2. CASE NextParam
  <2>1. index \in 1 .. Len(parameters)
    BY <1>2, LenProperties DEF NextParam, TypeInv
  <2>2. type' \in Nat
    BY <1>2, <2>1, ParameterType DEF NextParam, TypeInv
  <2>3. tags' \in Seq(STRING)
    <3>1. PICK tag \in STRING : tag = parameters[index].tag
      BY <2>1, ParameterType DEF TypeInv
    <3>2. tags' = << >> \/ tags' = <<tag>>
      BY <1>2, <3>1 DEF NextParam
    <3>3. << >> \in Seq(STRING) /\ <<tag>> \in Seq(STRING)
      BY EmptySeq, Singleton
    <3>4. QED
      BY <3>2, <3>3
  <2>4. QED
    BY <1>1, <1>2, <2>1, <2>2, <2>3 DEF NextParam, TypeInv, Places
<1>3. CASE Follow
  <2>1. type' \in Nat /\ datatypes[type].tag \in STRING
    BY <1>3, UnitType DEF Follow, TypeInv
  <2>2. tags' \in Seq(STRING)
    BY <1>3, <2>1, AppendProperties DEF Follow, TypeInv
  <2>3. QED
    BY <1>1, <1>3, <2>1, <2>2 DEF Follow, TypeInv
<1>4. CASE ChainEnds
  BY <1>1, <1>4 DEF ChainEnds, param, TypeInv, Places
<1>5. CASE ValueFromRegister
  <2>1. type' \in Nat
    BY <1>5, ParameterType DEF ValueFromRegister, TypeInv
  <2>2. QED
    BY <1>1, <1>5, <2>1 DEF ValueFromRegister, TypeInv, Places
<1>6. CASE ShowMembers \/ NoValue
  BY <1>1, <1>6 DEF ShowMembers, NoValue, param, TypeInv, Places
<1>7. CASE Push
  <2>1. type' \in Nat /\ pos' \in Nat \ {0}
    BY <1>7, ParameterType DEF Push, TypeInv
  <2>2. QED
    BY <1>1, <1>7, <2>1 DEF Push, Advance, TypeInv, Places
<1>8. CASE SearchLink
  <2>1. type' \in Nat
    BY <1>8, UnitType DEF SearchLink, TypeInv
  <2>2. QED
    BY <1>1, <1>8, <2>1 DEF SearchLink, TypeInv
<1>9. CASE SearchNext
  BY <1>1, <1>9 DEF SearchNext, TypeInv
<1>10. CASE SearchFails \/ SearchFinds
  BY <1>1, <1>10 DEF SearchFails, SearchFinds, Advance, param, TypeInv, Places
<1>11. CASE Return
  BY <1>1, <1>11 DEF Return, param, TypeInv, Places
<1>12. CASE UNCHANGED vars
  BY <1>1, <1>12 DEF vars, param, TypeInv
<1>13. QED
  BY <1>2, <1>3, <1>4, <1>5, <1>6, <1>7, <1>8, <1>9, <1>10, <1>11, <1>12 DEF Next

LEMMA InitTypeInv == Init => TypeInv
<1> SUFFICES ASSUME Init
             PROVE  TypeInv
  OBVIOUS
<1>1. parameters \in Seq(Parameters)
  <2>1. PICK n \in 0 .. MaxParams : parameters \in [1 .. n -> Parameters]
    BY DEF Init
  <2>2. n \in Nat
    BY PayloadAssumption
  <2>3. QED
    BY <2>1, <2>2, SeqDef
<1>2. QED
  BY <1>1 DEF Init, TypeInv, Places


-----------------------------------------------------------------------------
(***************************************************************************)
(* The tags of the links.                                                  *)
(***************************************************************************)

(* What tags begins with. *)
Own(p) == IF p.tag = "unspecified_parameters" THEN <<p.tag>> ELSE << >>

(* The tags seen and those to come are all the tags there are. *)
TagsInv ==
  /\ at = "chain" =>
       tags \o Tags(datatypes, type) =
         Own(parameters[index]) \o Tags(datatypes, parameters[index].type)
  /\ at \in {"value", "show", "push", "search"} =>
       tags = Own(parameters[index]) \o Tags(datatypes, parameters[index].type)

LEMMA ChainIs ==
  ASSUME NEW u \in Units, NEW t \in Nat
  PROVE  /\ Tags(u, t) \in Seq(STRING)
         /\ Len(Tags(u, t)) = Len(Along(u, t))
         /\ DOMAIN Tags(u, t) = 1 .. Len(Along(u, t))
         /\ \A i \in 1 .. Len(Along(u, t)) : Tags(u, t)[i] = u[Along(u, t)[i]].tag
<1>1. PICK p : p = Along(u, t)
  OBVIOUS
<1>2. p \in Seq(DOMAIN u) /\ Len(p) \in Nat /\ DOMAIN p = 1 .. Len(p)
  BY <1>1, PathType, LenProperties
<1>3. Tags(u, t) = [i \in 1 .. Len(p) |-> u[p[i]].tag]
  BY <1>1, <1>2 DEF Tags
<1>4. \A i \in 1 .. Len(p) : u[p[i]].tag \in STRING
  BY <1>2, ElementOfSeq, UnitType
<1>5. Tags(u, t) \in [1 .. Len(p) -> STRING]
  BY <1>3, <1>4
<1>6. Tags(u, t) \in Seq(STRING)
  BY <1>2, <1>5, SeqDef
<1>7. Len(Tags(u, t)) = Len(p)
  BY <1>2, <1>5, <1>6, LenProperties
<1>8. QED
  BY <1>1, <1>3, <1>6, <1>7

LEMMA ChainStep ==
  ASSUME NEW u \in Units, NEW t \in DOMAIN u
  PROVE  Tags(u, t) = <<u[t].tag>> \o Tags(u, u[t].type)
<1>1. PICK r \in Nat : r = u[t].type
  BY PathStep
<1>2. PICK tag \in STRING : tag = u[t].tag
  BY UnitType
<1>3. t \in Nat
  BY UnitType
<1>4. PICK p, q : p = Along(u, t) /\ q = Along(u, r)
  OBVIOUS
<1>5. /\ p \in Seq(DOMAIN u) /\ q \in Seq(DOMAIN u)
      /\ Len(p) = Len(q) + 1 /\ p[1] = t
      /\ \A i \in 1 .. Len(q) : p[i + 1] = q[i]
  BY <1>1, <1>3, <1>4, PathStep, PathType
<1>6. Len(q) \in Nat
  BY <1>5, LenProperties
<1>7. PICK c, d : c = Tags(u, t) /\ d = Tags(u, r)
  OBVIOUS
<1>8. /\ c \in Seq(STRING) /\ Len(c) = Len(p)
      /\ \A i \in 1 .. Len(p) : c[i] = u[p[i]].tag
  BY <1>3, <1>4, <1>7, ChainIs
<1>9. /\ d \in Seq(STRING) /\ Len(d) = Len(q)
      /\ \A i \in 1 .. Len(q) : d[i] = u[q[i]].tag
  BY <1>1, <1>4, <1>7, ChainIs
<1>10. /\ <<tag>> \o d \in Seq(STRING)
       /\ Len(<<tag>> \o d) = 1 + Len(d)
       /\ \A i \in 1 .. 1 + Len(d) : (<<tag>> \o d)[i] = IF i <= 1 THEN tag ELSE d[i - 1]
  <2>1. <<tag>> \in Seq(STRING) /\ Len(<<tag>>) = 1 /\ <<tag>>[1] = tag
    BY Singleton
  <2>2. /\ <<tag>> \o d \in Seq(STRING)
        /\ Len(<<tag>> \o d) = 1 + Len(d)
        /\ \A i \in 1 .. 1 + Len(d) : (<<tag>> \o d)[i] = IF i <= 1 THEN <<tag>>[i] ELSE d[i - 1]
    BY <1>9, <2>1, ConcatProperties
  <2>3. \A i \in 1 .. 1 + Len(d) : i <= 1 => i = 1
    BY <1>6, <1>9
  <2>4. QED
    BY <2>1, <2>2, <2>3
<1>11. ASSUME NEW i \in 1 .. Len(c)
       PROVE  c[i] = (<<tag>> \o d)[i]
  <2>1. CASE i = 1
    <3>1. 1 \in 1 .. Len(p) /\ 1 \in 1 .. 1 + Len(d) /\ 1 <= 1
      BY <1>5, <1>6, <1>9
    <3>2. c[1] = tag
      BY <1>2, <1>5, <1>8, <3>1
    <3>3. (<<tag>> \o d)[1] = tag
      BY <1>10, <3>1
    <3>4. QED
      BY <2>1, <3>2, <3>3
  <2>2. CASE i # 1
    <3>1. PICK j \in 1 .. Len(q) : i = j + 1
      <4>1. i - 1 \in 1 .. Len(q) /\ i = (i - 1) + 1
        BY <1>5, <1>6, <1>8, <2>2
      <4>2. QED
        BY <4>1
    <3>2. c[i] = u[q[j]].tag
      BY <1>5, <1>8, <3>1
    <3>3. i \in 1 .. 1 + Len(d) /\ ~(i <= 1) /\ i - 1 = j
      BY <1>6, <1>9, <3>1
    <3>4. (<<tag>> \o d)[i] = d[j]
      BY <1>10, <3>3
    <3>5. QED
      BY <1>9, <3>1, <3>2, <3>4
  <2>3. QED
    BY <2>1, <2>2
<1>12. c = <<tag>> \o d
  <2>1. Len(c) = Len(<<tag>> \o d)
    BY <1>5, <1>6, <1>8, <1>9, <1>10
  <2>2. QED
    BY <1>8, <1>10, <1>11, <2>1, SeqEqual
<1>13. QED
  BY <1>1, <1>2, <1>7, <1>12

LEMMA NoChain ==
  ASSUME NEW u \in Units, NEW t \in Nat, t \notin DOMAIN u
  PROVE  Tags(u, t) = << >>
<1>1. Tags(u, t) \in Seq(STRING) /\ Len(Tags(u, t)) = Len(<< >>)
  BY ChainIs, NoPath
<1>2. QED
  BY <1>1, EmptySeq


LEMMA OwnType ==
  ASSUME parameters \in Seq(Parameters), NEW k \in 1 .. Len(parameters)
  PROVE  Own(parameters[k]) \in Seq(STRING)
<1>1. PICK tag \in STRING : tag = parameters[k].tag
  BY ParameterType
<1>2. Own(parameters[k]) = << >> \/ Own(parameters[k]) = <<tag>>
  BY <1>1 DEF Own
<1>3. << >> \in Seq(STRING) /\ <<tag>> \in Seq(STRING)
  BY EmptySeq, Singleton
<1>4. QED
  BY <1>2, <1>3

LEMMA StepTagsInv == TypeInv /\ TagsInv /\ [Next]_vars => TagsInv'
<1> SUFFICES ASSUME TypeInv, TagsInv, [Next]_vars
             PROVE  TagsInv'
  OBVIOUS
<1>1. UNCHANGED <<datatypes, parameters>>
  BY DEF Next, vars, input, NextParam, Follow, ChainEnds, ValueFromRegister, ShowMembers, NoValue, Push,
     SearchLink, SearchNext, SearchFails, SearchFinds, Return
<1>2. CASE NextParam
  BY <1>1, <1>2 DEF NextParam, TagsInv, Own
<1>3. CASE Follow
  <2>1. PICK tag \in STRING, r \in Nat : tag = datatypes[type].tag /\ r = datatypes[type].type
    <3>1. datatypes[type].tag \in STRING /\ datatypes[type].type \in Nat
      BY <1>3, UnitType DEF Follow, TypeInv
    <3>2. QED
      BY <3>1
  <2>2. PICK c, rest : c = Tags(datatypes, type) /\ rest = Tags(datatypes, r)
    OBVIOUS
  <2>3. rest \in Seq(STRING) /\ c = <<tag>> \o rest
    BY <1>3, <2>1, <2>2, ChainIs, ChainStep DEF Follow, TypeInv
  <2>4. tags' = tags \o <<tag>> /\ type' = r /\ UNCHANGED <<at, index>>
    BY <1>3, <2>1, AppendIsConcat DEF Follow, TypeInv
  <2>5. (tags \o <<tag>>) \o rest = tags \o c
    <3>1. <<tag>> \in Seq(STRING) /\ tags \in Seq(STRING)
      BY Singleton DEF TypeInv
    <3>2. QED
      BY <2>3, <3>1, ConcatAssociative
  <2>6. at = "chain"
    BY <1>3 DEF Follow
  <2>7. tags' \o Tags(datatypes', type') =
          Own(parameters'[index']) \o Tags(datatypes', parameters'[index'].type)
    BY <1>1, <2>2, <2>4, <2>5, <2>6 DEF TagsInv
  <2>8. at' = "chain"
    BY <2>4, <2>6
  <2>9. QED
    BY <2>7, <2>8 DEF TagsInv
<1>4. CASE ChainEnds
  <2>1. Tags(datatypes, type) = << >>
    BY <1>4, NoChain DEF ChainEnds, TypeInv
  <2>2. tags \o << >> = tags
    BY ConcatEmptySeq DEF TypeInv
  <2>3. at = "chain" /\ at' = "value" /\ UNCHANGED <<index, type, tags>>
    BY <1>4 DEF ChainEnds, param
  <2>4. QED
    BY <1>1, <2>1, <2>2, <2>3 DEF TagsInv
<1>5. CASE at \in {"value", "show", "push", "search"} /\ at' # "chain" /\ at' # "abort" /\ UNCHANGED <<index, tags>>
  BY <1>1, <1>5 DEF TagsInv
<1>6. CASE at' \in {"param", "abort", "done"}
  BY <1>6 DEF TagsInv
<1>7. CASE UNCHANGED vars
  BY <1>7 DEF vars, input, param, TagsInv
<1>8. QED
  BY <1>2, <1>3, <1>4, <1>5, <1>6, <1>7 DEF Next, ValueFromRegister, ShowMembers, NoValue, Push, SearchLink,
     SearchNext, SearchFails, SearchFinds, Return, Advance, param

(***************************************************************************)
(* get_datatype_metadata follows the links of every parameter to their     *)
(* end, whatever the order of cu.datatypes and however long the links.     *)
(***************************************************************************)
THEOREM EveryLinkFollowed == Spec => []LinksFollowed
<1>1. Init => TagsInv
  BY DEF Init, TagsInv
<1>2. TypeInv /\ TagsInv => LinksFollowed
  <2> SUFFICES ASSUME TypeInv, TagsInv, at = "value"
               PROVE  tags = Own(parameters[index]) \o Chain(parameters[index].type)
    BY DEF LinksFollowed, Own
  <2>1. PICK t : t = parameters[index].type
    OBVIOUS
  <2>2. QED
    BY <2>1, PathAlong DEF TagsInv
<1>3. TypeInv /\ TagsInv /\ [Next]_vars => TypeInv' /\ TagsInv'
  BY StepTypeInv, StepTagsInv
<1>4. QED
  BY <1>1, <1>2, <1>3, InitTypeInv, PTL DEF Spec


-----------------------------------------------------------------------------
(***************************************************************************)
(* The two lookups of a structure.                                         *)
(***************************************************************************)

(* The links from t on lead to a structure; to the unit's first type.      *)
StructOn(u, t) == \E i \in 1 .. Len(Along(u, t)) : u[Along(u, t)[i]].tag = "structure_type"

LeadsToFirst(u, t) == \E i \in 2 .. Len(Along(u, t)) : Along(u, t)[i] = 1

EndOf(u, t) == Along(u, t)[Len(Along(u, t))]

LEMMA StructStep ==
  ASSUME NEW u \in Units, NEW t \in Nat, StructOn(u, t)
  PROVE  /\ t \in DOMAIN u
         /\ u[t].tag # "structure_type" => StructOn(u, u[t].type)
<1>1. t \in DOMAIN u
  <2>1. SUFFICES ASSUME t \notin DOMAIN u
                 PROVE  FALSE
    OBVIOUS
  <2>2. Along(u, t) = << >>
    BY <2>1, NoPath
  <2>3. Len(<< >>) = 0 /\ 1 .. 0 = {}
    OBVIOUS
  <2>4. QED
    BY <2>2, <2>3 DEF StructOn
<1>2. ASSUME u[t].tag # "structure_type"
      PROVE  StructOn(u, u[t].type)
  <2>1. PICK p, q : p = Along(u, t) /\ q = Along(u, u[t].type)
    OBVIOUS
  <2>2. /\ Len(p) = Len(q) + 1 /\ Len(q) \in Nat
        /\ p[1] = t
        /\ \A i \in 1 .. Len(q) : p[i + 1] = q[i]
    BY <1>1, <2>1, PathStep, LenProperties
  <2>3. PICK i \in 1 .. Len(p) : u[p[i]].tag = "structure_type"
    BY <2>1 DEF StructOn
  <2>4. i # 1
    BY <1>2, <2>2, <2>3
  <2>5. i - 1 \in 1 .. Len(q) /\ (i - 1) + 1 = i
    BY <2>2, <2>4
  <2>6. u[q[i - 1]].tag = "structure_type"
    BY <2>2, <2>3, <2>5
  <2>7. QED
    BY <2>1, <2>5, <2>6 DEF StructOn
<1>3. QED
  BY <1>1, <1>2

(* A path that does not come by the first type goes on behind it. *)
LEMMA FirstStep ==
  ASSUME NEW u \in Units, NEW t \in DOMAIN u, ~LeadsToFirst(u, t), u[t].type \in DOMAIN u
  PROVE  u[t].type >= 2 /\ ~LeadsToFirst(u, u[t].type)
<1>1. PICK r \in DOMAIN u : r = u[t].type
  OBVIOUS
<1>2. PICK p, q : p = Along(u, t) /\ q = Along(u, r)
  OBVIOUS
<1>3. /\ Len(p) = Len(q) + 1 /\ Len(q) \in Nat
      /\ \A i \in 1 .. Len(q) : p[i + 1] = q[i]
  BY <1>1, <1>2, PathStep, LenProperties
<1>4. q[1] = r /\ Len(q) \in Nat \ {0} /\ r \in Nat \ {0}
  <2>1. Len(q) = Len(Along(u, u[r].type)) + 1 /\ q[1] = r /\ Along(u, u[r].type) \in Seq(DOMAIN u)
    BY <1>2, PathStep
  <2>2. Len(Along(u, u[r].type)) \in Nat
    BY <2>1, LenProperties
  <2>3. QED
    BY <2>1, <2>2, UnitType
<1>5. \A i \in 2 .. Len(p) : p[i] # 1
  BY <1>2 DEF LeadsToFirst
<1>6. \A i \in 1 .. Len(q) : q[i] # 1
  <2>1. \A i \in 1 .. Len(q) : i + 1 \in 2 .. Len(p)
    BY <1>3
  <2>2. QED
    BY <1>3, <1>5, <2>1
<1>7. r # 1
  BY <1>4, <1>6
<1>8. ~LeadsToFirst(u, r)
  <2>1. \A i \in 2 .. Len(q) : i \in 1 .. Len(q)
    BY <1>3
  <2>2. QED
    BY <1>2, <1>6, <2>1 DEF LeadsToFirst
<1>9. QED
  BY <1>1, <1>4, <1>7, <1>8

LEMMA EndStep ==
  ASSUME NEW u \in Units, NEW t \in DOMAIN u
  PROVE  /\ Along(u, t) # << >>
         /\ Along(u, u[t].type) # << >> => EndOf(u, t) = EndOf(u, u[t].type)
         /\ u[t].tag = "structure_type" => EndOf(u, t) = t
<1>1. PICK p, q : p = Along(u, t) /\ q = Along(u, u[t].type)
  OBVIOUS
<1>2. /\ Len(p) = Len(q) + 1 /\ q \in Seq(DOMAIN u) /\ Len(q) \in Nat /\ p[1] = t
      /\ \A i \in 1 .. Len(q) : p[i + 1] = q[i]
  BY <1>1, PathStep, LenProperties
<1>3. p # << >>
  <2>1. Len(p) # 0 /\ Len(<< >>) = 0
    BY <1>2
  <2>2. QED
    BY <2>1
<1>4. ASSUME q # << >>
      PROVE  p[Len(p)] = q[Len(q)]
  <2>1. Len(q) \in 1 .. Len(q)
    <3>1. Len(q) # 0
      BY <1>2, <1>4, EmptySeq
    <3>2. QED
      BY <1>2, <3>1
  <2>2. QED
    BY <1>2, <2>1
<1>5. ASSUME u[t].tag = "structure_type"
      PROVE  p[Len(p)] = t
  <2>1. u[t].type = 0 /\ 0 \notin DOMAIN u
    BY <1>5, UnitType
  <2>2. q = << >>
    BY <1>1, <2>1, NoPath
  <2>3. Len(q) = 0
    BY <2>2
  <2>4. QED
    BY <1>2, <2>3
<1>6. QED
  BY <1>1, <1>3, <1>4, <1>5 DEF EndOf


(* A structure seen on the way is one the links lead to. *)
LEMMA SeenIsOn ==
  ASSUME NEW u \in Units, NEW t \in Nat, NEW p \in Parameters, t = p.type, Own(p) \in Seq(STRING),
         NEW s, s = Own(p) \o Tags(u, t),
         NEW i \in DOMAIN s, s[i] = "structure_type"
  PROVE  StructOn(u, t)
<1>1. PICK o, c : o = Own(p) /\ c = Tags(u, t)
  OBVIOUS
<1>2. /\ o \in Seq(STRING) /\ c \in Seq(STRING)
      /\ Len(c) = Len(Along(u, t))
      /\ \A j \in 1 .. Len(c) : c[j] = u[Along(u, t)[j]].tag
  BY <1>1, ChainIs
<1>3. Len(o) \in Nat /\ Len(c) \in Nat
  BY <1>2, LenProperties
<1>4. \A j \in 1 .. Len(o) : o[j] # "structure_type"
  <2>1. CASE p.tag = "unspecified_parameters"
    <3>1. o = <<p.tag>>
      BY <1>1, <2>1 DEF Own
    <3>2. Len(o) = 1 /\ o[1] = p.tag
      BY <3>1
    <3>3. QED
      BY <2>1, <3>2
  <2>2. CASE p.tag # "unspecified_parameters"
    <3>1. o = << >>
      BY <1>1, <2>2 DEF Own
    <3>2. Len(o) = 0
      BY <3>1
    <3>3. QED
      BY <3>2
  <2>3. QED
    BY <2>1, <2>2
<1>5. /\ s \in Seq(STRING) /\ Len(s) = Len(o) + Len(c)
      /\ \A j \in 1 .. Len(o) + Len(c) : s[j] = IF j <= Len(o) THEN o[j] ELSE c[j - Len(o)]
  <2>1. s = o \o c
    BY <1>1
  <2>2. /\ o \o c \in Seq(STRING) /\ Len(o \o c) = Len(o) + Len(c)
        /\ \A j \in 1 .. Len(o) + Len(c) :
             (o \o c)[j] = IF j <= Len(o) THEN o[j] ELSE c[j - Len(o)]
    <3>1. o \in Seq(STRING) /\ c \in Seq(STRING)
      BY <1>2
    <3> HIDE <1>2
    <3>2. QED
      BY <3>1, ConcatProperties
  <2>3. QED
    BY <2>1, <2>2
<1>6. i \in 1 .. Len(o) + Len(c)
  BY <1>5, LenProperties
<1>7. ~(i <= Len(o))
  <2>1. SUFFICES ASSUME i <= Len(o)
                 PROVE  FALSE
    OBVIOUS
  <2>2. i \in 1 .. Len(o)
    BY <1>3, <1>6, <2>1
  <2>3. o[i] = "structure_type"
    BY <1>5, <1>6, <2>1
  <2>4. QED
    BY <1>4, <2>2, <2>3
<1>8. i - Len(o) \in 1 .. Len(c) /\ c[i - Len(o)] = "structure_type"
  BY <1>3, <1>5, <1>6, <1>7
<1>9. QED
  BY <1>2, <1>8 DEF StructOn

LEMMA HasIsOn ==
  ASSUME TypeInv, TagsInv, at \in {"value", "show", "push", "search"}, Has("structure_type")
  PROVE  StructOn(datatypes, parameters[index].type)
<1>1. PICK i \in DOMAIN tags : tags[i] = "structure_type"
  BY DEF Has
<1>2. index \in 1 .. Len(parameters)
  BY DEF TypeInv
<1>3. /\ parameters[index] \in Parameters /\ parameters[index].type \in Nat
      /\ Own(parameters[index]) \in Seq(STRING)
  BY <1>2, ParameterType, OwnType DEF TypeInv
<1>4. tags = Own(parameters[index]) \o Tags(datatypes, parameters[index].type)
  BY DEF TagsInv
<1>5. QED
  BY <1>1, <1>3, <1>4, SeenIsOn DEF TypeInv

(* As long as the way does not come by the first type, a search is before  *)
(* the type it looks for, and that one leads to the structure.             *)
Finds ==
  /\ StructOn(datatypes, parameters[index].type) /\ ~LeadsToFirst(datatypes, parameters[index].type)
     => StructOn(datatypes, type) /\ ~LeadsToFirst(datatypes, type) /\ pos <= type
  /\ Along(datatypes, type) # << >> =>
       /\ Along(datatypes, parameters[index].type) # << >>
       /\ EndOf(datatypes, parameters[index].type) = EndOf(datatypes, type)

FindInv ==
  /\ at \in {"chain", "value"} => pos = 1
  /\ at \in {"search", "show"} => Finds

LEMMA StepFindInv == TypeInv /\ TagsInv /\ FindInv /\ [Next]_vars => FindInv'
<1> SUFFICES ASSUME TypeInv, TagsInv, FindInv, [Next]_vars
             PROVE  FindInv'
  OBVIOUS
<1>1. UNCHANGED <<datatypes, parameters>>
  BY DEF Next, vars, input, NextParam, Follow, ChainEnds, ValueFromRegister, ShowMembers, NoValue, Push,
     SearchLink, SearchNext, SearchFails, SearchFinds, Return
<1>2. ASSUME UNCHANGED index, at \notin {"param", "done"}, type' = parameters[index].type, pos' = 1
      PROVE  Finds'
  <2>1. parameters[index].type \in Nat
    BY <1>2, ParameterType DEF TypeInv
  <2>2. StructOn(datatypes, parameters[index].type) => 1 <= parameters[index].type
    BY <2>1, StructStep, UnitType DEF TypeInv
  <2>3. QED
    BY <1>1, <1>2, <2>2 DEF Finds
<1>3. CASE SearchLink
  <2>1. PICK t \in DOMAIN datatypes : t = type /\ t = pos /\ datatypes[t].tag # "structure_type"
    <3>1. type \in DOMAIN datatypes
      BY <1>3, UnitType DEF SearchLink, TypeInv
    <3>2. QED
      BY <1>3, <3>1 DEF SearchLink
  <2>2. PICK r \in Nat : r = datatypes[t].type
    BY <2>1, UnitType DEF TypeInv
  <2>3. at \in {"search", "show"} /\ type' = r /\ pos' = 2 /\ UNCHANGED <<at, index>>
    BY <1>3, <2>1, <2>2 DEF SearchLink
  <2>4. /\ StructOn(datatypes, t) /\ ~LeadsToFirst(datatypes, t)
        => StructOn(datatypes, r) /\ ~LeadsToFirst(datatypes, r) /\ 2 <= r
    <3>1. SUFFICES ASSUME StructOn(datatypes, t), ~LeadsToFirst(datatypes, t)
                   PROVE  StructOn(datatypes, r) /\ ~LeadsToFirst(datatypes, r) /\ 2 <= r
      OBVIOUS
    <3>2. datatypes \in Units /\ t \in Nat
      BY <2>1, UnitType DEF TypeInv
    <3>3. StructOn(datatypes, r)
      BY <2>1, <2>2, <3>1, <3>2, StructStep
    <3>4. r \in DOMAIN datatypes
      BY <3>2, <3>3, StructStep
    <3>5. QED
      BY <2>2, <3>1, <3>2, <3>3, <3>4, FirstStep
  <2>5. Along(datatypes, t) # << >> /\ (Along(datatypes, r) # << >> => EndOf(datatypes, t) = EndOf(datatypes, r))
    BY <2>2, EndStep DEF TypeInv
  <2>6. QED
    BY <1>1, <2>1, <2>3, <2>4, <2>5 DEF FindInv, Finds
<1>4. CASE SearchNext
  <2>1. at \in {"search", "show"} /\ type # pos /\ pos' = pos + 1 /\ UNCHANGED <<at, index, type>>
    BY <1>4 DEF SearchNext
  <2>2. pos <= type => pos' <= type
    BY <2>1 DEF TypeInv
  <2>3. QED
    BY <1>1, <2>1, <2>2 DEF FindInv, Finds
<1>5. CASE NextParam
  BY <1>5 DEF NextParam, FindInv
<1>6. CASE Follow \/ ChainEnds
  BY <1>6 DEF Follow, ChainEnds, param, FindInv
<1>7. CASE ValueFromRegister
  <2>1. at = "value" /\ pos' = 1 /\ UNCHANGED index
    BY <1>7 DEF ValueFromRegister, FindInv
  <2>2. at' = "push" \/ (at' = "show" /\ type' = parameters[index].type)
    BY <1>7 DEF ValueFromRegister
  <2>3. QED
    BY <1>2, <2>1, <2>2 DEF FindInv
<1>8. CASE Push
  <2>1. at = "push" /\ (at' = "param" \/ (at' = "search" /\ type' = parameters[index].type /\ pos' = 1 /\ UNCHANGED index))
    BY <1>8 DEF Push, Advance
  <2>2. QED
    BY <1>2, <2>1 DEF FindInv
<1>9. CASE ShowMembers \/ NoValue \/ SearchFails \/ SearchFinds \/ Return
  BY <1>9 DEF ShowMembers, NoValue, SearchFails, SearchFinds, Return, Advance, FindInv
<1>10. CASE UNCHANGED vars
  BY <1>10 DEF vars, input, param, FindInv, Finds
<1>11. QED
  BY <1>3, <1>4, <1>5, <1>6, <1>7, <1>8, <1>9, <1>10 DEF Next


(***************************************************************************)
(* The later lookups find the structure the first one found, unless the    *)
(* way there comes by the unit's first type, for every order of the types  *)
(* and however many of them there are.                                     *)
(***************************************************************************)
THEOREM SecondLookupFinds == Spec => []SecondLookupAgrees
<1>1. Init => TagsInv /\ FindInv
  BY DEF Init, TagsInv, FindInv
<1>2. TypeInv /\ TagsInv /\ FindInv => SecondLookupAgrees
  <2> SUFFICES ASSUME TypeInv, TagsInv, FindInv,
                      at \in {"search", "show"}, pos > Len(datatypes), Has("structure_type")
               PROVE  \E i \in 2 .. Len(Path(parameters[index].type)) :
                        Path(parameters[index].type)[i] = 1
    BY DEF SecondLookupAgrees
  <2>1. PICK t : t = parameters[index].type
    OBVIOUS
  <2>2. StructOn(datatypes, t)
    BY <2>1, HasIsOn
  <2>3. LeadsToFirst(datatypes, t)
    <3>1. SUFFICES ASSUME ~LeadsToFirst(datatypes, t)
                   PROVE  FALSE
      OBVIOUS
    <3>2. StructOn(datatypes, type) /\ pos <= type
      BY <2>1, <2>2, <3>1 DEF FindInv, Finds
    <3>3. type \in 1 .. Len(datatypes)
      BY <3>2, StructStep, UnitType DEF TypeInv
    <3>4. QED
      BY <3>2, <3>3, UnitType DEF TypeInv
  <2>4. Path(t) = Along(datatypes, t)
    BY PathAlong
  <2>5. QED
    BY <2>1, <2>3, <2>4 DEF LeadsToFirst
<1>3. TypeInv /\ TagsInv /\ FindInv /\ [Next]_vars => TypeInv' /\ TagsInv' /\ FindInv'
  BY StepTypeInv, StepTagsInv, StepFindInv
<1>4. QED
  BY <1>1, <1>2, <1>3, InitTypeInv, PTL DEF Spec

-----------------------------------------------------------------------------
(***************************************************************************)
(* What may be converted to a number.                                      *)
(***************************************************************************)

(* A structure among the tags has one of these values; the last disjunct   *)
(* is what std::stol takes.                                                *)
StructureValue ==
  \/ value = Unread /\ pindex > ArgumentRegisters
  \/ value = "..." /\ (Has("unspecified_parameters") \/ Pointers = 0)
  \/ value \in {"*0x0", "high"} /\ Pointers # 0
  \/ Converts(value)

ShownInv ==
  /\ at \in {"chain", "value"} => value = Unread
  /\ (at \in {"show", "push"} /\ is_complex) \/ at = "search" => StructureValue

(* What the debugger ends at.                                              *)
NoNumber ==
  \/ value = Unread /\ pindex > ArgumentRegisters
  \/ value = "..." /\ \A i \in DOMAIN tags : ~IsPointer(tags[i])
  \/ value \in {"*0x0", "high"} /\ \E i \in DOMAIN tags : IsPointer(tags[i])

ThrowInv ==
  at = "abort" =>
    /\ NoNumber
    /\ tags = Tags(datatypes, parameters[index].type)
    /\ Along(datatypes, parameters[index].type) # << >>
    /\ datatypes[EndOf(datatypes, parameters[index].type)].tag = "structure_type"

LEMMA PrintedIs ==
  ASSUME NEW w, Has("structure_type")
  PROVE  \/ Printed(w) = "..." /\ (Has("unspecified_parameters") \/ Pointers = 0)
         \/ Printed(w) \in {"*0x0", "high"} /\ Pointers # 0
         \/ Converts(Printed(w))
BY DEF Printed, Converts

(* pointer_count is 0 for tags without a pointer, and for no others. *)
LEMMA PointersIs ==
  ASSUME tags \in Seq(STRING)
  PROVE  Pointers = 0 <=> \A i \in DOMAIN tags : ~IsPointer(tags[i])
<1> DEFINE T == {i \in DOMAIN tags : IsPointer(tags[i])}
<1>1. IsFiniteSet(DOMAIN tags)
  <2>1. Len(tags) \in Nat /\ DOMAIN tags = 1 .. Len(tags)
    BY LenProperties
  <2>2. QED
    BY <2>1, FS_Interval
<1>2. T \in SUBSET DOMAIN tags
  OBVIOUS
<1>3. IsFiniteSet(T)
  BY <1>1, <1>2, FS_Subset
<1>4. Cardinality(T) = 0 <=> T = {}
  BY <1>3, FS_EmptySet
<1>5. QED
  BY <1>4 DEF Pointers

LEMMA StepShownInv == ShownInv /\ [Next]_vars => ShownInv'
<1> SUFFICES ASSUME ShownInv, [Next]_vars
             PROVE  ShownInv'
  OBVIOUS
<1>1. CASE NextParam
  BY <1>1 DEF NextParam, ShownInv
<1>2. CASE Follow \/ ChainEnds
  BY <1>2 DEF Follow, ChainEnds, param, ShownInv
<1>3. CASE ValueFromRegister
  <2>1. PICK w : value' = Printed(w)
    BY <1>3 DEF ValueFromRegister
  <2>2. tags' = tags /\ is_complex' = Has("structure_type") /\ at' \in {"show", "push"}
    BY <1>3 DEF ValueFromRegister
  <2>3. /\ Pointers' = Pointers
        /\ Has("unspecified_parameters")' = Has("unspecified_parameters")
    BY <2>2 DEF Pointers, Has
  <2>4. is_complex' => StructureValue'
    <3>1. SUFFICES ASSUME is_complex'
                   PROVE  StructureValue'
      OBVIOUS
    <3>2. Has("structure_type")
      BY <2>2, <3>1
    <3>3. QED
      BY <2>1, <2>3, <3>2, PrintedIs DEF StructureValue, Converts
  <2>5. QED
    BY <2>2, <2>4 DEF ShownInv
<1>4. CASE NoValue
  <2>1. /\ value' = Unread /\ at' = "push" /\ pindex > ArgumentRegisters
        /\ UNCHANGED <<index, complex_idx>>
    BY <1>4 DEF NoValue, ShownInv
  <2>2. StructureValue'
    BY <2>1 DEF StructureValue, pindex
  <2>3. QED
    BY <2>1, <2>2 DEF ShownInv
<1>5. CASE ShowMembers \/ SearchLink \/ SearchNext
  <2>1. UNCHANGED <<tags, value, is_complex, index, complex_idx>>
    BY <1>5 DEF ShowMembers, SearchLink, SearchNext, param
  <2>2. StructureValue' = StructureValue
    BY <2>1 DEF StructureValue, Converts, Has, Pointers, pindex
  <2>3. at \in {"search", "show"} /\ (at' = at \/ (at = "show" /\ at' = "push"))
    BY <1>5 DEF ShowMembers, SearchLink, SearchNext
  <2>4. QED
    BY <2>1, <2>2, <2>3 DEF ShownInv
<1>6. CASE Push
  <2>1. at = "push" /\ (at' = "param" \/ (at' = "search" /\ is_complex /\ UNCHANGED index))
    BY <1>6 DEF Push, Advance
  <2>2. UNCHANGED <<tags, value, is_complex, complex_idx>>
    BY <1>6 DEF Push
  <2>3. UNCHANGED index => StructureValue' = StructureValue
    BY <2>2 DEF StructureValue, Converts, Has, Pointers, pindex
  <2>4. QED
    BY <2>1, <2>3 DEF ShownInv
<1>7. CASE SearchFails \/ SearchFinds \/ Return
  BY <1>7 DEF SearchFails, SearchFinds, Return, Advance, ShownInv
<1>8. CASE UNCHANGED vars
  BY <1>8 DEF vars, input, param, ShownInv, StructureValue, Converts, Has, Pointers, pindex
<1>9. QED
  BY <1>1, <1>2, <1>3, <1>4, <1>5, <1>6, <1>7, <1>8 DEF Next

(* A search that finds a structure is for a parameter of a type of the     *)
(* unit, and the tags are those along its links and no others.             *)
LEMMA FoundTags ==
  ASSUME TypeInv, TagsInv, at = "search", Along(datatypes, parameters[index].type) # << >>
  PROVE  /\ tags = Tags(datatypes, parameters[index].type)
         /\ ~Has("unspecified_parameters")
<1>1. index \in 1 .. Len(parameters)
  BY DEF TypeInv
<1>2. PICK p \in Parameters : p = parameters[index]
  BY <1>1, ParameterType DEF TypeInv
<1>3. PICK t \in Nat : t = p.type
  BY <1>1, <1>2, ParameterType DEF TypeInv
<1>4. p.tag # "unspecified_parameters"
  <2>1. SUFFICES ASSUME p.tag = "unspecified_parameters"
                 PROVE  FALSE
    OBVIOUS
  <2>2. t = 0
    BY <1>3, <2>1, PayloadAssumption
  <2>3. t \notin DOMAIN datatypes
    BY <2>2, UnitType DEF TypeInv
  <2>4. QED
    BY <1>2, <1>3, <2>3, NoPath DEF TypeInv
<1>5. PICK c : c = Tags(datatypes, t)
  OBVIOUS
<1>6. /\ c \in Seq(STRING) /\ DOMAIN c = 1 .. Len(Along(datatypes, t))
      /\ \A i \in 1 .. Len(Along(datatypes, t)) : c[i] = datatypes[Along(datatypes, t)[i]].tag
  BY <1>5, ChainIs DEF TypeInv
<1>7. tags = c
  <2>1. tags = << >> \o c
    BY <1>2, <1>3, <1>4, <1>5 DEF TagsInv, Own
  <2>2. QED
    BY <1>6, <2>1, ConcatEmptySeq
<1>8. \A i \in DOMAIN c : c[i] # "unspecified_parameters"
  <2>1. Along(datatypes, t) \in Seq(DOMAIN datatypes)
    BY PathType DEF TypeInv
  <2>2. \A i \in 1 .. Len(Along(datatypes, t)) : Along(datatypes, t)[i] \in DOMAIN datatypes
    BY <2>1, ElementOfSeq
  <2>3. \A d \in DOMAIN datatypes : datatypes[d].tag # "unspecified_parameters"
    BY PayloadAssumption DEF TypeInv
  <2>4. QED
    BY <1>6, <2>2, <2>3
<1>9. QED
  BY <1>2, <1>3, <1>5, <1>7, <1>8 DEF Has

LEMMA StepThrowInv ==
  TypeInv /\ TagsInv /\ FindInv /\ ShownInv /\ ThrowInv /\ [Next]_vars => ThrowInv'
<1> SUFFICES ASSUME TypeInv, TagsInv, FindInv, ShownInv, ThrowInv, [Next]_vars
             PROVE  ThrowInv'
  OBVIOUS
<1>1. CASE SearchFinds /\ at' = "abort"
  <2>1. /\ at = "search" /\ ~Converts(value)
        /\ UNCHANGED <<datatypes, parameters, index, complex_idx, tags, value>>
    BY <1>1 DEF SearchFinds, Advance, input, param
  <2>2. StructureValue
    BY <2>1 DEF ShownInv
  <2>3. PICK t \in DOMAIN datatypes : t = type /\ datatypes[t].tag = "structure_type"
    <3>1. type \in DOMAIN datatypes
      BY <1>1, UnitType DEF SearchFinds, TypeInv
    <3>2. QED
      BY <1>1, <3>1 DEF SearchFinds
  <2>4. Along(datatypes, t) # << >> /\ EndOf(datatypes, t) = t
    BY <2>3, EndStep DEF TypeInv
  <2>5. /\ Along(datatypes, parameters[index].type) # << >>
        /\ EndOf(datatypes, parameters[index].type) = t
    BY <2>1, <2>3, <2>4 DEF FindInv, Finds
  <2>6. tags = Tags(datatypes, parameters[index].type) /\ ~Has("unspecified_parameters")
    BY <2>1, <2>5, FoundTags
  <2>7. NoNumber
    <3>1. Pointers = 0 <=> \A i \in DOMAIN tags : ~IsPointer(tags[i])
      BY PointersIs DEF TypeInv
    <3>2. QED
      BY <2>1, <2>2, <2>6, <3>1 DEF StructureValue, NoNumber
  <2>8. NoNumber'
    BY <2>1, <2>7 DEF NoNumber, pindex
  <2>9. QED
    BY <2>1, <2>3, <2>5, <2>6, <2>8 DEF ThrowInv
<1>2. CASE at' # "abort"
  BY <1>2 DEF ThrowInv
<1>3. CASE UNCHANGED vars
  BY <1>3 DEF vars, input, param, ThrowInv, NoNumber, pindex
<1>4. QED
  BY <1>1, <1>2, <1>3 DEF Next, NextParam, Follow, ChainEnds, ValueFromRegister, ShowMembers, NoValue, Push,
     SearchLink, SearchNext, SearchFails, Return, Advance

(***************************************************************************)
(* std::stol ends the debugger only at a structure, and only at one that   *)
(* no register is left for, that is passed by value, or that is pointed to *)
(* by 0 or by a word that exceeds a long; for every unit, every parameter  *)
(* and any number of registers.  What generate_complex_payload converts    *)
(* for the type it finds is what get_datatype_value printed for it.        *)
(***************************************************************************)
THEOREM OnlyStructuresEnd == Spec => []OnlyStructuresThrow
<1> DEFINE Inv == TypeInv /\ TagsInv /\ FindInv /\ ShownInv /\ ThrowInv
<1>1. Init => Inv
  BY InitTypeInv DEF Init, TagsInv, FindInv, ShownInv, ThrowInv
<1>2. Inv => OnlyStructuresThrow
  <2> SUFFICES ASSUME TypeInv, ThrowInv, at = "abort"
               PROVE  OnlyStructuresThrow
    BY DEF OnlyStructuresThrow
  <2>1. index \in 1 .. Len(parameters)
    BY DEF TypeInv
  <2>2. PICK t \in Nat : t = parameters[index].type
    BY <2>1, ParameterType DEF TypeInv
  <2>3. PICK c, p : c = Chain(t) /\ p = Along(datatypes, t)
    OBVIOUS
  <2>4. c = Tags(datatypes, t)
    BY <2>3, PathAlong
  <2>5. /\ NoNumber /\ tags = c /\ p # << >>
        /\ datatypes[p[Len(p)]].tag = "structure_type"
    BY <2>2, <2>3, <2>4 DEF ThrowInv, EndOf
  <2>6. /\ c \in Seq(STRING) /\ Len(c) = Len(p)
        /\ \A i \in 1 .. Len(p) : c[i] = datatypes[p[i]].tag
    BY <2>3, <2>4, ChainIs DEF TypeInv
  <2>7. p \in Seq(DOMAIN datatypes)
    BY <2>3, PathType DEF TypeInv
  <2>8. Len(p) \in Nat \ {0}
    BY <2>5, <2>7, EmptySeq, LenProperties
  <2>9. c # << >> /\ c[Len(c)] = "structure_type"
    <3>1. Len(<< >>) = 0 /\ Len(p) \in 1 .. Len(p)
      BY <2>8
    <3>2. QED
      BY <2>5, <2>6, <2>8, <3>1
  <2>10. QED
    BY <2>2, <2>3, <2>5, <2>9 DEF OnlyStructuresThrow, NoNumber
<1>3. Inv /\ [Next]_vars => Inv'
  BY StepTypeInv, StepTagsInv, StepFindInv, StepShownInv, StepThrowInv
<1>4. QED
  BY <1>1, <1>2, <1>3, PTL DEF Spec
=============================================================================
