------------------------------ MODULE MCPayload -----------------------------
(***************************************************************************)
(* Types and parameters for Payload: every order of a number, a structure, *)
(* a typedef of it and a pointer to the typedef, each of them a possible   *)
(* parameter, and a type that is not there.                                *)
(***************************************************************************)
EXTENDS Payload

Type(tag, link, words, count) ==
  [tag |-> tag, type |-> link, words |-> words, members |-> count]

(* The types laid out by the permutation p of their positions. *)
Layout(p, words, count) ==
  LET at_(k) == CHOOSE i \in 1 .. 4 : p[i] = k IN
  [i \in 1 .. 4 |->
     CASE p[i] = 1 -> Type("number", 0, 1, 0)
       [] p[i] = 2 -> Type("structure_type", 0, words, count)
       [] p[i] = 3 -> Type("typedef", at_(2), 1, 0)
       [] p[i] = 4 -> Type("pointer_type", at_(3), 1, 0)]

Orders == {p \in [1 .. 4 -> 1 .. 4] : \A i, j \in 1 .. 4 : p[i] = p[j] => i = j}

MCUnits == {Layout(p, 2, count) : p \in Orders, count \in 0 .. 1}

MCParameters ==
  {[tag |-> "formal_parameter", type |-> t] : t \in 1 .. 5} \cup
  {[tag |-> "unspecified_parameters", type |-> 0]}

(* Structures of every size, and only types that are in the unit. *)
MCSizedUnits == {Layout(<<1, 3, 2, 4>>, words, 0) : words \in 1 .. 3}
MCKnownParameters == {[tag |-> "formal_parameter", type |-> t] : t \in 1 .. 4}
=============================================================================
