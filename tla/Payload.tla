------------------------------- MODULE Payload ------------------------------
(***************************************************************************)
(* generate_function_payload (src/compile_unit.cc): what the debugger does *)
(* with the parameters of a function when a call of it is met.  For each   *)
(* one it follows the type links through cu.datatypes, picks the register  *)
(* that holds the value, and, if the links lead to a structure, looks the  *)
(* structure up a second time to show its members.                         *)
(*                                                                         *)
(* The types are those of one unit; their positions in cu.datatypes stand  *)
(* for their section offsets, 0 for none, and a position past the end for  *)
(* a type that is not in cu.datatypes (one local to a function).  A base   *)
(* type's tag is what is_number_value and is_string_value make of its      *)
(* name; that a typedef on the way to it may be called "charge" and count  *)
(* as a string is left out.  Values are strings, told apart as far as      *)
(* comparisons with them and std::stol do.  What the memory behind a       *)
(* pointer adds to them is in Extract.                                     *)
(***************************************************************************)
EXTENDS Naturals, Sequences, FiniteSets

CONSTANTS
  Units,      (* The cu.datatypes there may be: sequences of               *)
              (* [tag, type, words, members], where words is the size in   *)
              (* eight-byte words and members how many members it has.     *)
  Parameters, (* What a parameter may be: [tag, type]; unspecified ones    *)
              (* come last.                                                *)
  ArgumentRegisters, (* How many there are: rdi, rsi, rdx, rcx, r8 and r9, *)
                     (* fewer in the model instances.                      *)
  MaxParams   (* Bound: parameters of a function.                          *)

(* DWARF type links only run in circles through a structure, whose own     *)
(* DIE has none: every other type is built, in so many steps, from the one *)
(* its link leads to.  Unspecified parameters are a function's, and no     *)
(* type.                                                                   *)
ASSUME PayloadAssumption ==
  /\ Units \subseteq Seq([tag : STRING, type : Nat, words : Nat, members : Nat])
  /\ \A u \in Units :
       /\ \A t \in DOMAIN u : u[t].tag # "unspecified_parameters"
       /\ \A t \in DOMAIN u : u[t].tag = "structure_type" => u[t].type = 0
       /\ \E steps \in [DOMAIN u -> 0 .. Len(u)] :
            \A t \in DOMAIN u : u[t].type \in DOMAIN u => steps[u[t].type] < steps[t]
  /\ Parameters \subseteq [tag : STRING, type : Nat]
  /\ \A p \in Parameters : p.tag = "unspecified_parameters" => p.type = 0
  /\ ArgumentRegisters \in Nat
  /\ MaxParams \in Nat

VARIABLES
  datatypes,   (* cu.datatypes.                                            *)
  parameters,  (* func.parameters.                                         *)
  at,          (* Where the code stands.                                   *)
  index,       (* The parameter it is at.                                  *)
  complex_idx,
  type,        (* current_dt.type, later temp_param.type.                  *)
  tags,        (* sdb_param.datatypes: the tags along the links.           *)
  value,       (* sdb_param.value.                                         *)
  is_complex,  (* sdb_param.is_complex.                                    *)
  pos,         (* The index into cu.datatypes of the second lookup.        *)
  param_vars   (* The parameters done: [value, register].                  *)

input == <<datatypes, parameters>>
param == <<type, tags, value, is_complex, pos>>
vars  == <<input, at, index, complex_idx, param, param_vars>>

(* The value of a parameter before one is read. *)
Unread == ""

Has(tag) == \E i \in DOMAIN tags : tags[i] = tag

IsPointer(tag) == tag \in {"pointer_type", "array_type"}

(* pointer_count of datatype_value_to_string. *)
Pointers == Cardinality({i \in DOMAIN tags : IsPointer(tags[i])})

(* The values of a register that lead to different behaviour: 0, 2^60 - 1, *)
(* the words from 2^63 on (-1, which has an alias of its own, is one), and *)
(* the others.                                                             *)
Words == {"zero", "2^60-1", "high", "other"}

(* The value printed for a register that holds the word w; "high" stands   *)
(* for the addresses that exceed a long, "hex" for those that do not.      *)
(* long_to_hex_string(0) is "*0x0".                                        *)
Printed(w) ==
  IF Has("unspecified_parameters") THEN "..."
  ELSE IF Pointers = 0 THEN IF Has("number") \/ Has("char") THEN "decimal"
                            ELSE IF Has("structure_type") THEN "..." ELSE "unknown"
  ELSE IF w = "high" THEN "high"
  ELSE IF w = "2^60-1" THEN "0xfffffffffffffff"
  ELSE IF w = "other" THEN "hex"
  ELSE IF Pointers = 1 /\ Has("number") THEN "0x0" ELSE "*0x0"

(* Faulty variant: std::stoi, which no address fits. *)
Converts_Int(v) == v \in {"decimal", "0x0"}

(* std::stol(value, nullptr, 0) returns; it throws on anything that is no  *)
(* number or exceeds a long, and on the empty string.                      *)
Converts(v) == v \in {"decimal", "0x0", "hex", "0xfffffffffffffff"}

(* The values generate_complex_payload returns at; the second is meant for *)
(* -1, but one "f" short of it.                                            *)
Guarded == {"0x0", "0xfffffffffffffff"}

pindex == index + complex_idx

-----------------------------------------------------------------------------
NextParam ==
  /\ at = "param" /\ index <= Len(parameters)
  /\ at' = "chain"
  /\ type' = parameters[index].type
  /\ tags' = IF parameters[index].tag = "unspecified_parameters"
             THEN <<"unspecified_parameters">> ELSE << >>
  /\ value' = Unread
  /\ is_complex' = FALSE
  /\ pos' = 1
  /\ UNCHANGED <<input, index, complex_idx, param_vars>>

(* Faulty variant: the links end at the first structure, pointer or base   *)
(* type.                                                                   *)
Follow_One ==
  /\ at = "chain" /\ type \in DOMAIN datatypes
  /\ tags' = Append(tags, datatypes[type].tag)
  /\ type' = IF datatypes[type].tag = "typedef" THEN datatypes[type].type ELSE 0
  /\ UNCHANGED <<input, at, index, complex_idx, value, is_complex, pos, param_vars>>

(* get_datatype_metadata: one round of its loop. *)
Follow ==
  /\ at = "chain" /\ type \in DOMAIN datatypes
  /\ tags' = Append(tags, datatypes[type].tag)
  /\ type' = datatypes[type].type
  /\ UNCHANGED <<input, at, index, complex_idx, value, is_complex, pos, param_vars>>

ChainEnds ==
  /\ at = "chain" /\ type \notin DOMAIN datatypes
  /\ at' = "value"
  /\ UNCHANGED <<input, index, complex_idx, param, param_vars>>

(* get_datatype_value with an argument register to read.  For a structure  *)
(* passed by value complex_value_to_string starts a search of its own.     *)
ValueFromRegister ==
  /\ at = "value" /\ pindex <= ArgumentRegisters
  /\ \E w \in Words : value' = Printed(w)
  /\ is_complex' = Has("structure_type")
  /\ IF Pointers = 0 /\ Has("structure_type")
     THEN at' = "show" /\ type' = parameters[index].type
     ELSE at' = "push" /\ UNCHANGED type
  /\ UNCHANGED <<input, index, complex_idx, tags, pos, param_vars>>

(* complex_value_to_string prints the members of the structure it finds.   *)
(* It takes complex_idx by reference, and leaves it as it is.              *)
ShowMembers ==
  /\ at = "show"
  /\ pos > Len(datatypes) \/ (type = pos /\ datatypes[pos].tag = "structure_type")
  /\ at' = "push"
  /\ UNCHANGED <<input, index, complex_idx, param, param_vars>>

(* From the seventh on nothing is read: the value stays empty, and         *)
(* is_complex, which is only set together with a value, is whatever the    *)
(* stack held.                                                             *)
NoValue ==
  /\ at = "value" /\ pindex > ArgumentRegisters
  /\ is_complex' \in BOOLEAN
  /\ at' = "push"
  /\ UNCHANGED <<input, index, complex_idx, type, tags, value, pos, param_vars>>

Advance == at' = "param" /\ index' = index + 1

(* The parameter is done; a complex one goes on to                         *)
(* generate_complex_payload and its guard.                                 *)
Push ==
  /\ at = "push"
  /\ param_vars' = Append(param_vars, [value |-> value, register |-> pindex])
  /\ \/ /\ is_complex /\ value \notin Guarded
        /\ at' = "search"
        /\ type' = parameters[index].type
        /\ pos' = 1
        /\ UNCHANGED index
     \/ /\ ~is_complex \/ value \in Guarded
        /\ Advance
        /\ UNCHANGED <<type, pos>>
  /\ UNCHANGED <<input, complex_idx, tags, value, is_complex>>

(* Faulty variant: the search starts again for the same type. *)
SearchLink_Same ==
  /\ at \in {"search", "show"} /\ pos <= Len(datatypes) /\ type = pos
  /\ datatypes[pos].tag # "structure_type"
  /\ pos' = 2
  /\ UNCHANGED <<input, at, index, complex_idx, type, tags, value, is_complex, param_vars>>

(* Faulty variant: the search goes on from where it is. *)
SearchLink_Forward ==
  /\ at \in {"search", "show"} /\ pos <= Len(datatypes) /\ type = pos
  /\ datatypes[pos].tag # "structure_type"
  /\ type' = datatypes[pos].type
  /\ pos' = pos + 1
  /\ UNCHANGED <<input, at, index, complex_idx, tags, value, is_complex, param_vars>>

(* Both searches, at a type that is a link: they go on with what the       *)
(* link leads to.  The index is set to 0 and then incremented by the for   *)
(* statement, so the first type is not looked at again.                    *)
SearchLink ==
  /\ at \in {"search", "show"} /\ pos <= Len(datatypes) /\ type = pos
  /\ datatypes[pos].tag # "structure_type"
  /\ type' = datatypes[pos].type
  /\ pos' = 2
  /\ UNCHANGED <<input, at, index, complex_idx, tags, value, is_complex, param_vars>>

SearchNext ==
  /\ at \in {"search", "show"} /\ pos <= Len(datatypes) /\ type # pos
  /\ pos' = pos + 1
  /\ UNCHANGED <<input, at, index, complex_idx, type, tags, value, is_complex, param_vars>>

SearchFails ==
  /\ at = "search" /\ pos > Len(datatypes)
  /\ Advance
  /\ UNCHANGED <<input, complex_idx, param, param_vars>>

(* The structure: for each member the value is converted to a number; what *)
(* std::stol throws nobody catches.                                        *)
SearchFinds ==
  /\ at = "search" /\ pos <= Len(datatypes) /\ type = pos
  /\ datatypes[pos].tag = "structure_type"
  /\ \/ /\ datatypes[pos].members = 0 \/ Converts(value)
        /\ Advance
     \/ /\ datatypes[pos].members > 0 /\ ~Converts(value)
        /\ at' = "abort" /\ UNCHANGED index
  /\ UNCHANGED <<input, complex_idx, param, param_vars>>

Return ==
  /\ at = "param" /\ index > Len(parameters)
  /\ at' = "done"
  /\ UNCHANGED <<input, index, complex_idx, param, param_vars>>

Init ==
  /\ datatypes \in Units
  /\ parameters \in UNION {[1 .. n -> Parameters] : n \in 0 .. MaxParams}
  /\ \A k \in DOMAIN parameters :
       parameters[k].tag = "unspecified_parameters" => k = Len(parameters)
  /\ at = "param"
  /\ index = 1
  /\ complex_idx = 0
  /\ type = 0
  /\ tags = << >>
  /\ value = Unread
  /\ is_complex = FALSE
  /\ pos = 1
  /\ param_vars = << >>

Next == \/ NextParam \/ Follow \/ ChainEnds \/ ValueFromRegister \/ ShowMembers
        \/ NoValue \/ Push
        \/ SearchLink \/ SearchNext \/ SearchFails \/ SearchFinds \/ Return

Spec == Init /\ [][Next]_vars

(* The debugger's own loops, on its own data: it just runs. *)
FairSpec == Spec /\ WF_vars(Next)

-----------------------------------------------------------------------------
(***************************************************************************)
(* Properties.                                                             *)
(***************************************************************************)

(* The types along the links from t on, by definition, and their tags. *)
Path(t) ==
  LET from[s \in Nat] ==
        IF s \in DOMAIN datatypes THEN <<s>> \o from[datatypes[s].type] ELSE << >>
  IN from[t]

Chain(t) == LET p == Path(t) IN [i \in DOMAIN p |-> datatypes[p[i]].tag]

(* get_datatype_metadata has followed the links of a parameter to their    *)
(* end and seen every tag on the way, wherever in cu.datatypes they lead.  *)
LinksFollowed ==
  at = "value" =>
    LET p == parameters[index] IN
      tags = (IF p.tag = "unspecified_parameters" THEN <<p.tag>> ELSE << >>) \o Chain(p.type)

(* What std::stol throws ends the debugger only at a parameter whose type  *)
(* leads to a structure, and there only if no register is left for it, if  *)
(* it is passed by value, or if it is pointed to by 0 or by a word from    *)
(* 2^63 on.                                                                *)
OnlyStructuresThrow ==
  at = "abort" =>
    LET c == Chain(parameters[index].type)
        pointed == \E i \in DOMAIN c : IsPointer(c[i])
    IN /\ c # << >> /\ c[Len(c)] = "structure_type"
       /\ \/ value = Unread /\ pindex > ArgumentRegisters
          \/ value = "..." /\ ~pointed
          \/ value \in {"*0x0", "high"} /\ pointed

(* Both loops over the links end, and with them the call's payload: the    *)
(* debuggee, stopped at its breakpoint meanwhile, is not left there.       *)
Finishes == <>(at \in {"done", "abort"})

(* The later lookups, loops of another kind, find the structure the first  *)
(* one found, except where a link leads to the first type of the unit:     *)
(* that one they skip (index = 0 in a for statement).                      *)
SecondLookupAgrees ==
  at \in {"search", "show"} /\ pos > Len(datatypes) /\ Has("structure_type") =>
    LET p == Path(parameters[index].type) IN \E i \in 2 .. Len(p) : p[i] = 1

(* The integer registers a parameter of a known type is passed in: two for *)
(* a structure of two words, none for a larger one (it is on the stack).   *)
Bare(t) ==
  LET from[s \in Nat] ==
        IF s \in DOMAIN datatypes /\ datatypes[s].tag \in {"typedef", "const_type"}
        THEN from[datatypes[s].type] ELSE s
  IN from[t]

Takes(p) ==
  LET t == Bare(p.type) IN
    IF t \notin DOMAIN datatypes THEN 0
    ELSE IF datatypes[t].tag # "structure_type" THEN 1
    ELSE IF datatypes[t].words > 2 THEN 0
    ELSE datatypes[t].words

Taken[k \in 0 .. MaxParams] ==
  IF k = 0 THEN 0 ELSE Taken[k - 1] + Takes(parameters[k])

(* The value of each parameter is read from the register the caller put it *)
(* in ("calling convention here").                                         *)
RightRegister ==
  \A k \in DOMAIN param_vars :
    Takes(parameters[k]) = 1 => param_vars[k].register = Taken[k - 1] + 1
=============================================================================
