----------------------------- MODULE CompileUnit ----------------------------
(***************************************************************************)
(* poc::cu::CompileUnitManager (src/compile_unit.cc) reading .debug_info:  *)
(* get_compile_units and the preorder walk of process_cu_tree.             *)
(*                                                                         *)
(* A DIE does not know its parent in this walk: what lies below a function *)
(* or a type is collected in members and handed over when the walk comes   *)
(* back to depth 2 (or, within a function, to an inlined call), to         *)
(* whatever prev_tag says was last added there.                            *)
(*                                                                         *)
(* The debug information is external.  It is chosen DIE by DIE as the walk *)
(* asks for it and kept in debug_info, where the position of a DIE stands  *)
(* for its section offset.  A DIE is [tag, depth, code, odd]: code tells   *)
(* where a subprogram's code is said to be; odd is an attribute whose      *)
(* value is printed as something std::stol cannot convert (a location      *)
(* expression, a constant beyond a long), or "none".  datatype_index,      *)
(* which set_datatype computes and nothing reads, is left out.             *)
(***************************************************************************)
EXTENDS Naturals, Sequences

CONSTANTS Shapes,  (* The DIEs there may be, roots of units included.      *)
          Nesting, (* Pairs of tags: what may lie directly below what.     *)
          MaxDies  (* Bound: DIEs in .debug_info.                          *)

(* prev_tag when members belong to nobody. *)
NoTag == ""

ParameterTags == {"formal_parameter", "unspecified_parameters"}

(* The tags below depth 2 that are recorded. *)
MemberTags == ParameterTags \cup {"variable", "member"}

-----------------------------------------------------------------------------
(* Attributes.  Which of them are converted depends on the DIE.            *)

(* What says in which source line it was declared. *)
Declared == {"typedef", "union_type", "structure_type", "member",
             "enumeration_type", "formal_parameter", "variable"}

(* add_datatype_field: the attributes it converts, each for these tags.    *)
add_datatype_field ==
  [byte_size   |-> {"base_type", "union_type", "pointer_type", "structure_type",
                    "enumeration_type"},
   encoding    |-> {"base_type"},
   decl_file   |-> Declared,
   decl_line   |-> Declared,
   sibling     |-> {"array_type", "union_type", "subroutine_type", "structure_type",
                    "enumeration_type"},
   type        |-> {"typedef", "array_type", "const_type", "subroutine_type", "member",
                    "subrange_type", "formal_parameter", "variable", "pointer_type"},
   upper_bound |-> {"subrange_type"},
   data_member_location |-> {"member"}]

add_function_field == {"decl_file", "decl_line", "low_pc", "high_pc", "inline", "type", "sibling"}

add_global_variable_field == {"decl_file", "decl_line", "type"}

set_new_cu == {"low_pc", "high_pc"}

(* The attributes the walk converts at d.  Below depth 2 the tags that are *)
(* not recorded are not even looked at.                                    *)
Converted(d) ==
  CASE d.depth = 1 -> IF d.tag = "compile_unit" THEN set_new_cu ELSE {}
    [] d.depth = 2 /\ d.tag = "subprogram" -> add_function_field
    [] d.depth = 2 /\ d.tag = "variable" -> add_global_variable_field
    [] d.depth > 2 /\ d.tag \notin MemberTags -> {}
    [] OTHER -> {a \in DOMAIN add_datatype_field : d.tag \in add_datatype_field[a]}

Converts(d) == d.odd \notin Converted(d)

-----------------------------------------------------------------------------

ASSUME CompileUnitAssumption ==
  /\ \A d \in Shapes : /\ d = [tag |-> d.tag, depth |-> d.depth, code |-> d.code, odd |-> d.odd]
                       /\ d.tag \in STRING
                       /\ d.depth \in Nat \ {0}
                       /\ d.code \in {"low_pc", "inline", "none"}
                       /\ d.odd \in STRING
  /\ MaxDies \in Nat

VARIABLES
  debug_info,      (* The DIEs visited so far.                             *)
  walk,            (* "unit": before the next unit; "visit": before the    *)
                   (* next DIE; "save": members are being handed over for  *)
                   (* the DIE just visited; "add": it is to be recorded.   *)
  compile_unit,    (* The unit being filled; root: which one it is.        *)
  members,         (* What has been collected and not yet handed over.     *)
  prev_tag,        (* "functions", "datatype" or NoTag.                    *)
  m_compile_units  (* The units that were parsed.                          *)

vars == <<debug_info, walk, compile_unit, members, prev_tag, m_compile_units>>

Here == Len(debug_info)       (* the DIE being processed *)
Node == debug_info[Here]

EmptyUnit(root) ==
  [root |-> root, functions |-> << >>, datatypes |-> << >>, global_variables |-> << >>]

-----------------------------------------------------------------------------
(* get_compile_units: one more unit, its locals fresh.  set_new_cu may     *)
(* throw on an attribute of the root.                                      *)
NextUnit ==
  /\ walk = "unit" /\ Here < MaxDies
  /\ \E d \in Shapes :
       /\ d.depth = 1
       /\ debug_info' = Append(debug_info, d)
       /\ walk' = IF Converts(d) THEN "visit" ELSE "unit"
  /\ compile_unit' = EmptyUnit(Here + 1)
  /\ members' = << >>
  /\ prev_tag' = NoTag
  /\ UNCHANGED m_compile_units

(* Members are handed over at the next DIE of depth 2, or when a function  *)
(* turns to an inlined call.                                               *)
Closes(d) ==
  /\ members # << >>
  /\ d.depth = 2 \/ (d.tag = "inlined_subroutine" /\ prev_tag = "functions")

(* d may come next (external).  Compilers put the parameters of a function *)
(* or of an inlined call before anything else below it.                    *)
Fits(d) ==
  /\ \E p \in 1 .. Here :
       /\ debug_info[p].depth = d.depth - 1
       /\ \A j \in (p + 1) .. Here : debug_info[j].depth >= d.depth
       /\ <<debug_info[p].tag, d.tag>> \in Nesting
  /\ d.tag \in ParameterTags => Node.depth = d.depth - 1 \/ Node.tag \in ParameterTags

(* process_cu_tree is called for the next DIE in preorder. *)
Visit ==
  /\ walk = "visit" /\ Here < MaxDies
  /\ \E d \in Shapes :
       /\ d.depth > 1 /\ Fits(d)
       /\ debug_info' = Append(debug_info, d)
       /\ walk' = IF Closes(d) THEN "save" ELSE "add"
  /\ UNCHANGED <<compile_unit, members, prev_tag, m_compile_units>>

(* Faulty variant: unspecified parameters are forgotten. *)
WithMember_Formal(f, m) ==
  IF m.tag = "formal_parameter" THEN [f EXCEPT !.parameters = Append(@, m)]
  ELSE IF m.tag = "variable" THEN [f EXCEPT !.members = Append(@, m)]
  ELSE f

(* What a function keeps of one collected DIE. *)
WithMember(f, m) ==
  IF m.tag \in ParameterTags THEN [f EXCEPT !.parameters = Append(@, m)]
  ELSE IF m.tag = "variable" THEN [f EXCEPT !.members = Append(@, m)]
  ELSE f

(* One round of the loop that hands members to the last function; members  *)
(* holds what is left to hand over.                                        *)
SaveMember ==
  /\ walk = "save" /\ prev_tag = "functions" /\ members # << >>
  /\ compile_unit' = [compile_unit EXCEPT
       !.functions[Len(compile_unit.functions)] = WithMember(@, Head(members))]
  /\ members' = Tail(members)
  /\ UNCHANGED <<debug_info, walk, prev_tag, m_compile_units>>

(* The last type takes all of members at once. *)
AssignMembers ==
  /\ walk = "save" /\ prev_tag = "datatype" /\ members # << >>
  /\ compile_unit' = [compile_unit EXCEPT
       !.datatypes[Len(compile_unit.datatypes)].members = members]
  /\ members' = << >>
  /\ UNCHANGED <<debug_info, walk, prev_tag, m_compile_units>>

(* members.clear(), prev_tag = NoTag: what belongs to nobody is dropped. *)
ClearMembers ==
  /\ walk = "save" /\ (members = << >> \/ prev_tag = NoTag)
  /\ members' = << >>
  /\ prev_tag' = NoTag
  /\ walk' = "add"
  /\ UNCHANGED <<debug_info, compile_unit, m_compile_units>>

(* The low_pc of a function: the one of its DIE, or, if it has none and is *)
(* not inline, what dlsym finds under its name in the debugger itself.     *)
LowPc(d) == CASE d.code = "low_pc" -> "debuggee"
              [] d.code = "inline" -> "none"
              [] OTHER             -> "dlsym"

(* Faulty variant: prev_tag is set to the tag. *)
AddFunction_Tag ==
  /\ walk = "add" /\ Node.depth = 2 /\ Node.tag = "subprogram" /\ Converts(Node)
  /\ compile_unit' = [compile_unit EXCEPT !.functions =
       Append(@, [off |-> Here, low_pc |-> LowPc(Node), parameters |-> << >>, members |-> << >>])]
  /\ prev_tag' = "subprogram"
  /\ walk' = "visit"
  /\ UNCHANGED <<debug_info, members, m_compile_units>>

AddFunction ==
  /\ walk = "add" /\ Node.depth = 2 /\ Node.tag = "subprogram" /\ Converts(Node)
  /\ compile_unit' = [compile_unit EXCEPT !.functions =
       Append(@, [off |-> Here, low_pc |-> LowPc(Node), parameters |-> << >>, members |-> << >>])]
  /\ prev_tag' = "functions"
  /\ walk' = "visit"
  /\ UNCHANGED <<debug_info, members, m_compile_units>>

AddGlobalVariable ==
  /\ walk = "add" /\ Node.depth = 2 /\ Node.tag = "variable" /\ Converts(Node)
  /\ compile_unit' = [compile_unit EXCEPT !.global_variables = Append(@, [off |-> Here])]
  /\ prev_tag' = NoTag
  /\ walk' = "visit"
  /\ UNCHANGED <<debug_info, members, m_compile_units>>

(* Faulty variant: prev_tag is left alone. *)
AddDatatype_KeepTag ==
  /\ walk = "add" /\ Node.depth = 2 /\ Node.tag \notin {"subprogram", "variable"} /\ Converts(Node)
  /\ compile_unit' = [compile_unit EXCEPT !.datatypes =
       Append(@, [off |-> Here, tag |-> Node.tag, members |-> << >>])]
  /\ walk' = "visit"
  /\ UNCHANGED <<debug_info, members, prev_tag, m_compile_units>>

(* Any other DIE of depth 2 is recorded as a type. *)
AddDatatype ==
  /\ walk = "add" /\ Node.depth = 2 /\ Node.tag \notin {"subprogram", "variable"} /\ Converts(Node)
  /\ compile_unit' = [compile_unit EXCEPT !.datatypes =
       Append(@, [off |-> Here, tag |-> Node.tag, members |-> << >>])]
  /\ prev_tag' = "datatype"
  /\ walk' = "visit"
  /\ UNCHANGED <<debug_info, members, m_compile_units>>

AddMember ==
  /\ walk = "add" /\ Node.depth > 2 /\ Node.tag \in MemberTags /\ Converts(Node)
  /\ members' = Append(members, [off |-> Here, tag |-> Node.tag])
  /\ walk' = "visit"
  /\ UNCHANGED <<debug_info, compile_unit, prev_tag, m_compile_units>>

(* Blocks, inlined calls, nested types and the like. *)
PassOver ==
  /\ walk = "add" /\ Node.depth > 2 /\ Node.tag \notin MemberTags
  /\ walk' = "visit"
  /\ UNCHANGED <<debug_info, compile_unit, members, prev_tag, m_compile_units>>

(* Faulty variant: only the walk is guarded, not the push_back. *)
Throw_Keep ==
  /\ walk = "add" /\ ~Converts(Node)
  /\ walk' = "unit"
  /\ m_compile_units' = Append(m_compile_units, compile_unit)
  /\ UNCHANGED <<debug_info, compile_unit, members, prev_tag>>

(* An attribute cannot be converted: the rest of the unit is not visited   *)
(* and the unit is forgotten.                                              *)
Throw ==
  /\ walk = "add" /\ ~Converts(Node)
  /\ walk' = "unit"
  /\ UNCHANGED <<debug_info, compile_unit, members, prev_tag, m_compile_units>>

(* The walk of a unit returns.  Nothing hands over the last members.       *)
UnitDone ==
  /\ walk = "visit"
  /\ walk' = "unit"
  /\ m_compile_units' = Append(m_compile_units, compile_unit)
  /\ UNCHANGED <<debug_info, compile_unit, members, prev_tag>>

Init ==
  /\ debug_info = << >>
  /\ walk = "unit"
  /\ compile_unit = EmptyUnit(0)
  /\ members = << >>
  /\ prev_tag = NoTag
  /\ m_compile_units = << >>

Next == \/ NextUnit \/ Visit \/ SaveMember \/ AssignMembers \/ ClearMembers
        \/ AddFunction \/ AddGlobalVariable \/ AddDatatype \/ AddMember
        \/ PassOver \/ Throw \/ UnitDone

Spec == Init /\ [][Next]_vars

-----------------------------------------------------------------------------
(***************************************************************************)
(* Properties.                                                             *)
(***************************************************************************)

Member   == [off : Nat, tag : MemberTags]
Function == [off : Nat, low_pc : {"debuggee", "none", "dlsym"},
             parameters : Seq(Member), members : Seq(Member)]
Datatype == [off : Nat, tag : STRING, members : Seq(Member)]
Unit     == [root : Nat, functions : Seq(Function), datatypes : Seq(Datatype),
             global_variables : Seq([off : Nat])]

(* The type invariant.  The last two conjuncts keep SaveMember and         *)
(* AssignMembers from indexing an empty vector with size() - 1.            *)
TypeOK ==
  /\ debug_info \in Seq(Shapes)
  /\ walk \in {"unit", "visit", "save", "add"}
  /\ compile_unit \in Unit
  /\ members \in Seq(Member)
  /\ prev_tag \in {"functions", "datatype", NoTag}
  /\ m_compile_units \in Seq(Unit)
  /\ walk # "unit" => debug_info # << >>
  /\ prev_tag = "functions" => compile_unit.functions # << >>
  /\ prev_tag = "datatype" => compile_unit.datatypes # << >>

(* The parsed units and the one being filled. *)
Units == {m_compile_units[i] : i \in DOMAIN m_compile_units} \cup {compile_unit}

(* The DIE at t is the one of depth 2 above the DIE at k. *)
Owns(t, k) ==
  /\ t \in 1 .. (k - 1) /\ debug_info[t].depth = 2
  /\ \A j \in (t + 1) .. k : debug_info[j].depth > 2

(* Nothing is ever handed to a function or a type it does not lie under:   *)
(* the two shared variables members and prev_tag always mean the DIE of    *)
(* depth 2 visited last.                                                   *)
OwnMembers ==
  \A u \in Units :
    /\ \A i \in DOMAIN u.functions : LET f == u.functions[i] IN
         /\ \A j \in DOMAIN f.parameters : Owns(f.off, f.parameters[j].off)
         /\ \A j \in DOMAIN f.members : Owns(f.off, f.members[j].off)
    /\ \A i \in DOMAIN u.datatypes : LET d == u.datatypes[i] IN
         \A j \in DOMAIN d.members : Owns(d.off, d.members[j].off)

(* The n DIEs after the function at t are parameters of its own. *)
Leading(t, n) ==
  \A k \in 1 .. n : t + k <= Here /\ debug_info[t + k].depth = 3
                                  /\ debug_info[t + k].tag \in ParameterTags

(* Parameter k of f is the k-th of them: generate_function_payload takes   *)
(* its value from the k-th argument register.                              *)
InPlace(f) ==
  \A n \in 1 .. (Here - f.off) :
    Leading(f.off, n) =>
      n <= Len(f.parameters) /\ \A k \in 1 .. n : f.parameters[k].off = f.off + k

(* The walk has come back to depth 2 after f and handed over its members.  *)
Closed(f) ==
  \E s \in (f.off + 1) .. Here :
    /\ debug_info[s].depth = 2
    /\ \A j \in (f.off + 1) .. s : debug_info[j].depth >= 2
    /\ s = Here => walk # "save"

(* A function that another DIE of depth 2 follows has all its parameters,  *)
(* in their order and before any that belongs to an inlined call.          *)
ParametersInPlace ==
  \A u \in Units : \A i \in DOMAIN u.functions :
    Closed(u.functions[i]) => InPlace(u.functions[i])

(* "print all function calls with their arguments": once a unit is parsed, *)
(* every function in it has its parameters.                                *)
AllParameters ==
  \A i \in DOMAIN m_compile_units : LET u == m_compile_units[i] IN
    \A j \in DOMAIN u.functions : InPlace(u.functions[j])

(* The DIEs of the unit whose root is at r. *)
UnitDies(r) ==
  {k \in r .. Here : \A j \in (r + 1) .. k : debug_info[j].depth > 1}

OffsetsOf(table) == {table[i].off : i \in DOMAIN table}

Recorded(u) ==
  OffsetsOf(u.functions) \cup OffsetsOf(u.datatypes) \cup OffsetsOf(u.global_variables)

(* A value that cannot be converted costs its unit and no other: between   *)
(* units m_compile_units has those without such a value, and of each of    *)
(* them every DIE of depth 2.                                              *)
FaultsContained ==
  walk = "unit" =>
    /\ {m_compile_units[i].root : i \in DOMAIN m_compile_units} =
         {r \in 1 .. Here : /\ debug_info[r].depth = 1
                            /\ \A k \in UnitDies(r) : Converts(debug_info[k])}
    /\ \A i \in DOMAIN m_compile_units : LET u == m_compile_units[i] IN
         Recorded(u) = {k \in UnitDies(u.root) : debug_info[k].depth = 2}
=============================================================================
