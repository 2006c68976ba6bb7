-------------------------- MODULE CompileUnitProofs -------------------------
(***************************************************************************)
(* Proofs about CompileUnit, for every debug information: any shapes of    *)
(* DIEs, any nesting and any number of them.                               *)
(***************************************************************************)
EXTENDS CompileUnit, Integers, TLAPS, SequenceTheorems

-----------------------------------------------------------------------------
(***************************************************************************)
(* Types.                                                                  *)
(***************************************************************************)

LEMMA NoTagIs == NoTag # "functions" /\ NoTag # "datatype"
BY Zenon DEF NoTag

LEMMA ShapeType ==
  ASSUME NEW d \in Shapes
  PROVE  d.depth \in Nat \ {0} /\ d.tag \in STRING /\ d.code \in {"low_pc", "inline", "none"}
BY CompileUnitAssumption

LEMMA UnitType ==
  ASSUME NEW u \in Unit
  PROVE  /\ u.root \in Nat
         /\ u.functions \in Seq(Function)
         /\ u.datatypes \in Seq(Datatype)
         /\ u.global_variables \in Seq([off : Nat])
BY DEF Unit

LEMMA FunctionType ==
  ASSUME NEW f \in Function
  PROVE  /\ f.off \in Nat
         /\ f.parameters \in Seq(Member)
         /\ f.members \in Seq(Member)
BY DEF Function

LEMMA DatatypeType ==
  ASSUME NEW d \in Datatype
  PROVE  d.off \in Nat /\ d.members \in Seq(Member)
BY DEF Datatype

LEMMA MemberOfSeq ==
  ASSUME NEW s \in Seq(Member), NEW j \in 1 .. Len(s)
  PROVE  s[j] \in Member /\ s[j].off \in Nat /\ s[j].tag \in MemberTags
<1>1. s[j] \in Member
  BY ElementOfSeq
<1>2. QED
  BY <1>1 DEF Member

(* One more DIE is visited. *)
LEMMA Grows ==
  ASSUME debug_info \in Seq(Shapes), NEW d \in Shapes, debug_info' = Append(debug_info, d)
  PROVE  /\ debug_info' \in Seq(Shapes)
         /\ Here \in Nat /\ Here' = Here + 1
         /\ \A j \in 1 .. Here : debug_info'[j] = debug_info[j]
         /\ Node' = d
         /\ debug_info' # << >>
BY AppendProperties, LenProperties DEF Here, Node

(* The DIE being processed. *)
LEMMA NodeType ==
  ASSUME TypeOK, walk # "unit"
  PROVE  Here \in Nat \ {0} /\ Node \in Shapes
<1>1. debug_info \in Seq(Shapes) /\ debug_info # << >>
  BY DEF TypeOK
<1>2. QED
  BY <1>1, EmptySeq, LenProperties DEF Here, Node

-----------------------------------------------------------------------------
(***************************************************************************)
(* What the steps that change compile_unit do to it.                       *)
(***************************************************************************)

(* One field of a unit is replaced. *)
LEMMA WithFunctions ==
  ASSUME NEW u \in Unit, NEW fs \in Seq(Function)
  PROVE  LET v == [u EXCEPT !.functions = fs] IN
           /\ v \in Unit
           /\ v.root = u.root /\ v.functions = fs
           /\ v.datatypes = u.datatypes /\ v.global_variables = u.global_variables
<1> DEFINE v == [u EXCEPT !.functions = fs]
<1>1. u = [root |-> u.root, functions |-> u.functions, datatypes |-> u.datatypes,
           global_variables |-> u.global_variables]
  BY DEF Unit
<1>2. v = [root |-> u.root, functions |-> fs, datatypes |-> u.datatypes,
           global_variables |-> u.global_variables]
  BY ONLY <1>1
<1>3. QED
  BY <1>2, UnitType DEF Unit

LEMMA WithDatatypes ==
  ASSUME NEW u \in Unit, NEW ds \in Seq(Datatype)
  PROVE  LET v == [u EXCEPT !.datatypes = ds] IN
           /\ v \in Unit
           /\ v.root = u.root /\ v.functions = u.functions
           /\ v.datatypes = ds /\ v.global_variables = u.global_variables
<1> DEFINE v == [u EXCEPT !.datatypes = ds]
<1>1. u = [root |-> u.root, functions |-> u.functions, datatypes |-> u.datatypes,
           global_variables |-> u.global_variables]
  BY DEF Unit
<1>2. v = [root |-> u.root, functions |-> u.functions, datatypes |-> ds,
           global_variables |-> u.global_variables]
  BY ONLY <1>1
<1>3. QED
  BY <1>2, UnitType DEF Unit

LEMMA WithVariables ==
  ASSUME NEW u \in Unit, NEW gs \in Seq([off : Nat])
  PROVE  LET v == [u EXCEPT !.global_variables = gs] IN
           /\ v \in Unit
           /\ v.root = u.root /\ v.functions = u.functions
           /\ v.datatypes = u.datatypes /\ v.global_variables = gs
<1> DEFINE v == [u EXCEPT !.global_variables = gs]
<1>1. u = [root |-> u.root, functions |-> u.functions, datatypes |-> u.datatypes,
           global_variables |-> u.global_variables]
  BY DEF Unit
<1>2. v = [root |-> u.root, functions |-> u.functions, datatypes |-> u.datatypes,
           global_variables |-> gs]
  BY ONLY <1>1
<1>3. QED
  BY <1>2, UnitType DEF Unit

(* What a function keeps of a collected DIE. *)
LEMMA WithMemberIs ==
  ASSUME NEW f \in Function, NEW m \in Member
  PROVE  /\ WithMember(f, m) \in Function
         /\ WithMember(f, m).off = f.off
         /\ m.tag \in ParameterTags =>
              /\ WithMember(f, m).parameters = Append(f.parameters, m)
              /\ WithMember(f, m).members = f.members
         /\ m.tag \notin ParameterTags =>
              /\ WithMember(f, m).parameters = f.parameters
              /\ WithMember(f, m).members \in {f.members, Append(f.members, m)}
BY AppendProperties DEF WithMember, Function

LEMMA SaveMemberEffect ==
  ASSUME TypeOK, SaveMember
  PROVE  LET fs == compile_unit.functions
             n  == Len(fs)
         IN /\ n \in Nat \ {0} /\ fs[n] \in Function /\ Head(members) \in Member
            /\ compile_unit' \in Unit
            /\ compile_unit'.root = compile_unit.root
            /\ compile_unit'.datatypes = compile_unit.datatypes
            /\ compile_unit'.global_variables = compile_unit.global_variables
            /\ Len(compile_unit'.functions) = n
            /\ \A i \in 1 .. n : compile_unit'.functions[i] =
                                   IF i = n THEN WithMember(fs[n], Head(members)) ELSE fs[i]
            /\ members' \in Seq(Member) /\ Len(members') = Len(members) - 1
            /\ \A i \in 1 .. Len(members') : members'[i] = members[i + 1]
<1> DEFINE fs == compile_unit.functions
           n == Len(fs)
           g == WithMember(fs[n], Head(members))
           gs == [fs EXCEPT ![n] = g]
<1>1. /\ compile_unit \in Unit /\ fs \in Seq(Function) /\ fs # << >>
      /\ members \in Seq(Member) /\ members # << >>
  BY UnitType DEF TypeOK, SaveMember
<1>2. n \in Nat \ {0} /\ fs[n] \in Function
  BY <1>1, EmptySeq, ElementOfSeq
<1>3. /\ Head(members) \in Member
      /\ members' \in Seq(Member) /\ Len(members') = Len(members) - 1
      /\ \A i \in 1 .. Len(members') : members'[i] = members[i + 1]
  BY <1>1, HeadTailProperties DEF SaveMember
<1>4. g \in Function
  BY <1>2, <1>3, WithMemberIs
<1>5. gs \in Seq(Function) /\ Len(gs) = n /\ \A i \in 1 .. n : gs[i] = IF i = n THEN g ELSE fs[i]
  BY <1>1, <1>2, <1>4, ExceptSeq
<1>6. compile_unit' = [compile_unit EXCEPT !.functions = gs]
  BY DEF SaveMember
<1> HIDE DEF gs
<1>7. QED
  BY <1>1, <1>2, <1>3, <1>5, <1>6, WithFunctions

LEMMA AssignMembersEffect ==
  ASSUME TypeOK, AssignMembers
  PROVE  LET ds == compile_unit.datatypes
             n  == Len(ds)
         IN /\ n \in Nat \ {0} /\ ds[n] \in Datatype
            /\ compile_unit' \in Unit
            /\ compile_unit'.root = compile_unit.root
            /\ compile_unit'.functions = compile_unit.functions
            /\ compile_unit'.global_variables = compile_unit.global_variables
            /\ Len(compile_unit'.datatypes) = n
            /\ \A i \in 1 .. n :
                 /\ i # n => compile_unit'.datatypes[i] = ds[i]
                 /\ compile_unit'.datatypes[i].off = ds[i].off
            /\ compile_unit'.datatypes[n].members = members
<1> DEFINE ds == compile_unit.datatypes
           n == Len(ds)
           e == [ds[n] EXCEPT !.members = members]
           es == [ds EXCEPT ![n] = e]
<1>1. /\ compile_unit \in Unit /\ ds \in Seq(Datatype) /\ ds # << >>
      /\ members \in Seq(Member)
  BY UnitType DEF TypeOK, AssignMembers
<1>2. n \in Nat \ {0} /\ ds[n] \in Datatype
  BY <1>1, EmptySeq, ElementOfSeq
<1>3. e \in Datatype /\ e.off = ds[n].off /\ e.members = members
  BY <1>1, <1>2 DEF Datatype
<1>4. es \in Seq(Datatype) /\ Len(es) = n /\ \A i \in 1 .. n : es[i] = IF i = n THEN e ELSE ds[i]
  BY <1>1, <1>2, <1>3, ExceptSeq
<1>5. compile_unit' = [compile_unit EXCEPT !.datatypes = es]
  BY DEF AssignMembers
<1> HIDE DEF es, e
<1>6. QED
  BY <1>1, <1>2, <1>3, <1>4, <1>5, WithDatatypes

(* An entry is added to one of the three tables of the unit. *)
LEMMA AddFunctionEffect ==
  ASSUME TypeOK, AddFunction
  PROVE  LET n == Len(compile_unit.functions) IN
            /\ n \in Nat
            /\ compile_unit' \in Unit
            /\ compile_unit'.root = compile_unit.root
            /\ compile_unit'.datatypes = compile_unit.datatypes
            /\ compile_unit'.global_variables = compile_unit.global_variables
            /\ Len(compile_unit'.functions) = n + 1
            /\ \A i \in 1 .. n : compile_unit'.functions[i] = compile_unit.functions[i]
            /\ compile_unit'.functions[n + 1].off = Here
            /\ compile_unit'.functions[n + 1].parameters = << >>
            /\ compile_unit'.functions[n + 1].members = << >>
<1> DEFINE f == [off |-> Here, low_pc |-> LowPc(Node), parameters |-> << >>, members |-> << >>]
           fs == Append(compile_unit.functions, f)
<1>1. compile_unit \in Unit /\ compile_unit.functions \in Seq(Function)
  BY UnitType DEF TypeOK
<1>2. f \in Function
  BY NodeType, EmptySeq DEF AddFunction, Function, LowPc
<1>3. fs \in Seq(Function) /\ compile_unit' = [compile_unit EXCEPT !.functions = fs]
  BY <1>1, <1>2, AppendProperties DEF AddFunction
<1> HIDE DEF fs
<1>4. /\ compile_unit' \in Unit
      /\ compile_unit'.root = compile_unit.root
      /\ compile_unit'.functions = fs
      /\ compile_unit'.datatypes = compile_unit.datatypes
      /\ compile_unit'.global_variables = compile_unit.global_variables
  BY <1>1, <1>3, WithFunctions
<1>5. QED
  BY <1>1, <1>2, <1>4, AppendProperties, LenProperties DEF fs

LEMMA AddDatatypeEffect ==
  ASSUME TypeOK, AddDatatype
  PROVE  LET n == Len(compile_unit.datatypes) IN
            /\ n \in Nat
            /\ compile_unit' \in Unit
            /\ compile_unit'.root = compile_unit.root
            /\ compile_unit'.functions = compile_unit.functions
            /\ compile_unit'.global_variables = compile_unit.global_variables
            /\ Len(compile_unit'.datatypes) = n + 1
            /\ \A i \in 1 .. n : compile_unit'.datatypes[i] = compile_unit.datatypes[i]
            /\ compile_unit'.datatypes[n + 1].off = Here
            /\ compile_unit'.datatypes[n + 1].members = << >>
<1> DEFINE d == [off |-> Here, tag |-> Node.tag, members |-> << >>]
           ds == Append(compile_unit.datatypes, d)
<1>1. compile_unit \in Unit /\ compile_unit.datatypes \in Seq(Datatype)
  BY UnitType DEF TypeOK
<1>2. d \in Datatype
  BY NodeType, ShapeType, EmptySeq DEF AddDatatype, Datatype
<1>3. ds \in Seq(Datatype) /\ compile_unit' = [compile_unit EXCEPT !.datatypes = ds]
  BY <1>1, <1>2, AppendProperties DEF AddDatatype
<1> HIDE DEF ds
<1>4. /\ compile_unit' \in Unit
      /\ compile_unit'.root = compile_unit.root
      /\ compile_unit'.functions = compile_unit.functions
      /\ compile_unit'.datatypes = ds
      /\ compile_unit'.global_variables = compile_unit.global_variables
  BY <1>1, <1>3, WithDatatypes
<1>5. QED
  BY <1>1, <1>2, <1>4, AppendProperties, LenProperties DEF ds

LEMMA AddGlobalVariableEffect ==
  ASSUME TypeOK, AddGlobalVariable
  PROVE  LET n == Len(compile_unit.global_variables) IN
            /\ n \in Nat
            /\ compile_unit' \in Unit
            /\ compile_unit'.root = compile_unit.root
            /\ compile_unit'.functions = compile_unit.functions
            /\ compile_unit'.datatypes = compile_unit.datatypes
            /\ Len(compile_unit'.global_variables) = n + 1
            /\ \A i \in 1 .. n :
                 compile_unit'.global_variables[i] = compile_unit.global_variables[i]
            /\ compile_unit'.global_variables[n + 1].off = Here
<1> DEFINE g == [off |-> Here]
           gs == Append(compile_unit.global_variables, g)
<1>1. compile_unit \in Unit /\ compile_unit.global_variables \in Seq([off : Nat])
  BY UnitType DEF TypeOK
<1>2. g \in [off : Nat]
  BY NodeType DEF AddGlobalVariable
<1>3. /\ gs \in Seq([off : Nat])
      /\ compile_unit' = [compile_unit EXCEPT !.global_variables = gs]
  BY <1>1, <1>2, AppendProperties DEF AddGlobalVariable
<1> HIDE DEF gs
<1>4. /\ compile_unit' \in Unit
      /\ compile_unit'.root = compile_unit.root
      /\ compile_unit'.functions = compile_unit.functions
      /\ compile_unit'.datatypes = compile_unit.datatypes
      /\ compile_unit'.global_variables = gs
  BY <1>1, <1>3, WithVariables
<1>5. QED
  BY <1>1, <1>2, <1>4, AppendProperties, LenProperties DEF gs

LEMMA EmptyUnitIs ==
  ASSUME NEW r \in Nat
  PROVE  LET u == EmptyUnit(r) IN
           /\ u \in Unit /\ u.root = r
           /\ u.functions = << >> /\ u.datatypes = << >> /\ u.global_variables = << >>
<1>1. /\ << >> \in Seq(Function) /\ << >> \in Seq(Datatype)
      /\ << >> \in Seq([off : Nat])
  BY EmptySeq
<1>2. QED
  BY <1>1 DEF EmptyUnit, Unit

LEMMA NextUnitEffect ==
  ASSUME TypeOK, NextUnit
  PROVE  /\ compile_unit' \in Unit
         /\ compile_unit'.root = Here + 1
         /\ compile_unit'.functions = << >> /\ compile_unit'.datatypes = << >>
         /\ compile_unit'.global_variables = << >>
<1>1. Here \in Nat
  BY LenProperties DEF TypeOK, Here
<1>2. Here + 1 \in Nat
  BY <1>1
<1>3. compile_unit' = EmptyUnit(Here + 1)
  BY DEF NextUnit
<1>4. QED
  BY <1>2, <1>3, EmptyUnitIs

LEMMA AddMemberEffect ==
  ASSUME TypeOK, AddMember
  PROVE  /\ members' \in Seq(Member)
         /\ Len(members) \in Nat /\ Len(members') = Len(members) + 1
         /\ \A i \in 1 .. Len(members) : members'[i] = members[i]
         /\ members'[Len(members) + 1] = [off |-> Here, tag |-> Node.tag]
<1>1. [off |-> Here, tag |-> Node.tag] \in Member
  BY NodeType DEF AddMember, Member
<1>2. members \in Seq(Member) /\ members' = Append(members, [off |-> Here, tag |-> Node.tag])
  BY DEF AddMember, TypeOK
<1>3. QED
  BY <1>1, <1>2, AppendProperties, LenProperties

LEMMA StepTypeOK == TypeOK /\ [Next]_vars => TypeOK'
<1> SUFFICES ASSUME TypeOK, [Next]_vars
             PROVE  TypeOK'
  OBVIOUS
<1>1. CASE NextUnit
  <2>1. debug_info' \in Seq(Shapes) /\ debug_info' # << >>
    BY <1>1, Grows DEF NextUnit, TypeOK
  <2>2. QED
    BY <1>1, <2>1, NextUnitEffect, EmptySeq, NoTagIs DEF NextUnit, TypeOK
<1>2. CASE Visit
  <2>1. debug_info' \in Seq(Shapes) /\ debug_info' # << >>
    BY <1>2, Grows DEF Visit, TypeOK
  <2>2. QED
    BY <1>2, <2>1 DEF Visit, TypeOK
<1>3. CASE SaveMember
  <2>1. compile_unit'.functions # << >> /\ compile_unit' \in Unit /\ members' \in Seq(Member)
    BY <1>3, SaveMemberEffect, EmptySeq
  <2>2. QED
    BY <1>3, <2>1 DEF SaveMember, TypeOK
<1>4. CASE AssignMembers
  <2>1. compile_unit'.datatypes # << >> /\ compile_unit' \in Unit
    BY <1>4, AssignMembersEffect, EmptySeq
  <2>2. QED
    BY <1>4, <2>1, EmptySeq DEF AssignMembers, TypeOK
<1>5. CASE ClearMembers
  BY <1>5, EmptySeq, NoTagIs DEF ClearMembers, TypeOK
<1>6. CASE AddFunction
  <2>1. compile_unit'.functions # << >> /\ compile_unit' \in Unit
    <3>1. /\ Len(compile_unit.functions) \in Nat
          /\ Len(compile_unit'.functions) = Len(compile_unit.functions) + 1
          /\ compile_unit' \in Unit
      BY <1>6, AddFunctionEffect
    <3>2. QED
      BY <3>1, EmptySeq
  <2>2. QED
    BY <1>6, <2>1 DEF AddFunction, TypeOK
<1>7. CASE AddGlobalVariable
  <2>1. compile_unit' \in Unit
    BY <1>7, AddGlobalVariableEffect
  <2>2. QED
    BY <1>7, <2>1, NoTagIs DEF AddGlobalVariable, TypeOK
<1>8. CASE AddDatatype
  <2>1. compile_unit'.datatypes # << >> /\ compile_unit' \in Unit
    <3>1. /\ Len(compile_unit.datatypes) \in Nat
          /\ Len(compile_unit'.datatypes) = Len(compile_unit.datatypes) + 1
          /\ compile_unit' \in Unit
      BY <1>8, AddDatatypeEffect
    <3>2. QED
      BY <3>1, EmptySeq
  <2>2. QED
    BY <1>8, <2>1 DEF AddDatatype, TypeOK
<1>9. CASE AddMember
  <2>1. members' \in Seq(Member)
    BY <1>9, AddMemberEffect
  <2>2. QED
    BY <1>9, <2>1 DEF AddMember, TypeOK
<1>10. CASE PassOver
  BY <1>10 DEF PassOver, TypeOK
<1>11. CASE Throw
  BY <1>11 DEF Throw, TypeOK
<1>12. CASE UnitDone
  <2>1. m_compile_units' \in Seq(Unit)
    BY <1>12, AppendProperties DEF UnitDone, TypeOK
  <2>2. QED
    BY <1>12, <2>1 DEF UnitDone, TypeOK
<1>13. CASE UNCHANGED vars
  BY <1>13 DEF vars, TypeOK
<1>14. QED
  BY <1>1, <1>2, <1>3, <1>4, <1>5, <1>6, <1>7, <1>8, <1>9, <1>10, <1>11, <1>12, <1>13 DEF Next

(* process_cu_tree: every table keeps its type, and no vector is indexed   *)
(* with size() - 1 when it is empty.                                       *)
THEOREM WalkTypeCorrect == Spec => []TypeOK
<1>1. Init => TypeOK
  BY EmptySeq, EmptyUnitIs, NoTagIs DEF Init, TypeOK
<1>2. QED
  BY <1>1, StepTypeOK, PTL DEF Spec

-----------------------------------------------------------------------------
(***************************************************************************)
(* Members belong to what they are handed to.                              *)
(***************************************************************************)

(* The DIEs dealt with: those visited, but for one in progress. *)
Past == IF walk = "visit" THEN Here ELSE Here - 1

(* The DIE prev_tag stands for. *)
LastOff ==
  IF prev_tag = "functions" THEN compile_unit.functions[Len(compile_unit.functions)].off
  ELSE compile_unit.datatypes[Len(compile_unit.datatypes)].off

(* prev_tag stands for the DIE of depth 2 dealt with last. *)
LastInv ==
  walk # "unit" /\ prev_tag # NoTag =>
    /\ LastOff \in 1 .. Past
    /\ debug_info[LastOff].depth = 2
    /\ \A j \in (LastOff + 1) .. Past : debug_info[j].depth > 2

(* Where members come from, and where there are none. *)
MembersInv ==
  walk # "unit" =>
    /\ \A i \in 1 .. Len(members) : /\ members[i].off \in 1 .. Past
                                    /\ prev_tag # NoTag => members[i].off > LastOff
    /\ walk = "add" /\ Node.depth = 2 => members = << >>
    /\ walk # "visit" => Node.depth > 1
    /\ walk = "save" => Node.depth = 2 \/ Node.tag = "inlined_subroutine"

(* Owns, of DIEs already visited. *)
OwnsVisited(t, k) == Owns(t, k) /\ k <= Here

FunctionOwn(f) ==
  /\ \A j \in 1 .. Len(f.parameters) : OwnsVisited(f.off, f.parameters[j].off)
  /\ \A j \in 1 .. Len(f.members) : OwnsVisited(f.off, f.members[j].off)

DatatypeOwn(d) == \A j \in 1 .. Len(d.members) : OwnsVisited(d.off, d.members[j].off)

UnitOwn(u) ==
  /\ \A i \in 1 .. Len(u.functions) : FunctionOwn(u.functions[i])
  /\ \A i \in 1 .. Len(u.datatypes) : DatatypeOwn(u.datatypes[i])

OwnInv ==
  /\ LastInv /\ MembersInv
  /\ UnitOwn(compile_unit)
  /\ \A i \in 1 .. Len(m_compile_units) : UnitOwn(m_compile_units[i])

(* No step takes back a DIE. *)
Extended ==
  /\ Here \in Nat /\ Here' \in Nat /\ Here <= Here'
  /\ \A j \in 1 .. Here : debug_info'[j] = debug_info[j]

LEMMA StepExtends == TypeOK /\ [Next]_vars => Extended
<1> SUFFICES ASSUME TypeOK, [Next]_vars
             PROVE  Extended
  OBVIOUS
<1>1. debug_info \in Seq(Shapes) /\ Here \in Nat
  BY LenProperties DEF TypeOK, Here
<1>2. ASSUME NEW d \in Shapes, debug_info' = Append(debug_info, d)
      PROVE  Extended
  <2>1. Here' = Here + 1 /\ \A j \in 1 .. Here : debug_info'[j] = debug_info[j]
    BY <1>1, <1>2, Grows
  <2>2. QED
    BY <1>1, <2>1 DEF Extended
<1>3. CASE NextUnit \/ Visit
  BY <1>2, <1>3 DEF NextUnit, Visit
<1>4. CASE UNCHANGED debug_info
  BY <1>1, <1>4 DEF Extended, Here
<1>5. QED
  BY <1>3, <1>4 DEF Next, vars, SaveMember, AssignMembers, ClearMembers, AddFunction,
     AddGlobalVariable, AddDatatype, AddMember, PassOver, Throw, UnitDone

LEMMA OwnsStays ==
  ASSUME Extended, NEW t \in Nat, NEW k \in Nat, OwnsVisited(t, k)
  PROVE  OwnsVisited(t, k)'
BY DEF Extended, OwnsVisited, Owns

LEMMA FunctionOwnStays ==
  ASSUME Extended, NEW f \in Function, FunctionOwn(f)
  PROVE  FunctionOwn(f)'
BY FunctionType, MemberOfSeq, OwnsStays DEF FunctionOwn

LEMMA DatatypeOwnStays ==
  ASSUME Extended, NEW d \in Datatype, DatatypeOwn(d)
  PROVE  DatatypeOwn(d)'
BY DatatypeType, MemberOfSeq, OwnsStays DEF DatatypeOwn

LEMMA UnitOwnStays ==
  ASSUME Extended, NEW u \in Unit, UnitOwn(u)
  PROVE  UnitOwn(u)'
BY UnitType, ElementOfSeq, FunctionOwnStays, DatatypeOwnStays DEF UnitOwn

(* What is collected lies below the DIE prev_tag stands for. *)
LEMMA MembersOwned ==
  ASSUME TypeOK, LastInv, MembersInv, walk # "unit", prev_tag # NoTag,
         NEW i \in 1 .. Len(members)
  PROVE  OwnsVisited(LastOff, members[i].off)
<1>1. Here \in Nat \ {0} /\ Past \in Nat /\ Past <= Here
  <2>1. Here \in Nat \ {0}
    BY NodeType
  <2>2. Past = Here \/ Past = Here - 1
    BY DEF Past
  <2>3. QED
    BY <2>1, <2>2
<1>2. /\ LastOff \in 1 .. Past /\ debug_info[LastOff].depth = 2
      /\ \A j \in (LastOff + 1) .. Past : debug_info[j].depth > 2
  BY DEF LastInv
<1>3. members[i].off \in 1 .. Past /\ members[i].off > LastOff
  BY DEF MembersInv
<1> DEFINE k == members[i].off
           t == LastOff
<1>4. /\ k \in Nat /\ k <= Here /\ t \in 1 .. (k - 1)
      /\ \A j \in (t + 1) .. k : j \in (t + 1) .. Past
  <2>1. k \in 1 .. Past /\ t \in 1 .. Past /\ k > t
    BY <1>2, <1>3
  <2> HIDE DEF k, t
  <2>2. QED
    BY <1>1, <2>1
<1>5. debug_info[t].depth = 2 /\ \A j \in (t + 1) .. k : debug_info[j].depth > 2
  BY <1>2, <1>4
<1>6. QED
  BY <1>4, <1>5 DEF OwnsVisited, Owns

(* The units already parsed. *)
LEMMA ParsedUnitsOwn ==
  ASSUME TypeOK, OwnInv, [Next]_vars
  PROVE  (\A i \in 1 .. Len(m_compile_units) : UnitOwn(m_compile_units[i]))'
<1>1. Extended
  BY StepExtends
<1>2. /\ m_compile_units \in Seq(Unit) /\ compile_unit \in Unit
      /\ UnitOwn(compile_unit)
      /\ \A i \in 1 .. Len(m_compile_units) :
           m_compile_units[i] \in Unit /\ UnitOwn(m_compile_units[i])
  BY ElementOfSeq DEF TypeOK, OwnInv
<1>3. CASE UnitDone
  <2>1. /\ Len(m_compile_units) \in Nat
        /\ Len(m_compile_units') = Len(m_compile_units) + 1
        /\ \A i \in 1 .. Len(m_compile_units) : m_compile_units'[i] = m_compile_units[i]
        /\ m_compile_units'[Len(m_compile_units) + 1] = compile_unit
    BY <1>2, <1>3, AppendProperties, LenProperties DEF UnitDone
  <2>2. \A i \in 1 .. Len(m_compile_units') :
          m_compile_units'[i] \in Unit /\ UnitOwn(m_compile_units'[i])
    BY <1>2, <2>1
  <2>3. QED
    BY <1>1, <2>2, UnitOwnStays
<1>4. CASE UNCHANGED m_compile_units
  BY <1>1, <1>2, <1>4, UnitOwnStays
<1>5. QED
  BY <1>3, <1>4 DEF Next, vars, NextUnit, Visit, SaveMember, AssignMembers, ClearMembers,
     AddFunction, AddGlobalVariable, AddDatatype, AddMember, PassOver, Throw

(* The unit being filled. *)
LEMMA FilledUnitOwn ==
  ASSUME TypeOK, OwnInv, [Next]_vars
  PROVE  UnitOwn(compile_unit)'
<1> DEFINE fs == compile_unit.functions
           ds == compile_unit.datatypes
<1>1. Extended /\ TypeOK'
  BY StepExtends, StepTypeOK
<1>2. /\ compile_unit \in Unit /\ fs \in Seq(Function) /\ ds \in Seq(Datatype)
      /\ compile_unit'.functions \in Seq(Function) /\ compile_unit'.datatypes \in Seq(Datatype)
  BY <1>1, UnitType DEF TypeOK
<1>3. /\ \A i \in 1 .. Len(fs) : fs[i] \in Function /\ FunctionOwn(fs[i])
      /\ \A i \in 1 .. Len(ds) : ds[i] \in Datatype /\ DatatypeOwn(ds[i])
  BY <1>2, ElementOfSeq DEF OwnInv, UnitOwn
<1>4. SUFFICES /\ \A i \in 1 .. Len(compile_unit'.functions) :
                    FunctionOwn(compile_unit'.functions[i])
               /\ \A i \in 1 .. Len(compile_unit'.datatypes) :
                    DatatypeOwn(compile_unit'.datatypes[i])
  BY <1>1, <1>2, ElementOfSeq, FunctionOwnStays, DatatypeOwnStays DEF UnitOwn
<1>5. CASE NextUnit
  <2>1. compile_unit'.functions = << >> /\ compile_unit'.datatypes = << >>
    BY <1>5, NextUnitEffect
  <2>2. QED
    BY <2>1, EmptySeq
<1>6. CASE SaveMember
  <2> DEFINE n == Len(fs)
             g == WithMember(fs[n], Head(members))
  <2>1. /\ n \in Nat \ {0} /\ fs[n] \in Function /\ Head(members) \in Member
        /\ compile_unit'.datatypes = ds
        /\ Len(compile_unit'.functions) = n
        /\ \A i \in 1 .. n : compile_unit'.functions[i] = IF i = n THEN g ELSE fs[i]
    BY <1>6, SaveMemberEffect
  <2>2. OwnsVisited(fs[n].off, Head(members).off)
    <3>1. walk # "unit" /\ prev_tag # NoTag /\ LastOff = fs[n].off
      BY <1>6, NoTagIs DEF SaveMember, LastOff
    <3>2. 1 \in 1 .. Len(members) /\ Head(members) = members[1]
      BY <1>6, EmptySeq DEF SaveMember, TypeOK
    <3>3. QED
      BY <3>1, <3>2, MembersOwned DEF OwnInv
  <2>3. g.off = fs[n].off /\ FunctionOwn(fs[n])
    BY <1>3, <2>1, WithMemberIs
  <2>4. FunctionOwn(g)
    <3>1. ASSUME NEW s \in Seq(Member), \A j \in 1 .. Len(s) : OwnsVisited(fs[n].off, s[j].off),
                 NEW t \in {s, Append(s, Head(members))}, NEW j \in 1 .. Len(t)
          PROVE  OwnsVisited(fs[n].off, t[j].off)
      BY <2>1, <2>2, <3>1, AppendProperties, LenProperties
    <3>2. /\ g.parameters \in {fs[n].parameters, Append(fs[n].parameters, Head(members))}
          /\ g.members \in {fs[n].members, Append(fs[n].members, Head(members))}
      BY <2>1, WithMemberIs
    <3>3. fs[n].parameters \in Seq(Member) /\ fs[n].members \in Seq(Member)
      BY <2>1, FunctionType
    <3> HIDE DEF g
    <3>4. QED
      BY <2>3, <3>1, <3>2, <3>3 DEF FunctionOwn
  <2> HIDE DEF g
  <2>5. QED
    BY <1>3, <2>1, <2>4
<1>7. CASE AssignMembers
  <2> DEFINE n == Len(ds)
  <2>1. /\ n \in Nat \ {0} /\ ds[n] \in Datatype
        /\ compile_unit'.functions = fs
        /\ Len(compile_unit'.datatypes) = n
        /\ \A i \in 1 .. n :
             /\ i # n => compile_unit'.datatypes[i] = ds[i]
             /\ compile_unit'.datatypes[i].off = ds[i].off
        /\ compile_unit'.datatypes[n].members = members
    BY <1>7, AssignMembersEffect
  <2>2. \A j \in 1 .. Len(members) : OwnsVisited(ds[n].off, members[j].off)
    <3>1. walk # "unit" /\ prev_tag # NoTag /\ LastOff = ds[n].off
      BY <1>7, NoTagIs DEF AssignMembers, LastOff
    <3>2. QED
      BY <3>1, MembersOwned DEF OwnInv
  <2>3. DatatypeOwn(compile_unit'.datatypes[n])
    BY <2>1, <2>2 DEF DatatypeOwn
  <2>4. QED
    BY <1>3, <2>1, <2>3
<1>8. CASE AddFunction
  <2> DEFINE n == Len(fs)
  <2>1. /\ n \in Nat
        /\ compile_unit'.datatypes = ds
        /\ Len(compile_unit'.functions) = n + 1
        /\ \A i \in 1 .. n : compile_unit'.functions[i] = fs[i]
        /\ compile_unit'.functions[n + 1].parameters = << >>
        /\ compile_unit'.functions[n + 1].members = << >>
    BY <1>8, AddFunctionEffect
  <2>2. FunctionOwn(compile_unit'.functions[n + 1])
    BY <2>1, EmptySeq DEF FunctionOwn
  <2>3. QED
    BY <1>3, <2>1, <2>2
<1>9. CASE AddDatatype
  <2> DEFINE n == Len(ds)
  <2>1. /\ n \in Nat
        /\ compile_unit'.functions = fs
        /\ Len(compile_unit'.datatypes) = n + 1
        /\ \A i \in 1 .. n : compile_unit'.datatypes[i] = ds[i]
        /\ compile_unit'.datatypes[n + 1].members = << >>
    BY <1>9, AddDatatypeEffect
  <2>2. DatatypeOwn(compile_unit'.datatypes[n + 1])
    BY <2>1, EmptySeq DEF DatatypeOwn
  <2>3. QED
    BY <1>3, <2>1, <2>2
<1>10. CASE AddGlobalVariable
  <2>1. compile_unit'.functions = fs /\ compile_unit'.datatypes = ds
    BY <1>10, AddGlobalVariableEffect
  <2>2. QED
    BY <1>3, <2>1
<1>11. CASE UNCHANGED compile_unit
  BY <1>2, <1>3, <1>11
<1>12. QED
  BY <1>5, <1>6, <1>7, <1>8, <1>9, <1>10, <1>11 DEF Next, vars, Visit, ClearMembers, AddMember,
     PassOver, Throw, UnitDone

(* What prev_tag and members stand for, step by step. *)
LEMMA WalkOwn ==
  ASSUME TypeOK, OwnInv, [Next]_vars
  PROVE  LastInv' /\ MembersInv'
<1> DEFINE fs == compile_unit.functions
           ds == compile_unit.datatypes
<1>1. TypeOK' /\ LastInv /\ MembersInv
  BY StepTypeOK DEF OwnInv
<1>2. /\ Here \in Nat /\ members \in Seq(Member) /\ Len(members) \in Nat
      /\ compile_unit \in Unit /\ debug_info \in Seq(Shapes)
  BY LenProperties DEF TypeOK, Here
<1>3. CASE NextUnit
  <2>1. members' = << >> /\ prev_tag' = NoTag /\ walk' \in {"visit", "unit"}
    BY <1>3 DEF NextUnit
  <2>2. QED
    BY <2>1, EmptySeq DEF LastInv, MembersInv
<1>4. CASE Visit
  <2>1. PICK d \in Shapes : /\ d.depth > 1
                            /\ debug_info' = Append(debug_info, d)
                            /\ walk' = IF Closes(d) THEN "save" ELSE "add"
    BY <1>4 DEF Visit
  <2>2. /\ Here' = Here + 1 /\ Node' = d
        /\ \A j \in 1 .. Here : debug_info'[j] = debug_info[j]
    BY <1>2, <2>1, Grows
  <2>3. walk = "visit" /\ walk' \in {"save", "add"} /\ UNCHANGED <<compile_unit, members, prev_tag>>
    BY <1>4, <2>1 DEF Visit
  <2>4. Past' = Past /\ Past = Here /\ LastOff' = LastOff
    BY <1>2, <2>2, <2>3 DEF Past, LastOff
  <2>5. LastInv'
    BY <1>1, <1>2, <2>2, <2>3, <2>4 DEF LastInv
  <2>6. walk' = "save" => d.depth = 2 \/ d.tag = "inlined_subroutine"
    BY <2>1, <2>3 DEF Closes
  <2>7. walk' = "add" /\ d.depth = 2 => members = << >>
    BY <2>1, <2>3 DEF Closes
  <2>8. QED
    BY <1>1, <2>1, <2>2, <2>3, <2>4, <2>5, <2>6, <2>7 DEF MembersInv
<1>5. CASE SaveMember
  <2>1. /\ Len(members') = Len(members) - 1
        /\ \A i \in 1 .. Len(members') : members'[i] = members[i + 1]
        /\ Len(compile_unit'.functions) = Len(fs)
        /\ Len(fs) \in Nat \ {0} /\ fs[Len(fs)] \in Function /\ Head(members) \in Member
        /\ compile_unit'.functions[Len(fs)] = WithMember(fs[Len(fs)], Head(members))
    BY <1>5, SaveMemberEffect
  <2>2. /\ walk = "save" /\ prev_tag = "functions"
        /\ UNCHANGED <<debug_info, walk, prev_tag, Here, Node, Past>>
    BY <1>5 DEF SaveMember, Here, Node, Past
  <2>3. LastOff' = LastOff
    BY <2>1, <2>2, WithMemberIs DEF LastOff
  <2>4. LastInv'
    BY <1>1, <2>2, <2>3 DEF LastInv
  <2>5. \A i \in 1 .. Len(members') : i + 1 \in 1 .. Len(members)
    BY <1>2, <2>1
  <2>6. \A i \in 1 .. Len(members') :
          members'[i].off \in 1 .. Past /\ (prev_tag # NoTag => members'[i].off > LastOff)
    BY <1>1, <2>1, <2>2, <2>5 DEF MembersInv
  <2>7. MembersInv'
    BY <1>1, <2>2, <2>3, <2>6 DEF MembersInv
  <2>8. QED
    BY <2>4, <2>7
<1>6. CASE AssignMembers
  <2>1. /\ Len(compile_unit'.datatypes) = Len(ds) /\ Len(ds) \in Nat \ {0}
        /\ compile_unit'.datatypes[Len(ds)].off = ds[Len(ds)].off
    BY <1>6, AssignMembersEffect
  <2>2. /\ walk = "save" /\ prev_tag = "datatype" /\ members' = << >>
        /\ UNCHANGED <<debug_info, walk, prev_tag, Here, Node, Past>>
    BY <1>6 DEF AssignMembers, Here, Node, Past
  <2>3. LastOff' = LastOff
    BY <2>1, <2>2 DEF LastOff
  <2>4. LastInv'
    BY <1>1, <2>2, <2>3 DEF LastInv
  <2>5. MembersInv'
    BY <1>1, <2>2, EmptySeq DEF MembersInv
  <2>6. QED
    BY <2>4, <2>5
<1>7. CASE ClearMembers
  <2>1. /\ walk = "save" /\ walk' = "add" /\ members' = << >> /\ prev_tag' = NoTag
        /\ UNCHANGED <<debug_info, Here, Node>>
    BY <1>7 DEF ClearMembers, Here, Node
  <2>2. QED
    BY <1>1, <2>1, EmptySeq DEF LastInv, MembersInv
<1>8. CASE AddFunction \/ AddGlobalVariable \/ AddDatatype
  <2>1. /\ walk = "add" /\ walk' = "visit" /\ Node.depth = 2
        /\ UNCHANGED <<debug_info, members, Here, Node>>
    BY <1>8 DEF AddFunction, AddGlobalVariable, AddDatatype, Here, Node
  <2>2. members' = << >> /\ Past' = Here /\ Here \in Nat \ {0}
    BY <1>1, <2>1, NodeType DEF MembersInv, Past
  <2>3. MembersInv'
    BY <2>1, <2>2, EmptySeq DEF MembersInv
  <2>4. prev_tag' # NoTag => LastOff' = Here
    <3>1. CASE AddFunction
      BY <3>1, AddFunctionEffect DEF AddFunction, LastOff
    <3>2. CASE AddDatatype
      BY <3>2, AddDatatypeEffect DEF AddDatatype, LastOff
    <3>3. CASE AddGlobalVariable
      BY <3>3 DEF AddGlobalVariable
    <3>4. QED
      BY <1>8, <3>1, <3>2, <3>3
  <2>5. LastInv'
    BY <2>1, <2>2, <2>4 DEF LastInv, Node
  <2>6. QED
    BY <2>3, <2>5
<1>9. CASE AddMember \/ PassOver
  <2>1. /\ walk = "add" /\ walk' = "visit" /\ Node.depth > 2
        /\ UNCHANGED <<debug_info, compile_unit, prev_tag, Here, Node, LastOff>>
    BY <1>9 DEF AddMember, PassOver, Here, Node, LastOff
  <2>2. Here \in Nat \ {0} /\ Past' = Here /\ Past = Here - 1
    BY <2>1, NodeType DEF Past
  <2>3. LastInv'
    BY <1>1, <2>1, <2>2 DEF LastInv, Node
  <2>4. \A i \in 1 .. Len(members') :
          (i \in 1 .. Len(members) /\ members'[i] = members[i]) \/ members'[i].off = Here
    <3>1. CASE AddMember
      BY <1>2, <3>1, AddMemberEffect
    <3>2. CASE PassOver
      BY <3>2 DEF PassOver
    <3>3. QED
      BY <1>9, <3>1, <3>2
  <2>5. prev_tag # NoTag => LastOff \in 1 .. Past
    BY <1>1, <2>1 DEF LastInv
  <2>6. MembersInv'
    BY <1>1, <2>1, <2>2, <2>4, <2>5 DEF MembersInv
  <2>7. QED
    BY <2>3, <2>6
<1>10. CASE Throw \/ UnitDone
  BY <1>10 DEF Throw, UnitDone, LastInv, MembersInv
<1>11. CASE UNCHANGED vars
  BY <1>1, <1>11 DEF vars, LastInv, MembersInv, LastOff, Past, Here, Node
<1>12. QED
  BY <1>3, <1>4, <1>5, <1>6, <1>7, <1>8, <1>9, <1>10, <1>11 DEF Next

LEMMA InitOwnInv == Init => OwnInv
<1> SUFFICES ASSUME Init
             PROVE  OwnInv
  OBVIOUS
<1>1. compile_unit.functions = << >> /\ compile_unit.datatypes = << >>
  BY EmptyUnitIs DEF Init
<1>2. QED
  BY <1>1, EmptySeq DEF Init, OwnInv, LastInv, MembersInv, UnitOwn

LEMMA StepOwnInv == TypeOK /\ OwnInv /\ [Next]_vars => OwnInv'
BY WalkOwn, FilledUnitOwn, ParsedUnitsOwn DEF OwnInv

LEMMA UnitOwnMembers ==
  ASSUME NEW u \in Unit, UnitOwn(u)
  PROVE  /\ \A i \in DOMAIN u.functions : LET f == u.functions[i] IN
              /\ \A j \in DOMAIN f.parameters : Owns(f.off, f.parameters[j].off)
              /\ \A j \in DOMAIN f.members : Owns(f.off, f.members[j].off)
         /\ \A i \in DOMAIN u.datatypes : LET d == u.datatypes[i] IN
              \A j \in DOMAIN d.members : Owns(d.off, d.members[j].off)
<1>1. /\ u.functions \in Seq(Function) /\ DOMAIN u.functions = 1 .. Len(u.functions)
      /\ u.datatypes \in Seq(Datatype) /\ DOMAIN u.datatypes = 1 .. Len(u.datatypes)
  BY UnitType, LenProperties
<1>2. ASSUME NEW i \in DOMAIN u.functions, NEW f, f = u.functions[i]
      PROVE  /\ \A j \in DOMAIN f.parameters : Owns(f.off, f.parameters[j].off)
             /\ \A j \in DOMAIN f.members : Owns(f.off, f.members[j].off)
  <2>1. f \in Function /\ FunctionOwn(f)
    BY <1>1, <1>2, ElementOfSeq DEF UnitOwn
  <2>2. DOMAIN f.parameters = 1 .. Len(f.parameters) /\ DOMAIN f.members = 1 .. Len(f.members)
    BY <2>1, FunctionType, LenProperties
  <2>3. QED
    BY <2>1, <2>2 DEF FunctionOwn, OwnsVisited
<1>3. ASSUME NEW i \in DOMAIN u.datatypes, NEW d, d = u.datatypes[i]
      PROVE  \A j \in DOMAIN d.members : Owns(d.off, d.members[j].off)
  <2>1. d \in Datatype /\ DatatypeOwn(d)
    BY <1>1, <1>3, ElementOfSeq DEF UnitOwn
  <2>2. DOMAIN d.members = 1 .. Len(d.members)
    BY <2>1, DatatypeType, LenProperties
  <2>3. QED
    BY <2>1, <2>2 DEF DatatypeOwn, OwnsVisited
<1>4. QED
  BY <1>2, <1>3

LEMMA OwnInvOwnMembers == TypeOK /\ OwnInv => OwnMembers
<1> SUFFICES ASSUME TypeOK, OwnInv
             PROVE  OwnMembers
  OBVIOUS
<1>1. \A u \in Units : u \in Unit /\ UnitOwn(u)
  <2>1. /\ m_compile_units \in Seq(Unit) /\ compile_unit \in Unit
        /\ DOMAIN m_compile_units = 1 .. Len(m_compile_units)
    BY LenProperties DEF TypeOK
  <2>2. QED
    BY <2>1, ElementOfSeq DEF OwnInv, Units
<1>2. QED
  BY <1>1, UnitOwnMembers DEF OwnMembers

(***************************************************************************)
(* Whatever the debug information, parameters, variables and fields go to  *)
(* the function or type they lie under: process_cu_tree's two shared       *)
(* variables members and prev_tag never mean another DIE of depth 2 than   *)
(* the one visited last.                                                   *)
(***************************************************************************)
THEOREM MembersReachTheirOwner == Spec => []OwnMembers
<1>1. Init => OwnInv
  BY InitOwnInv
<1>2. TypeOK /\ OwnInv /\ [Next]_vars => OwnInv'
  BY StepOwnInv
<1>3. TypeOK /\ OwnInv => OwnMembers
  BY OwnInvOwnMembers
<1>4. QED
  BY WalkTypeCorrect, <1>1, <1>2, <1>3, PTL DEF Spec

-----------------------------------------------------------------------------
(***************************************************************************)
(* Parameters are in their places.                                         *)
(***************************************************************************)

(* The leading parameters of f end at a DIE already visited. *)
Ended(f) ==
  \E s \in (f.off + 1) .. Here :
    ~(debug_info[s].depth = 3 /\ debug_info[s].tag \in ParameterTags)

(* f was the last of its unit: no DIE of depth 2 followed or will follow.  *)
Left(f) ==
  \/ \E s \in (f.off + 1) .. Here :
       /\ debug_info[s].depth = 1
       /\ \A j \in (f.off + 1) .. (s - 1) : debug_info[j].depth > 2
  \/ walk = "unit" /\ \A j \in (f.off + 1) .. Here : debug_info[j].depth > 2

(* Nothing visited later makes a difference to f. *)
Settled(f) == f.off <= Here /\ ((Ended(f) /\ InPlace(f)) \/ Left(f))

(* The k-th leading parameter of f that was dealt with is the k-th of its  *)
(* parameters, or will be once members is handed over.                     *)
Collected(f) ==
  \A n \in 1 .. (Past - f.off) : Leading(f.off, n) =>
    \A k \in 1 .. n : LET p == Len(f.parameters) IN
      \/ k <= p /\ f.parameters[k].off = f.off + k
      \/ /\ k > p /\ k - p <= Len(members)
         /\ members[k - p].off = f.off + k
         /\ members[k - p].tag \in ParameterTags

(* Members are being collected for f, or are being handed to it. *)
Open(f) ==
  /\ walk # "unit" /\ prev_tag = "functions"
  /\ walk = "add" => Node.depth > 2
  /\ Collected(f)
  /\ walk # "save" => f.parameters = << >> /\ Len(members) <= Past - f.off

PlacesInv ==
  /\ \A i \in 1 .. Len(m_compile_units) :
       LET fs == m_compile_units[i].functions IN \A j \in 1 .. Len(fs) : Settled(fs[j])
  /\ LET fs == compile_unit.functions IN
       \A j \in 1 .. Len(fs) : Settled(fs[j]) \/ (j = Len(fs) /\ Open(fs[j]))

(* g is f, or f with more parameters. *)
Prolongs(f, g) ==
  /\ g.off = f.off /\ Len(f.parameters) <= Len(g.parameters)
  /\ \A k \in 1 .. Len(f.parameters) : g.parameters[k] = f.parameters[k]

LEMMA EndedStays ==
  ASSUME Extended, NEW f \in Function, NEW g \in Function, Prolongs(f, g),
         Ended(f), InPlace(f)
  PROVE  Ended(g)' /\ InPlace(g)'
<1>1. /\ f.off \in Nat /\ g.off = f.off /\ Here \in Nat /\ Here' \in Nat /\ Here <= Here'
      /\ Len(f.parameters) \in Nat /\ Len(g.parameters) \in Nat
      /\ Len(f.parameters) <= Len(g.parameters)
  BY FunctionType, LenProperties DEF Prolongs, Extended
<1>2. PICK s \in (f.off + 1) .. Here :
        ~(debug_info[s].depth = 3 /\ debug_info[s].tag \in ParameterTags)
  BY DEF Ended
<1>3. s \in (f.off + 1) .. Here' /\ debug_info'[s] = debug_info[s]
  <2>1. s \in 1 .. Here /\ s \in (f.off + 1) .. Here'
    BY <1>1
  <2>2. QED
    BY <2>1 DEF Extended
<1>4. Ended(g)'
  BY <1>1, <1>2, <1>3 DEF Ended
<1>5. ASSUME NEW n \in 1 .. (Here' - f.off), Leading(f.off, n)'
      PROVE  n <= Len(g.parameters) /\ \A k \in 1 .. n : g.parameters[k].off = f.off + k
  <2>1. \A k \in 1 .. n : /\ debug_info'[f.off + k].depth = 3
                          /\ debug_info'[f.off + k].tag \in ParameterTags
    BY <1>5 DEF Leading
  <2>2. f.off + n < s
    <3>1. SUFFICES ASSUME f.off + n >= s
                   PROVE  FALSE
      BY <1>1
    <3>2. s - f.off \in 1 .. n /\ f.off + (s - f.off) = s
      BY <1>1, <3>1
    <3>3. QED
      BY <1>2, <1>3, <2>1, <3>2
  <2>3. /\ n \in 1 .. (Here - f.off)
        /\ \A k \in 1 .. n : f.off + k \in 1 .. Here
    BY <1>1, <2>2
  <2>4. Leading(f.off, n)
    <3>1. \A k \in 1 .. n : /\ f.off + k <= Here
                            /\ debug_info'[f.off + k] = debug_info[f.off + k]
      BY <1>1, <2>3, SMTT(30) DEF Extended
    <3>2. QED
      BY <2>1, <3>1 DEF Leading
  <2>5. n <= Len(f.parameters) /\ \A k \in 1 .. n : f.parameters[k].off = f.off + k
    BY <2>3, <2>4 DEF InPlace
  <2>6. n <= Len(g.parameters) /\ \A k \in 1 .. n : k \in 1 .. Len(f.parameters)
    BY <1>1, <2>3, <2>5
  <2>7. QED
    BY <2>5, <2>6 DEF Prolongs
<1>6. InPlace(g)'
  BY <1>1, <1>5 DEF InPlace
<1>7. QED
  BY <1>4, <1>6

(* When the walk goes on, it does so with the root of a unit. *)
LEMMA LeftStays ==
  ASSUME TypeOK, [Next]_vars, NEW f \in Function, NEW g \in Function, g.off = f.off,
         f.off <= Here, Left(f)
  PROVE  Left(g)'
<1>1. Extended /\ f.off \in Nat /\ debug_info \in Seq(Shapes)
  BY StepExtends, FunctionType DEF TypeOK
<1>2. Here \in Nat /\ Here' \in Nat /\ Here <= Here'
  BY <1>1 DEF Extended
<1>3. ASSUME NEW s \in (f.off + 1) .. Here, debug_info[s].depth = 1,
             \A j \in (f.off + 1) .. (s - 1) : debug_info[j].depth > 2
      PROVE  Left(g)'
  <2>1. /\ s \in (f.off + 1) .. Here'
        /\ \A j \in (f.off + 1) .. s : j \in 1 .. Here
        /\ \A j \in (f.off + 1) .. (s - 1) : j \in (f.off + 1) .. s
        /\ s \in (f.off + 1) .. s
    BY <1>1, <1>2
  <2>2. \A j \in (f.off + 1) .. s : debug_info'[j] = debug_info[j]
    BY <1>1, <2>1 DEF Extended
  <2>3. /\ debug_info'[s].depth = 1
        /\ \A j \in (f.off + 1) .. (s - 1) : debug_info'[j].depth > 2
    BY <1>3, <2>1, <2>2
  <2>4. QED
    BY <2>1, <2>3 DEF Left
<1>4. ASSUME walk = "unit", \A j \in (f.off + 1) .. Here : debug_info[j].depth > 2
      PROVE  Left(g)'
  <2>1. \A j \in (f.off + 1) .. Here : debug_info'[j].depth > 2
    <3>1. \A j \in (f.off + 1) .. Here : j \in 1 .. Here
      BY <1>1
    <3>2. QED
      BY <1>1, <1>4, <3>1 DEF Extended
  <2>2. CASE NextUnit
    <3>1. PICK d \in Shapes : d.depth = 1 /\ debug_info' = Append(debug_info, d)
      BY <2>2 DEF NextUnit
    <3>2. Here' = Here + 1 /\ debug_info'[Here'].depth = 1
      BY <1>1, <3>1, Grows DEF Node
    <3>3. Here' \in (f.off + 1) .. Here' /\ Here' - 1 = Here
      BY <1>1, <1>2, <3>2
    <3>4. QED
      BY <2>1, <3>2, <3>3 DEF Left
  <2>3. CASE UNCHANGED <<debug_info, walk>>
    BY <1>4, <2>1, <2>3 DEF Left, Here
  <2>4. QED
    BY <1>4, <2>2, <2>3 DEF Next, vars, Visit, SaveMember, AssignMembers, ClearMembers,
       AddFunction, AddGlobalVariable, AddDatatype, AddMember, PassOver, Throw, UnitDone
<1>5. QED
  BY <1>3, <1>4 DEF Left

LEMMA SettledStays ==
  ASSUME TypeOK, [Next]_vars, NEW f \in Function, NEW g \in Function, Prolongs(f, g), Settled(f)
  PROVE  Settled(g)'
<1>1. Extended /\ f.off \in Nat /\ g.off = f.off
  BY StepExtends, FunctionType DEF Prolongs
<1>2. g.off <= Here'
  BY <1>1 DEF Extended, Settled
<1>3. QED
  BY <1>1, <1>2, EndedStays, LeftStays DEF Settled

LEMMA SettledSame ==
  ASSUME TypeOK, [Next]_vars, NEW f \in Function, Settled(f)
  PROVE  Settled(f)'
<1>1. Prolongs(f, f)
  BY FunctionType, LenProperties DEF Prolongs
<1>2. QED
  BY <1>1, SettledStays

(* What an open function is: the one members are collected for. *)
LEMMA OpenIsLast ==
  ASSUME TypeOK, OwnInv, NEW f \in Function,
         f = compile_unit.functions[Len(compile_unit.functions)], Open(f)
  PROVE  /\ walk # "unit" /\ prev_tag = "functions"
         /\ Here \in Nat \ {0} /\ Past \in Nat
         /\ Past = IF walk = "visit" THEN Here ELSE Here - 1
         /\ f.off \in 1 .. Past
         /\ \A j \in (f.off + 1) .. Past : debug_info[j].depth > 2
<1>1. walk # "unit" /\ prev_tag = "functions" /\ prev_tag # NoTag
  BY NoTagIs DEF Open
<1>2. Here \in Nat \ {0}
  BY <1>1, NodeType
<1>3. LastOff = f.off /\ LastInv
  BY <1>1 DEF LastOff, OwnInv
<1>4. Past = IF walk = "visit" THEN Here ELSE Here - 1
  BY DEF Past
<1>5. Past = Here \/ Past = Here - 1
  BY <1>4
<1>6. Past \in Nat
  BY <1>2, <1>5
<1>7. QED
  BY <1>1, <1>2, <1>3, <1>4, <1>6 DEF LastInv

(* Once nothing is left to hand over and the next DIE is no parameter, f   *)
(* has its parameters.                                                     *)
LEMMA CollectedInPlace ==
  ASSUME NEW f \in Function, Collected(f), members = << >>,
         Here \in Nat \ {0}, Past = Here - 1, f.off \in 1 .. Past,
         ~(Node.depth = 3 /\ Node.tag \in ParameterTags)
  PROVE  Ended(f) /\ InPlace(f)
<1>1. f.off \in Nat /\ Len(f.parameters) \in Nat
  BY FunctionType, LenProperties
<1>2. Here \in (f.off + 1) .. Here
  BY <1>1
<1>3. Ended(f)
  BY <1>2 DEF Ended, Node
<1>4. ASSUME NEW n \in 1 .. (Here - f.off), Leading(f.off, n)
      PROVE  n <= Len(f.parameters) /\ \A k \in 1 .. n : f.parameters[k].off = f.off + k
  <2>1. n # Here - f.off
    <3>1. SUFFICES ASSUME n = Here - f.off
                   PROVE  FALSE
      OBVIOUS
    <3>2. n \in 1 .. n /\ f.off + n = Here
      BY <1>1, <3>1
    <3>3. QED
      BY <1>4, <3>2 DEF Leading, Node
  <2>2. n \in 1 .. (Past - f.off) /\ n \in 1 .. n
    BY <1>1, <2>1
  <2>3. \A k \in 1 .. n : k <= Len(f.parameters) /\ f.parameters[k].off = f.off + k
    <3>1. Len(members) = 0
      BY EmptySeq
    <3>2. QED
      BY <1>1, <1>4, <2>2, <3>1 DEF Collected
  <2>4. QED
    BY <2>2, <2>3
<1>5. QED
  BY <1>3, <1>4 DEF InPlace

LEMMA OpenVisit ==
  ASSUME TypeOK, OwnInv, Visit, NEW f \in Function,
         f = compile_unit.functions[Len(compile_unit.functions)], Open(f)
  PROVE  Settled(f)' \/ Open(f)'
<1>1. PICK d \in Shapes : /\ d.depth > 1
                          /\ debug_info' = Append(debug_info, d)
                          /\ walk' = IF Closes(d) THEN "save" ELSE "add"
  BY DEF Visit
<1>2. /\ walk = "visit" /\ walk' \in {"save", "add"}
      /\ UNCHANGED <<members, prev_tag>> /\ prev_tag = "functions"
      /\ f.parameters = << >> /\ Len(members) <= Past - f.off
  BY <1>1, OpenIsLast DEF Visit, Open
<1>3. /\ Here \in Nat \ {0} /\ Past = Here /\ f.off \in 1 .. Here
      /\ Here' = Here + 1 /\ Node' = d
      /\ \A j \in 1 .. Here : debug_info'[j] = debug_info[j]
  BY <1>1, <1>2, OpenIsLast, Grows DEF TypeOK
<1>4. Past' = Past /\ Past' = Here' - 1
  BY <1>2, <1>3 DEF Past
<1>5. Collected(f)'
  <2>1. ASSUME NEW n \in 1 .. (Past - f.off), Leading(f.off, n)'
        PROVE  Leading(f.off, n)
    <3>1. \A k \in 1 .. n : /\ f.off + k <= Here
                            /\ debug_info'[f.off + k] = debug_info[f.off + k]
      <4>1. f.off \in 1 .. Here /\ n \in 1 .. (Here - f.off) /\ Here \in Nat
        BY <1>3
      <4>2. \A k \in 1 .. n : f.off + k \in 1 .. Here
        BY <4>1
      <4>3. \A j \in 1 .. Here : j <= Here /\ debug_info'[j] = debug_info[j]
        BY <1>3
      <4>4. QED
        BY <4>2, <4>3
    <3>2. \A k \in 1 .. n : /\ debug_info'[f.off + k].depth = 3
                            /\ debug_info'[f.off + k].tag \in ParameterTags
      BY <2>1 DEF Leading
    <3>3. QED
      BY <3>1, <3>2 DEF Leading
  <2>2. QED
    BY <1>2, <1>4, <2>1 DEF Collected, Open
<1>6. CASE walk' = "add" /\ d.depth = 2
  <2>1. members = << >>
    BY <1>1, <1>6 DEF Closes
  <2>2. Here' \in (f.off + 1) .. Here' /\ Ended(f)'
    <3>1. Here' \in (f.off + 1) .. Here'
      BY <1>3
    <3>2. QED
      BY <1>3, <1>6, <3>1 DEF Ended, Node
  <2>3. \A n \in 1 .. (Here' - f.off) : ~Leading(f.off, n)'
    <3>1. SUFFICES ASSUME NEW n \in 1 .. (Here' - f.off), Leading(f.off, n)'
                   PROVE  FALSE
      OBVIOUS
    <3>2. 1 \in 1 .. n /\ 1 \in 1 .. 1 /\ Here' \in Nat /\ f.off \in Nat
      BY <1>3
    <3>3. CASE f.off = Here
      BY <1>3, <1>6, <3>1, <3>2, <3>3 DEF Leading, Node
    <3>4. CASE f.off # Here
      <4>1. 1 \in 1 .. (Past' - f.off)
        BY <1>3, <1>4, <3>4
      <4>2. Leading(f.off, 1)'
        BY <3>1, <3>2 DEF Leading
      <4>3. Len(f.parameters) = 0 /\ Len(members') = 0
        BY <1>2, <2>1, EmptySeq
      <4>4. QED
        BY <1>5, <3>2, <4>1, <4>2, <4>3 DEF Collected
    <3>5. QED
      BY <3>3, <3>4
  <2>4. QED
    BY <1>3, <2>2, <2>3 DEF Settled, InPlace
<1>7. CASE walk' = "save" \/ d.depth # 2
  <2>1. d.depth \in Nat /\ d.depth > 1
    BY <1>1, ShapeType
  <2>2. QED
    BY <1>2, <1>3, <1>4, <1>5, <1>7, <2>1 DEF Open
<1>8. QED
  BY <1>2, <1>6, <1>7

LEMMA OpenSave ==
  ASSUME TypeOK, OwnInv, SaveMember, NEW f \in Function,
         f = compile_unit.functions[Len(compile_unit.functions)], Open(f),
         NEW g \in Function, g = WithMember(f, Head(members))
  PROVE  Open(g)'
<1>1. PICK m \in Member : m = Head(members)
  BY SaveMemberEffect
<1>2. /\ m = members[1]
      /\ members \in Seq(Member) /\ Len(members) \in Nat \ {0}
      /\ Len(members') = Len(members) - 1
      /\ \A i \in 1 .. Len(members') : members'[i] = members[i + 1]
  BY <1>1, SaveMemberEffect, EmptySeq, LenProperties DEF TypeOK, SaveMember
<1>3. /\ walk = "save" /\ prev_tag = "functions"
      /\ UNCHANGED <<debug_info, walk, prev_tag, Here, Node, Past>>
  BY DEF SaveMember, Here, Node, Past
<1>4. g = WithMember(f, m)
  BY <1>1
<1>5. PICK p \in Nat : p = Len(f.parameters)
  BY FunctionType, LenProperties
<1>6. PICK q \in Nat : q = Len(g.parameters)
  BY FunctionType, LenProperties
<1>7. g.off = f.off /\ Past \in Nat /\ f.off \in Nat
  BY <1>4, WithMemberIs, FunctionType, OpenIsLast
<1>8. ASSUME NEW n \in Nat, n >= 1, n <= Past - f.off, Leading(f.off, n),
             NEW k \in Nat, k >= 1, k <= n
      PROVE  \/ k <= p /\ f.parameters[k].off = f.off + k
             \/ /\ k > p /\ k - p <= Len(members)
                /\ members[k - p].off = f.off + k
                /\ members[k - p].tag \in ParameterTags
  <2>1. n \in 1 .. (Past - f.off) /\ k \in 1 .. n
    BY <1>7, <1>8
  <2>2. QED
    BY <1>5, <1>8, <2>1 DEF Open, Collected
<1>9. ASSUME NEW n \in Nat, n >= 1, n <= Past - f.off, Leading(f.off, n),
             NEW k \in Nat, k >= 1, k <= n
      PROVE  \/ k <= q /\ g.parameters[k].off = f.off + k
             \/ /\ k > q /\ k - q <= Len(members')
                /\ members'[k - q].off = f.off + k
                /\ members'[k - q].tag \in ParameterTags
  <2>1. CASE m.tag \in ParameterTags
    <3>1. g.parameters = Append(f.parameters, m)
      BY <1>4, <2>1, WithMemberIs, SMTT(30)
    <3>2. /\ q = p + 1 /\ g.parameters[p + 1] = m
          /\ \A i \in 1 .. p : g.parameters[i] = f.parameters[i]
      BY <1>5, <1>6, <3>1, FunctionType, AppendProperties
    <3>3. CASE k <= p
      <4>1. k \in 1 .. p /\ ~(k > p) /\ k <= q
        BY <1>9, <3>2, <3>3
      <4>2. QED
        BY <1>8, <1>9, <3>2, <4>1
    <3>4. CASE k = p + 1
      <4>1. k - p = 1 /\ k = q /\ ~(k <= p)
        BY <3>2, <3>4
      <4>2. members[1].off = f.off + k
        BY <1>8, <1>9, <4>1
      <4>3. QED
        BY <1>2, <3>2, <3>4, <4>1, <4>2
    <3>5. CASE k > p + 1
      <4>0. ~(k <= p)
        BY <3>5
      <4>1. /\ k - p <= Len(members) /\ members[k - p].off = f.off + k
            /\ members[k - p].tag \in ParameterTags
        BY <1>8, <1>9, <4>0
      <4>2. k > q /\ (k - q) + 1 = k - p /\ k - q \in 1 .. Len(members')
        BY <1>2, <3>2, <3>5, <4>1
      <4>3. members'[k - q] = members[k - p]
        BY <1>2, <4>2
      <4>4. QED
        BY <4>1, <4>2, <4>3
    <3>6. QED
      BY <3>3, <3>4, <3>5
  <2>2. CASE m.tag \notin ParameterTags
    <3>1. g.parameters = f.parameters /\ q = p
      BY <1>4, <1>5, <1>6, <2>2, WithMemberIs
    <3>2. k <= p
      <4>1. SUFFICES ASSUME k > p
                     PROVE  FALSE
        OBVIOUS
      <4>2. p + 1 >= 1 /\ p + 1 <= n /\ p + 1 \in Nat /\ (p + 1) - p = 1 /\ ~(p + 1 <= p)
        BY <1>9, <4>1
      <4>3. members[(p + 1) - p].tag \in ParameterTags
        BY <1>8, <1>9, <4>2
      <4>4. QED
        BY <1>2, <2>2, <4>2, <4>3
    <3>3. QED
      BY <1>8, <1>9, <3>1, <3>2
  <2>3. QED
    BY <2>1, <2>2
<1>10. Collected(g)'
  <2>1. ASSUME NEW n, Leading(g.off, n)'
        PROVE  Leading(f.off, n)
    BY <1>3, <1>7, <2>1 DEF Leading
  <2>2. \A n \in 1 .. (Past' - g.off) : /\ n \in Nat /\ n >= 1 /\ n <= Past - f.off
                                        /\ \A k \in 1 .. n : k \in Nat /\ k >= 1 /\ k <= n
    <3>1. Past' - g.off \in Int /\ Past' - g.off = Past - f.off
      BY <1>3, <1>7
    <3>2. QED
      BY <3>1
  <2>3. ASSUME NEW n \in 1 .. (Past' - g.off), Leading(g.off, n)', NEW k \in 1 .. n
        PROVE  \/ k <= q /\ g.parameters[k].off = g.off + k
               \/ /\ k > q /\ k - q <= Len(members')
                  /\ members'[k - q].off = g.off + k
                  /\ members'[k - q].tag \in ParameterTags
    <3>1. Leading(f.off, n)
      BY <2>1, <2>3
    <3>2. /\ n \in Nat /\ n >= 1 /\ n <= Past - f.off
          /\ k \in Nat /\ k >= 1 /\ k <= n
      BY <2>2, <2>3
    <3>3. QED
      BY <1>7, <1>9, <3>1, <3>2
  <2>4. QED
    BY ONLY <1>6, <2>3 DEF Collected
<1>11. QED
  BY <1>3, <1>10 DEF Open

LEMMA OpenClear ==
  ASSUME TypeOK, OwnInv, ClearMembers, NEW f \in Function,
         f = compile_unit.functions[Len(compile_unit.functions)], Open(f)
  PROVE  Settled(f)
<1>1. walk = "save" /\ prev_tag = "functions" /\ members = << >>
  BY NoTagIs DEF ClearMembers, Open
<1>2. Node.depth = 2 \/ Node.tag = "inlined_subroutine"
  BY <1>1 DEF OwnInv, MembersInv
<1>3. Here \in Nat \ {0} /\ Past = Here - 1 /\ f.off \in 1 .. Past
  BY <1>1, OpenIsLast
<1>4. Ended(f) /\ InPlace(f)
  BY <1>1, <1>2, <1>3, CollectedInPlace DEF Open, ParameterTags
<1>5. QED
  BY <1>3, <1>4 DEF Settled

LEMMA OpenAdd ==
  ASSUME TypeOK, OwnInv, AddMember \/ PassOver, NEW f \in Function,
         f = compile_unit.functions[Len(compile_unit.functions)], Open(f)
  PROVE  Open(f)'
<1>1. /\ walk = "add" /\ walk' = "visit" /\ Node.depth > 2
      /\ UNCHANGED <<debug_info, prev_tag, Here, Node>> /\ prev_tag = "functions"
  BY DEF AddMember, PassOver, Open, Here, Node
<1>2. /\ f.off \in 1 .. Past /\ Here \in Nat \ {0} /\ Past = Here - 1 /\ Past' = Here
      /\ f.parameters = << >> /\ Len(f.parameters) = 0
      /\ Len(members) \in Nat /\ Len(members) <= Past - f.off
  BY <1>1, OpenIsLast, EmptySeq, LenProperties DEF Past, Open, TypeOK
<1>3. /\ Len(members') \in Nat /\ Len(members) <= Len(members')
      /\ Len(members') <= Here - f.off
      /\ \A i \in 1 .. Len(members) : members'[i] = members[i]
      /\ Node.tag \in ParameterTags =>
           /\ Len(members') = Len(members) + 1
           /\ members'[Len(members) + 1] = [off |-> Here, tag |-> Node.tag]
  <2>1. CASE AddMember
    BY <1>2, <2>1, AddMemberEffect
  <2>2. CASE PassOver
    <3>1. Node.tag \notin ParameterTags /\ members' = members
      BY <2>2 DEF PassOver, MemberTags
    <3>2. QED
      BY <1>2, <3>1
  <2>3. QED
    BY <2>1, <2>2
<1>4. ASSUME NEW n \in 1 .. (Past - f.off), Leading(f.off, n), NEW k \in 1 .. n
      PROVE  /\ k <= Len(members) /\ members[k].off = f.off + k
             /\ members[k].tag \in ParameterTags
  <2>1. ~(k <= Len(f.parameters)) /\ k - Len(f.parameters) = k
    BY <1>2
  <2>2. QED
    BY <1>4, <2>1 DEF Open, Collected
<1>5. ASSUME NEW n \in 1 .. (Here - f.off), Leading(f.off, n), NEW k \in 1 .. n
      PROVE  /\ k <= Len(members') /\ members'[k].off = f.off + k
             /\ members'[k].tag \in ParameterTags
  <2>1. CASE k <= Past - f.off
    <3>1. k \in 1 .. (Past - f.off) /\ k \in 1 .. k
      BY <1>2, <2>1
    <3>2. Leading(f.off, k)
      BY <1>5 DEF Leading
    <3>3. k <= Len(members) /\ members[k].off = f.off + k /\ members[k].tag \in ParameterTags
      BY <1>4, <3>1, <3>2
    <3>4. k \in 1 .. Len(members) /\ k <= Len(members')
      BY <1>2, <1>3, <3>3
    <3>5. QED
      BY <1>3, <3>3, <3>4
  <2>2. CASE k > Past - f.off
    <3>1. k = Here - f.off /\ f.off + k = Here /\ k - 1 = Past - f.off
      BY <1>2, <1>5, <2>2, SMTT(30)
    <3>2. Node.tag \in ParameterTags
      BY <1>5, <3>1 DEF Leading, Node
    <3>3. Len(members) = k - 1
      <4>1. CASE k = 1
        <5>1. /\ Len(members) \in Nat /\ Past - f.off \in Int
              /\ Len(members) <= Past - f.off
          BY <1>2
        <5>2. Past - f.off = 0
          BY ONLY <3>1, <4>1
        <5>3. QED
          BY ONLY <4>1, <5>1, <5>2
      <4>2. CASE k # 1
        <5>1. k - 1 \in 1 .. (Past - f.off) /\ k - 1 \in 1 .. (k - 1) /\ 1 .. (k - 1) \subseteq 1 .. n
          BY <1>2, <3>1, <4>2, SMTT(30)
        <5>2. Leading(f.off, k - 1)
          BY <1>5, <5>1 DEF Leading
        <5>3. k - 1 <= Len(members)
          BY <1>4, <5>1, <5>2
        <5>4. QED
          BY <1>2, <3>1, <5>3, SMTT(30)
      <4>3. QED
        BY <4>1, <4>2
    <3>4. Len(members) + 1 = k /\ k <= Len(members')
      BY <1>3, <3>2, <3>3
    <3>5. members'[k].off = Here /\ members'[k].tag = Node.tag
      BY <1>3, <3>2, <3>4
    <3>6. QED
      BY <3>1, <3>2, <3>4, <3>5
  <2>3. QED
    BY <1>2, <2>1, <2>2
<1>6. ASSUME NEW n, Leading(f.off, n)'
      PROVE  Leading(f.off, n)
  BY <1>1, <1>6 DEF Leading
<1>7. ASSUME NEW n \in 1 .. (Here - f.off), NEW k \in 1 .. n
      PROVE  k > Len(f.parameters) /\ k - Len(f.parameters) = k
  BY <1>2, <1>7
<1>8. Collected(f)'
  BY <1>2, <1>5, <1>6, <1>7 DEF Collected
<1>9. QED
  BY <1>1, <1>2, <1>3, <1>8 DEF Open

LEMMA OpenLeft ==
  ASSUME TypeOK, OwnInv, Throw \/ UnitDone, NEW f \in Function,
         f = compile_unit.functions[Len(compile_unit.functions)], Open(f)
  PROVE  Settled(f)'
<1>1. walk \in {"add", "visit"} /\ walk' = "unit" /\ UNCHANGED <<debug_info, Here>>
  BY DEF Throw, UnitDone, Here
<1>2. /\ Here \in Nat \ {0} /\ Past = IF walk = "visit" THEN Here ELSE Here - 1
      /\ f.off \in 1 .. Past
      /\ \A j \in (f.off + 1) .. Past : debug_info[j].depth > 2
  BY OpenIsLast
<1>3. walk = "add" => debug_info[Here].depth > 2
  BY DEF Open, Node
<1>4. f.off <= Here /\ \A j \in (f.off + 1) .. Here : debug_info[j].depth > 2
  BY <1>1, <1>2, <1>3
<1>5. QED
  BY <1>1, <1>4 DEF Settled, Left

LEMMA NewOpen ==
  ASSUME TypeOK, OwnInv, AddFunction, NEW f \in Function, f.off = Here, f.parameters = << >>
  PROVE  Open(f)'
<1>1. /\ walk' = "visit" /\ prev_tag' = "functions" /\ members' = << >>
      /\ Here' = Here /\ Here \in Nat
  BY NodeType DEF AddFunction, OwnInv, MembersInv, Here
<1>2. Past' = Here /\ 1 .. (Past' - f.off) = {} /\ Len(members') = 0
  BY <1>1, EmptySeq DEF Past
<1>3. Collected(f)'
  BY <1>2 DEF Collected
<1>4. QED
  BY <1>1, <1>2, <1>3 DEF Open

LEMMA AppendedLonger ==
  ASSUME NEW s \in Seq(Member), NEW m \in Member, NEW t \in {s, Append(s, m)}
  PROVE  Len(s) <= Len(t) /\ \A k \in 1 .. Len(s) : t[k] = s[k]
<1>1. Len(s) \in Nat
  BY LenProperties
<1>2. Len(Append(s, m)) = Len(s) + 1 /\ \A k \in 1 .. Len(s) : Append(s, m)[k] = s[k]
  BY AppendProperties
<1>3. QED
  BY <1>1, <1>2

(* The functions of the unit being filled. *)
LEMMA FilledUnitPlaces ==
  ASSUME TypeOK, OwnInv, PlacesInv, [Next]_vars,
         NEW j \in 1 .. Len(compile_unit'.functions),
         NEW g \in Function, g = compile_unit'.functions[j]
  PROVE  Settled(g)' \/ (j = Len(compile_unit'.functions) /\ Open(g)')
<1> DEFINE fs == compile_unit.functions
           gs == compile_unit'.functions
<1>1. /\ fs \in Seq(Function) /\ gs \in Seq(Function) /\ Len(fs) \in Nat
      /\ \A i \in 1 .. Len(fs) : fs[i] \in Function
  BY StepTypeOK, UnitType, LenProperties, ElementOfSeq DEF TypeOK
<1>2. \A i \in 1 .. Len(fs) : Settled(fs[i]) \/ (i = Len(fs) /\ Open(fs[i]))
  BY DEF PlacesInv
<1>3. CASE NextUnit
  BY <1>3, NextUnitEffect, EmptySeq
<1>4. CASE SaveMember
  <2> DEFINE n == Len(fs)
  <2>1. /\ n \in Nat \ {0} /\ fs[n] \in Function /\ Head(members) \in Member
        /\ Len(gs) = n
        /\ \A i \in 1 .. n : gs[i] = IF i = n THEN WithMember(fs[n], Head(members)) ELSE fs[i]
    BY <1>4, SaveMemberEffect
  <2>2. CASE j # n
    BY <1>1, <1>2, <2>1, <2>2, SettledSame
  <2>3. CASE j = n /\ Settled(fs[n])
    <3>1. g = WithMember(fs[n], Head(members))
      BY <2>1, <2>3
    <3>2. Prolongs(fs[n], g)
      <4>1. \/ g.parameters = fs[n].parameters
            \/ g.parameters = Append(fs[n].parameters, Head(members))
        BY <2>1, <3>1, WithMemberIs
      <4>2. fs[n].parameters \in Seq(Member) /\ g.off = fs[n].off
        BY <2>1, <3>1, WithMemberIs, FunctionType
      <4>3. QED
        <5>1. PICK m \in Member : m = Head(members)
          BY <2>1
        <5>2. PICK ps \in Seq(Member) : ps = fs[n].parameters
          BY <4>2
        <5>3. /\ Len(ps) <= Len(g.parameters)
              /\ \A k \in 1 .. Len(ps) : g.parameters[k] = ps[k]
          BY <4>1, <5>1, <5>2, AppendedLonger, SMTT(30)
        <5>4. QED
          BY <4>2, <5>2, <5>3 DEF Prolongs
    <3>3. QED
      BY <1>1, <2>1, <2>3, <3>2, SettledStays
  <2>4. CASE j = n /\ Open(fs[n])
    <3>1. g = WithMember(fs[n], Head(members))
      BY <2>1, <2>4
    <3>2. QED
      BY <1>1, <1>4, <2>1, <2>4, <3>1, OpenSave
  <2>5. QED
    BY <1>2, <2>1, <2>2, <2>3, <2>4
<1>5. CASE AddFunction
  <2>1. /\ Len(gs) = Len(fs) + 1
        /\ \A i \in 1 .. Len(fs) : gs[i] = fs[i]
        /\ gs[Len(fs) + 1].off = Here /\ gs[Len(fs) + 1].parameters = << >>
    BY <1>5, AddFunctionEffect
  <2>2. CASE j = Len(gs)
    BY <1>1, <1>5, <2>1, <2>2, NewOpen
  <2>3. CASE j # Len(gs)
    <3>1. j \in 1 .. Len(fs) /\ g = fs[j]
      BY <1>1, <2>1, <2>3
    <3>2. Settled(fs[j])
      BY <1>2, <1>5, <3>1 DEF AddFunction, Open
    <3>3. QED
      BY <1>1, <3>1, <3>2, SettledSame
  <2>4. QED
    BY <2>2, <2>3
<1>6. CASE UNCHANGED fs
  <2>1. CASE Settled(fs[j])
    BY <1>1, <1>6, <2>1, SettledSame
  <2>2. CASE j = Len(fs) /\ Open(fs[j])
    <3> USE <1>1, <1>6, <2>2
    <3>1. CASE Visit
      BY <3>1, OpenVisit
    <3>2. CASE AssignMembers
      BY <3>2 DEF AssignMembers, Open
    <3>3. CASE ClearMembers
      BY <3>3, OpenClear, SettledSame
    <3>4. CASE AddGlobalVariable \/ AddDatatype
      BY <3>4 DEF AddGlobalVariable, AddDatatype, Open
    <3>5. CASE AddMember \/ PassOver
      BY <3>5, OpenAdd
    <3>6. CASE Throw \/ UnitDone
      BY <3>6, OpenLeft
    <3>7. CASE UNCHANGED vars
      BY <3>7 DEF vars, Open, Collected, Leading, Here, Past, Node
    <3>8. QED
      BY <1>3, <1>4, <1>5, <3>1, <3>2, <3>3, <3>4, <3>5, <3>6, <3>7 DEF Next
  <2>3. QED
    BY <1>2, <1>6, <2>1, <2>2
<1>7. QED
  BY <1>3, <1>4, <1>5, <1>6, AssignMembersEffect, AddGlobalVariableEffect, AddDatatypeEffect
     DEF Next, vars, Visit, ClearMembers, AddMember, PassOver, Throw, UnitDone

LEMMA StepPlacesInv == TypeOK /\ OwnInv /\ PlacesInv /\ [Next]_vars => PlacesInv'
<1> SUFFICES ASSUME TypeOK, OwnInv, PlacesInv, [Next]_vars
             PROVE  PlacesInv'
  OBVIOUS
<1> DEFINE us == m_compile_units
<1>1. /\ us \in Seq(Unit) /\ compile_unit \in Unit /\ Len(us) \in Nat
      /\ \A u \in Unit : /\ u.functions \in Seq(Function)
                         /\ \A j \in 1 .. Len(u.functions) : u.functions[j] \in Function
  BY UnitType, LenProperties, ElementOfSeq DEF TypeOK
<1>2. ASSUME NEW u \in Unit, \A j \in 1 .. Len(u.functions) : Settled(u.functions[j]),
             NEW j \in 1 .. Len(u.functions), NEW f, f = u.functions[j]
      PROVE  Settled(f)'
  BY <1>1, <1>2, SettledSame
<1>3. ASSUME NEW i \in 1 .. Len(us'), NEW j \in 1 .. Len(us'[i].functions),
             NEW f, f = us'[i].functions[j]
      PROVE  Settled(f)'
  <2>1. CASE UnitDone
    <3>1. /\ Len(us') = Len(us) + 1
          /\ \A l \in 1 .. Len(us) : us'[l] = us[l] /\ us[l] \in Unit
          /\ us'[Len(us) + 1] = compile_unit
          /\ compile_unit' = compile_unit /\ walk' = "unit"
      BY <1>1, <2>1, AppendProperties, ElementOfSeq DEF UnitDone
    <3>2. CASE i = Len(us) + 1
      <4>1. j \in 1 .. Len(compile_unit'.functions) /\ f = compile_unit'.functions[j] /\ f \in Function
        BY <1>1, <1>3, <3>1, <3>2
      <4>2. QED
        BY <3>1, <4>1, FilledUnitPlaces DEF Open
    <3>3. CASE i # Len(us) + 1
      <4>1. i \in 1 .. Len(us)
        BY <1>1, <3>1, <3>3
      <4>2. QED
        BY <1>2, <1>3, <3>1, <4>1 DEF PlacesInv
    <3>4. QED
      BY <3>2, <3>3
  <2>2. CASE UNCHANGED us
    <3>1. \A l \in 1 .. Len(us) : us[l] \in Unit
      BY <1>1, ElementOfSeq
    <3>2. QED
      BY <1>2, <1>3, <2>2, <3>1 DEF PlacesInv
  <2>3. QED
    BY <2>1, <2>2 DEF Next, vars, NextUnit, Visit, SaveMember, AssignMembers, ClearMembers,
       AddFunction, AddGlobalVariable, AddDatatype, AddMember, PassOver, Throw
<1>4. \A j \in 1 .. Len(compile_unit'.functions) : compile_unit'.functions[j] \in Function
  BY <1>1, StepTypeOK DEF TypeOK
<1>5. QED
  BY <1>3, <1>4, FilledUnitPlaces DEF PlacesInv

(* A function that is closed is settled. *)
LEMMA ClosedInPlace ==
  ASSUME TypeOK, OwnInv, NEW f \in Function, Closed(f),
         \/ Settled(f)
         \/ f = compile_unit.functions[Len(compile_unit.functions)] /\ Open(f)
  PROVE  InPlace(f)
<1>1. PICK s \in (f.off + 1) .. Here :
        /\ debug_info[s].depth = 2
        /\ \A j \in (f.off + 1) .. s : debug_info[j].depth >= 2
        /\ s = Here => walk # "save"
  BY DEF Closed
<1>2. f.off \in Nat /\ Here \in Nat
  BY FunctionType, LenProperties DEF TypeOK, Here
<1>3. CASE Settled(f)
  <2>1. ~Left(f)
    <3>1. ASSUME NEW r \in (f.off + 1) .. Here, debug_info[r].depth = 1,
                 \A j \in (f.off + 1) .. (r - 1) : debug_info[j].depth > 2
          PROVE  FALSE
      <4>1. CASE r <= s
        <5>1. r \in (f.off + 1) .. s
          BY <1>2, <4>1
        <5>2. QED
          BY <1>1, <3>1, <5>1
      <4>2. CASE r > s
        <5>1. s \in (f.off + 1) .. (r - 1)
          BY <1>2, <4>2
        <5>2. QED
          BY <1>1, <3>1, <5>1
      <4>3. QED
        BY <1>2, <4>1, <4>2
    <3>2. QED
      BY <1>1, <3>1 DEF Left
  <2>2. QED
    BY <1>3, <2>1 DEF Settled
<1>4. CASE f = compile_unit.functions[Len(compile_unit.functions)] /\ Open(f)
  <2>1. /\ walk # "unit" /\ Past = IF walk = "visit" THEN Here ELSE Here - 1
        /\ \A j \in (f.off + 1) .. Past : debug_info[j].depth > 2
    BY <1>4, OpenIsLast
  <2>2. s \notin (f.off + 1) .. Past
    BY <1>1, <2>1
  <2>3. walk # "visit" /\ s = Here
    BY <1>2, <2>1, <2>2
  <2>4. walk = "add" /\ Node.depth = 2
    BY <1>1, <2>1, <2>3 DEF TypeOK, Node
  <2>5. QED
    BY <1>4, <2>4 DEF Open
<1>5. QED
  BY <1>3, <1>4

(***************************************************************************)
(* Whatever the debug information, a function that another DIE of depth 2  *)
(* follows has its own parameters in their order and before those of calls *)
(* inlined into it: process_cu_tree hands them over in time.               *)
(***************************************************************************)
THEOREM ParametersTakeTheirPlaces == Spec => []ParametersInPlace
<1>1. Init => PlacesInv
  BY EmptyUnitIs, EmptySeq DEF Init, PlacesInv
<1>2. TypeOK /\ OwnInv /\ PlacesInv /\ [Next]_vars => PlacesInv'
  BY StepPlacesInv
<1>3. TypeOK /\ OwnInv /\ PlacesInv => ParametersInPlace
  <2> SUFFICES ASSUME TypeOK, OwnInv, PlacesInv, NEW u \in Units, NEW i \in DOMAIN u.functions,
                      Closed(u.functions[i])
               PROVE  InPlace(u.functions[i])
    BY DEF ParametersInPlace
  <2>1. /\ m_compile_units \in Seq(Unit) /\ compile_unit \in Unit
        /\ DOMAIN m_compile_units = 1 .. Len(m_compile_units)
    BY LenProperties DEF TypeOK
  <2>2. \/ u = compile_unit
        \/ \E k \in 1 .. Len(m_compile_units) : u = m_compile_units[k]
    BY <2>1 DEF Units
  <2>3. u \in Unit
    BY <2>1, <2>2, ElementOfSeq
  <2>4. i \in 1 .. Len(u.functions) /\ u.functions[i] \in Function
    BY <2>3, UnitType, LenProperties, ElementOfSeq
  <2>5. \/ Settled(u.functions[i])
        \/ u = compile_unit /\ i = Len(u.functions) /\ Open(u.functions[i])
    BY <2>2, <2>4 DEF PlacesInv
  <2>6. QED
    BY <2>4, <2>5, ClosedInPlace
<1>4. Init => OwnInv
  BY InitOwnInv
<1>5. TypeOK /\ OwnInv /\ [Next]_vars => OwnInv'
  BY StepOwnInv
<1>6. QED
  BY WalkTypeCorrect, <1>1, <1>2, <1>3, <1>4, <1>5, PTL DEF Spec

-----------------------------------------------------------------------------
(***************************************************************************)
(* Faults are contained.                                                   *)
(***************************************************************************)

(* Every value in the unit whose root is at r can be converted. *)
Sound(r) == \A k \in UnitDies(r) : Converts(debug_info[k])

Full(u) == Recorded(u) = {k \in UnitDies(u.root) : debug_info[k].depth = 2}

(* The last DIE of the units that are over. *)
Over == IF walk = "unit" THEN Here ELSE compile_unit.root - 1

(* What m_compile_units has of the units that are over, and how far the    *)
(* one being filled is.                                                    *)
FaultInv ==
  /\ {m_compile_units[i].root : i \in 1 .. Len(m_compile_units)} =
       {r \in 1 .. Over : debug_info[r].depth = 1 /\ Sound(r)}
  /\ \A i \in 1 .. Len(m_compile_units) : Full(m_compile_units[i])
  /\ walk # "unit" => LET r == compile_unit.root IN
       /\ r \in 1 .. Here /\ debug_info[r].depth = 1
       /\ \A k \in (r + 1) .. Here : debug_info[k].depth > 1
       /\ \A k \in r .. Past : Converts(debug_info[k])
       /\ Recorded(compile_unit) = {k \in r .. Past : debug_info[k].depth = 2}

LEMMA OneMoreOffset ==
  ASSUME NEW S, NEW s \in Seq(S), NEW t \in Seq(S), NEW x, Len(t) = Len(s) + 1,
         \A i \in 1 .. Len(s) : t[i] = s[i], t[Len(s) + 1].off = x
  PROVE  OffsetsOf(t) = OffsetsOf(s) \cup {x}
<1>1. /\ Len(s) \in Nat
      /\ DOMAIN s = 1 .. Len(s) /\ DOMAIN t = 1 .. (Len(s) + 1)
  BY LenProperties
<1>2. 1 .. (Len(s) + 1) = (1 .. Len(s)) \cup {Len(s) + 1}
  BY <1>1
<1>3. QED
  BY <1>1, <1>2 DEF OffsetsOf

LEMMA SameOffsets ==
  ASSUME NEW S, NEW s \in Seq(S), NEW t \in Seq(S), Len(t) = Len(s),
         \A i \in 1 .. Len(s) : t[i].off = s[i].off
  PROVE  OffsetsOf(t) = OffsetsOf(s)
<1>1. DOMAIN s = 1 .. Len(s) /\ DOMAIN t = 1 .. Len(s)
  BY LenProperties
<1>2. QED
  BY <1>1 DEF OffsetsOf

(* A DIE of depth 1 ends the unit before it, whatever follows. *)
LEMMA UnitDiesStay ==
  ASSUME Extended, NEW r \in 1 .. Here, NEW b \in (r + 1) .. Here', b <= Here + 1,
         debug_info'[b].depth = 1
  PROVE  /\ UnitDies(r)' = UnitDies(r)
         /\ \A k \in UnitDies(r) : k \in 1 .. Here /\ debug_info'[k] = debug_info[k]
<1>1. /\ Here \in Nat /\ Here' \in Nat /\ Here <= Here' /\ r \in Nat /\ b \in Nat
      /\ \A j \in 1 .. Here : debug_info'[j] = debug_info[j]
  BY DEF Extended
<1>2. ASSUME NEW k \in UnitDies(r)
      PROVE  k \in UnitDies(r)' /\ k \in 1 .. Here
  <2>1. k \in r .. Here /\ \A j \in (r + 1) .. k : debug_info[j].depth > 1
    BY <1>2 DEF UnitDies
  <2>2. k \in 1 .. Here /\ k \in r .. Here' /\ \A j \in (r + 1) .. k : j \in 1 .. Here
    BY <1>1, <2>1
  <2>3. QED
    BY <1>1, <2>1, <2>2 DEF UnitDies
<1>3. ASSUME NEW k \in UnitDies(r)'
      PROVE  k \in UnitDies(r)
  <2>1. k \in r .. Here' /\ \A j \in (r + 1) .. k : debug_info'[j].depth > 1
    BY <1>3 DEF UnitDies
  <2>2. b \notin (r + 1) .. k
    BY <2>1
  <2>3. k \in r .. Here /\ \A j \in (r + 1) .. k : j \in 1 .. Here
    BY <1>1, <2>1, <2>2
  <2>4. QED
    BY <1>1, <2>1, <2>3 DEF UnitDies
<1>4. QED
  BY <1>1, <1>2, <1>3

(* So it is with all units that are over. *)
LEMMA OverStay ==
  ASSUME TypeOK, FaultInv, [Next]_vars, NEW r \in 1 .. Over
  PROVE  /\ r \in 1 .. Here
         /\ UnitDies(r)' = UnitDies(r)
         /\ \A k \in UnitDies(r) : k \in 1 .. Here /\ debug_info'[k] = debug_info[k]
<1>1. Extended /\ Here \in Nat
  BY StepExtends DEF Extended
<1>2. CASE walk # "unit"
  <2>1. /\ Over = compile_unit.root - 1
        /\ compile_unit.root \in 1 .. Here /\ debug_info[compile_unit.root].depth = 1
    BY <1>2 DEF Over, FaultInv
  <2>2. /\ r \in 1 .. Here /\ compile_unit.root \in (r + 1) .. Here'
        /\ compile_unit.root <= Here + 1
    BY <1>1, <2>1 DEF Extended
  <2>3. debug_info'[compile_unit.root].depth = 1
    BY <1>1, <2>1 DEF Extended
  <2>4. QED
    BY <1>1, <2>2, <2>3, UnitDiesStay
<1>3. CASE walk = "unit" /\ NextUnit
  <2>1. PICK d \in Shapes : d.depth = 1 /\ debug_info' = Append(debug_info, d)
    BY <1>3 DEF NextUnit
  <2>2. Here' = Here + 1 /\ debug_info'[Here'].depth = 1
    BY <2>1, Grows DEF TypeOK, Node
  <2>3. r \in 1 .. Here
    BY <1>3 DEF Over
  <2>4. Here' \in (r + 1) .. Here' /\ Here' <= Here + 1
    BY <1>1, <2>2, <2>3
  <2>5. QED
    BY <1>1, <2>2, <2>3, <2>4, UnitDiesStay
<1>4. CASE walk = "unit" /\ UNCHANGED debug_info
  <2>1. r \in 1 .. Here
    BY <1>4 DEF Over
  <2>2. UnitDies(r)' = UnitDies(r)
    BY <1>4 DEF UnitDies, Here
  <2>3. \A k \in UnitDies(r) : k \in 1 .. Here
    BY <1>1, <2>1 DEF UnitDies
  <2>4. QED
    BY <1>4, <2>1, <2>2, <2>3
<1>5. QED
  BY <1>2, <1>3, <1>4 DEF Next, vars, Visit, SaveMember, AssignMembers, ClearMembers,
     AddFunction, AddGlobalVariable, AddDatatype, AddMember, PassOver, Throw, UnitDone

LEMMA OverSame ==
  ASSUME TypeOK, FaultInv, [Next]_vars, NEW r \in 1 .. Over
  PROVE  /\ debug_info'[r] = debug_info[r]
         /\ Sound(r)' <=> Sound(r)
         /\ {k \in UnitDies(r) : debug_info[k].depth = 2}' =
              {k \in UnitDies(r) : debug_info[k].depth = 2}
<1>1. /\ r \in 1 .. Here /\ UnitDies(r)' = UnitDies(r)
      /\ \A k \in UnitDies(r) : debug_info'[k] = debug_info[k]
  BY OverStay
<1>2. debug_info'[r] = debug_info[r]
  BY <1>1, StepExtends DEF Extended
<1>3. QED
  BY <1>1, <1>2 DEF Sound

(* The unit being filled: where it is and what it has. *)
LEMMA FilledUnitSound ==
  ASSUME TypeOK, OwnInv, FaultInv, [Next]_vars, walk' # "unit"
  PROVE  LET r == compile_unit'.root IN
           /\ r \in 1 .. Here' /\ debug_info'[r].depth = 1
           /\ \A k \in (r + 1) .. Here' : debug_info'[k].depth > 1
           /\ \A k \in r .. Past' : Converts(debug_info'[k])
           /\ Recorded(compile_unit') = {k \in r .. Past' : debug_info'[k].depth = 2}
<1> DEFINE r == compile_unit.root
           u == compile_unit
           v == compile_unit'
<1>1. /\ u \in Unit /\ v \in Unit /\ debug_info \in Seq(Shapes)
      /\ Here \in Nat /\ Here' \in Nat /\ Extended
  BY StepTypeOK, StepExtends DEF TypeOK, Extended
<1>2. walk # "unit" =>
        /\ r \in 1 .. Here /\ debug_info[r].depth = 1
        /\ \A k \in (r + 1) .. Here : debug_info[k].depth > 1
        /\ \A k \in r .. Past : Converts(debug_info[k])
        /\ Recorded(u) = {k \in r .. Past : debug_info[k].depth = 2}
  BY DEF FaultInv
<1>3. CASE NextUnit
  <2>1. PICK d \in Shapes : /\ d.depth = 1 /\ debug_info' = Append(debug_info, d)
                            /\ walk' = IF Converts(d) THEN "visit" ELSE "unit"
    BY <1>3 DEF NextUnit
  <2>2. Converts(d) /\ walk' = "visit"
    BY <2>1
  <2>3. Here' = Here + 1 /\ debug_info'[Here'] = d /\ Past' = Here' /\ v.root = Here'
    BY <1>1, <1>3, <2>1, <2>2, Grows, NextUnitEffect DEF Past, Node
  <2>4. OffsetsOf(<< >>) = {} /\ Recorded(v) = {}
    BY <1>3, NextUnitEffect, EmptySeq DEF Recorded, OffsetsOf
  <2>5. Here' .. Here' = {Here'} /\ (Here' + 1) .. Here' = {} /\ Here' \in 1 .. Here'
    BY <1>1, <2>3
  <2>6. debug_info'[Here'].depth = 1 /\ \A k \in Here' .. Here' : k = Here'
    BY <2>1, <2>3, <2>5
  <2>7. \A k \in Here' .. Here' : Converts(debug_info'[k])
    BY <2>2, <2>3, <2>5
  <2>8. {k \in Here' .. Here' : debug_info'[k].depth = 2} = {}
    BY <2>6
  <2> HIDE DEF v
  <2>9. QED
    BY <2>3, <2>4, <2>5, <2>6, <2>7, <2>8 DEF v
<1>4. CASE Visit
  <2>1. PICK d \in Shapes : /\ d.depth > 1 /\ debug_info' = Append(debug_info, d)
    BY <1>4 DEF Visit
  <2>2. /\ Here' = Here + 1 /\ debug_info'[Here'] = d
        /\ \A k \in 1 .. Here : debug_info'[k] = debug_info[k]
    BY <1>1, <2>1, Grows DEF Node
  <2>3. walk = "visit" /\ walk' \in {"save", "add"} /\ v = u
    BY <1>4 DEF Visit
  <2>4. Past = Here /\ Past' = Here
    BY <1>1, <2>2, <2>3 DEF Past
  <2>5. r \in 1 .. Here' /\ \A k \in r .. Here : k \in 1 .. Here
    BY <1>1, <1>2, <2>2, <2>3
  <2>6. \A k \in r .. Here : debug_info'[k] = debug_info[k]
    BY <2>2, <2>5
  <2>7. r \in r .. Here /\ \A k \in (r + 1) .. Here' : k \in (r + 1) .. Here \/ k = Here'
    BY <1>1, <1>2, <2>2, <2>3
  <2>8. \A k \in (r + 1) .. Here : k \in r .. Here
    BY <1>1, <1>2, <2>3
  <2>9. QED
    BY <1>2, <2>1, <2>2, <2>3, <2>4, <2>5, <2>6, <2>7, <2>8
<1>5. CASE SaveMember \/ AssignMembers \/ ClearMembers
  <2>1. /\ walk = "save" /\ walk' \in {"save", "add"}
        /\ UNCHANGED <<debug_info, Here>> /\ Past' = Past
    BY <1>5 DEF SaveMember, AssignMembers, ClearMembers, Here, Past
  <2>2. v.root = u.root /\ Recorded(v) = Recorded(u)
    <3>1. CASE SaveMember
      <4>1. /\ v.root = u.root /\ v.datatypes = u.datatypes
            /\ v.global_variables = u.global_variables
            /\ Len(v.functions) = Len(u.functions)
            /\ \A i \in 1 .. Len(u.functions) : v.functions[i].off = u.functions[i].off
        <5>1. PICK n : /\ n = Len(u.functions) /\ n \in Nat \ {0}
                       /\ u.functions[n] \in Function /\ Head(members) \in Member
                       /\ Len(v.functions) = n
                       /\ \A i \in 1 .. n : v.functions[i] =
                            IF i = n THEN WithMember(u.functions[n], Head(members))
                                     ELSE u.functions[i]
          BY <3>1, SaveMemberEffect
        <5>2. WithMember(u.functions[n], Head(members)).off = u.functions[n].off
          BY <5>1, WithMemberIs
        <5>3. /\ v.root = u.root /\ v.datatypes = u.datatypes
              /\ v.global_variables = u.global_variables
          BY <3>1, SaveMemberEffect
        <5>4. QED
          BY ONLY <5>1, <5>2, <5>3
      <4>2. OffsetsOf(v.functions) = OffsetsOf(u.functions)
        BY <1>1, <4>1, UnitType, SameOffsets
      <4>3. QED
        BY <4>1, <4>2 DEF Recorded
    <3>2. CASE AssignMembers
      <4>1. /\ v.root = u.root /\ v.functions = u.functions
            /\ v.global_variables = u.global_variables
            /\ Len(v.datatypes) = Len(u.datatypes)
            /\ \A i \in 1 .. Len(u.datatypes) : v.datatypes[i].off = u.datatypes[i].off
        BY <3>2, AssignMembersEffect
      <4>2. OffsetsOf(v.datatypes) = OffsetsOf(u.datatypes)
        BY <1>1, <4>1, UnitType, SameOffsets
      <4>3. QED
        BY <4>1, <4>2 DEF Recorded
    <3>3. CASE ClearMembers
      BY <3>3 DEF ClearMembers
    <3>4. QED
      BY <1>5, <3>1, <3>2, <3>3
  <2>3. QED
    BY <1>2, <2>1, <2>2
<1>6. CASE AddFunction \/ AddGlobalVariable \/ AddDatatype \/ AddMember \/ PassOver
  <2>1. /\ walk = "add" /\ walk' = "visit" /\ UNCHANGED <<debug_info, Here>>
        /\ Converts(debug_info[Here])
    <3>1. Node.depth > 2 /\ Node.tag \notin MemberTags => Converts(Node)
      <4>1. Node.depth > 2 => ~(Node.depth = 1) /\ ~(Node.depth = 2)
        BY NodeType, ShapeType, <1>6 DEF AddFunction, AddGlobalVariable, AddDatatype, AddMember, PassOver
      <4>2. QED
        BY <4>1 DEF Converts, Converted
    <3>2. QED
      BY <1>6, <3>1 DEF AddFunction, AddGlobalVariable, AddDatatype, AddMember, PassOver, Here, Node
  <2>2. /\ Past' = Here /\ Past = Here - 1 /\ Here \in Nat \ {0} /\ r \in 1 .. Here
    BY <1>2, <2>1, NodeType DEF Past
  <2>3. r .. Here = (r .. Past) \cup {Here}
    BY <2>2
  <2>4. v.root = r /\ Recorded(v) = Recorded(u) \cup {k \in {Here} : debug_info[k].depth = 2}
    <3>1. CASE AddFunction
      <4>1. OffsetsOf(v.functions) = OffsetsOf(u.functions) \cup {Here}
        <5>1. u.functions \in Seq(Function) /\ v.functions \in Seq(Function)
          BY <1>1, UnitType
        <5>2. /\ Len(v.functions) = Len(u.functions) + 1
              /\ \A i \in 1 .. Len(u.functions) : v.functions[i] = u.functions[i]
              /\ v.functions[Len(u.functions) + 1].off = Here
          BY <3>1, AddFunctionEffect
        <5>3. QED
          BY <5>1, <5>2, OneMoreOffset
      <4>2. QED
        BY <3>1, <4>1, AddFunctionEffect DEF Recorded, AddFunction, Node
    <3>2. CASE AddDatatype
      <4>1. OffsetsOf(v.datatypes) = OffsetsOf(u.datatypes) \cup {Here}
        <5>1. u.datatypes \in Seq(Datatype) /\ v.datatypes \in Seq(Datatype)
          BY <1>1, UnitType
        <5>2. /\ Len(v.datatypes) = Len(u.datatypes) + 1
              /\ \A i \in 1 .. Len(u.datatypes) : v.datatypes[i] = u.datatypes[i]
              /\ v.datatypes[Len(u.datatypes) + 1].off = Here
          BY <3>2, AddDatatypeEffect
        <5>3. QED
          BY <5>1, <5>2, OneMoreOffset
      <4>2. QED
        BY <3>2, <4>1, AddDatatypeEffect DEF Recorded, AddDatatype, Node
    <3>3. CASE AddGlobalVariable
      <4>1. OffsetsOf(v.global_variables) = OffsetsOf(u.global_variables) \cup {Here}
        <5> DEFINE GlobalVariable == [off : Nat]
        <5>1. u.global_variables \in Seq(GlobalVariable) /\ v.global_variables \in Seq(GlobalVariable)
          BY <1>1, UnitType
        <5>2. /\ Len(v.global_variables) = Len(u.global_variables) + 1
              /\ \A i \in 1 .. Len(u.global_variables) : v.global_variables[i] = u.global_variables[i]
              /\ v.global_variables[Len(u.global_variables) + 1].off = Here
          BY <3>3, AddGlobalVariableEffect
        <5> HIDE DEF GlobalVariable
        <5>3. QED
          BY <5>1, <5>2, OneMoreOffset
      <4>2. QED
        BY <3>3, <4>1, AddGlobalVariableEffect DEF Recorded, AddGlobalVariable, Node
    <3>4. CASE AddMember \/ PassOver
      <4>1. v = u /\ debug_info[Here].depth > 2
        BY <3>4 DEF AddMember, PassOver, Node
      <4>2. ~(debug_info[Here].depth = 2)
        BY <4>1
      <4>3. QED
        BY <4>1, <4>2
    <3>5. QED
      BY <1>6, <3>1, <3>2, <3>3, <3>4
  <2> HIDE DEF v
  <2>5. Recorded(v) = {k \in r .. Here : debug_info[k].depth = 2}
    BY <1>2, <2>1, <2>3, <2>4
  <2>6. QED
    BY <1>2, <2>1, <2>2, <2>3, <2>4, <2>5 DEF v
<1>7. CASE UNCHANGED vars
  BY <1>2, <1>7 DEF vars, Here, Past
<1>8. QED
  BY <1>3, <1>4, <1>5, <1>6, <1>7 DEF Next, Throw, UnitDone

(* Of the DIEs whose units are over with this step, which stand for units  *)
(* without a fault.                                                        *)
SoundNow == {r \in (Over + 1) .. Over' : debug_info'[r].depth = 1 /\ Sound(r)'}

LEMMA SoundGrows ==
  ASSUME TypeOK, FaultInv, [Next]_vars, Over \in Nat, Over' \in Nat, Over <= Over'
  PROVE  {r \in 1 .. Over : debug_info[r].depth = 1 /\ Sound(r)}' =
           {r \in 1 .. Over : debug_info[r].depth = 1 /\ Sound(r)} \cup SoundNow
<1>1. 1 .. Over' = (1 .. Over) \cup ((Over + 1) .. Over')
  OBVIOUS
<1>2. QED
  BY <1>1, OverSame DEF SoundNow

(* The unit that is over with this step is recorded if it has no fault. *)
LEMMA UnitOver ==
  ASSUME TypeOK, OwnInv, FaultInv, [Next]_vars
  PROVE  /\ Over \in Nat /\ Over' \in Nat /\ Over <= Over'
         /\ IF UnitDone THEN SoundNow = {compile_unit.root} /\ Full(compile_unit)'
            ELSE SoundNow = {}
<1> DEFINE r == compile_unit.root
<1>1. /\ Here \in Nat /\ Here' \in Nat /\ Here <= Here'
      /\ \A j \in 1 .. Here : debug_info'[j] = debug_info[j]
  BY StepExtends DEF Extended
<1>2. walk # "unit" =>
        /\ r \in 1 .. Here /\ debug_info[r].depth = 1
        /\ \A k \in (r + 1) .. Here : debug_info[k].depth > 1
        /\ \A k \in r .. Past : Converts(debug_info[k])
        /\ Recorded(compile_unit) = {k \in r .. Past : debug_info[k].depth = 2}
  BY DEF FaultInv
<1>3. CASE NextUnit
  <2>1. PICK d \in Shapes : /\ d.depth = 1 /\ debug_info' = Append(debug_info, d)
                            /\ walk' = IF Converts(d) THEN "visit" ELSE "unit"
    BY <1>3 DEF NextUnit
  <2>2. Here' = Here + 1 /\ debug_info'[Here'] = d /\ compile_unit'.root = Here' /\ walk = "unit"
    BY <1>3, <2>1, Grows, NextUnitEffect DEF NextUnit, Node, TypeOK
  <2>3. Over = Here /\ ~UnitDone
    BY <2>2 DEF Over, UnitDone
  <2>4. CASE Converts(d)
    <3>1. Over' = Here
      <4>1. Over' = Here' - 1
        BY <2>1, <2>2, <2>4 DEF Over
      <4>2. QED
        BY <1>1, <2>2, <4>1
    <3>2. (Over + 1) .. Over' = {}
      BY <1>1, <2>3, <3>1
    <3>3. QED
      BY <1>1, <2>3, <3>1, <3>2 DEF SoundNow
  <2>5. CASE ~Converts(d)
    <3>1. Over' = Here'
      BY <2>1, <2>5 DEF Over
    <3>2. (Over + 1) .. Over' = {Here'}
      BY <1>1, <2>2, <2>3, <3>1
    <3>3. PICK h \in Nat : h = Here'
      BY <1>1
    <3>4. h \in h .. h /\ (h + 1) .. h = {}
      OBVIOUS
    <3>5. h \in UnitDies(h)'
      BY <3>3, <3>4 DEF UnitDies
    <3>6. ~Sound(h)'
      BY <2>2, <2>5, <3>3, <3>5 DEF Sound
    <3>7. SoundNow = {}
      BY <3>2, <3>3, <3>6 DEF SoundNow
    <3>8. QED
      BY <1>1, <2>2, <2>3, <3>1, <3>7
  <2>6. QED
    BY <2>4, <2>5
<1>4. CASE Throw \/ UnitDone
  <2>1. /\ walk # "unit" /\ walk' = "unit" /\ UNCHANGED <<debug_info, compile_unit, Here>>
    BY <1>4 DEF Throw, UnitDone, Here
  <2>2. Over = r - 1 /\ Over' = Here /\ r \in 1 .. Here
    BY <1>2, <2>1 DEF Over
  <2>3. /\ Over \in Nat /\ Over <= Over'
        /\ (Over + 1) .. Over' = {r} \cup ((r + 1) .. Here)
    BY <1>1, <2>2
  <2>4. \A k \in (r + 1) .. Here : debug_info[k].depth > 1 /\ ~(debug_info[k].depth = 1)
    BY <1>2, <2>1
  <2>5. UnitDies(r) = r .. Here /\ UnitDies(r)' = r .. Here
    <3>1. \A k \in r .. Here : \A j \in (r + 1) .. k : j \in (r + 1) .. Here
      BY <2>2, <1>1
    <3>2. UnitDies(r) = r .. Here
      BY <2>4, <3>1 DEF UnitDies
    <3>3. QED
      BY <2>1, <3>2 DEF UnitDies
  <2>6. CASE Throw
    <3>1. Here \in UnitDies(r)' /\ ~Converts(debug_info'[Here])
      BY <1>1, <2>1, <2>2, <2>5, <2>6 DEF Throw, Node
    <3>2. ~Sound(r)'
      BY <2>1, <3>1 DEF Sound
    <3>3. SoundNow = {}
      BY <2>1, <2>3, <2>4, <3>2 DEF SoundNow
    <3>4. ~UnitDone
      BY <2>6 DEF Throw, UnitDone
    <3>5. QED
      BY <1>1, <2>2, <2>3, <3>3, <3>4
  <2>7. CASE UnitDone
    <3>1. Past = Here
      BY <2>7 DEF UnitDone, Past
    <3>2. Sound(r)' /\ debug_info'[r].depth = 1
      BY <1>2, <2>1, <2>5, <3>1 DEF Sound
    <3>3. SoundNow = {r}
      BY <2>1, <2>3, <2>4, <3>2 DEF SoundNow
    <3>4. Full(compile_unit)'
      BY <1>2, <2>1, <2>5, <3>1 DEF Full
    <3>5. QED
      BY <1>1, <2>2, <2>3, <2>7, <3>3, <3>4
  <2>8. QED
    BY <1>4, <2>6, <2>7
<1>5. CASE \/ Visit \/ SaveMember \/ AssignMembers \/ ClearMembers \/ AddFunction
           \/ AddGlobalVariable \/ AddDatatype \/ AddMember \/ PassOver
  <2>1. walk # "unit" /\ walk' # "unit" /\ ~UnitDone
    BY <1>5 DEF Visit, SaveMember, AssignMembers, ClearMembers, AddFunction, AddGlobalVariable,
       AddDatatype, AddMember, PassOver, UnitDone
  <2>2. compile_unit'.root = r
    BY <1>5, SaveMemberEffect, AssignMembersEffect, AddFunctionEffect, AddGlobalVariableEffect,
       AddDatatypeEffect DEF Visit, ClearMembers, AddMember, PassOver
  <2>3. Over = r - 1 /\ Over' = r - 1 /\ r \in 1 .. Here
    BY <1>2, <2>1, <2>2 DEF Over
  <2>4. Over \in Nat /\ Over' \in Nat /\ (Over + 1) .. Over' = {} /\ Over <= Over'
    BY <1>1, <2>3
  <2>5. QED
    BY <2>1, <2>4 DEF SoundNow
<1>6. CASE UNCHANGED vars
  <2>1. Over' = Over /\ ~UnitDone
    BY <1>6 DEF vars, Over, Here, UnitDone
  <2>2. Over = Here \/ (r \in 1 .. Here /\ Over = r - 1)
    BY <1>2 DEF Over
  <2>3. Over \in Nat
    BY <1>1, <2>2
  <2>4. (Over + 1) .. Over' = {} /\ Over <= Over' /\ Over' \in Nat
    BY <2>1, <2>3
  <2>5. QED
    BY <2>1, <2>3, <2>4 DEF SoundNow
<1>7. QED
  BY <1>3, <1>4, <1>5, <1>6 DEF Next

LEMMA StepFaultInv == TypeOK /\ OwnInv /\ FaultInv /\ [Next]_vars => FaultInv'
<1> SUFFICES ASSUME TypeOK, OwnInv, FaultInv, [Next]_vars
             PROVE  FaultInv'
  OBVIOUS
<1> DEFINE us == m_compile_units
           Roots == {us[i].root : i \in 1 .. Len(us)}
<1>1. /\ us \in Seq(Unit) /\ Len(us) \in Nat /\ compile_unit \in Unit
      /\ \A i \in 1 .. Len(us) : us[i] \in Unit
  BY LenProperties, ElementOfSeq DEF TypeOK
<1>2. /\ Over \in Nat /\ Over' \in Nat /\ Over <= Over'
      /\ IF UnitDone THEN SoundNow = {compile_unit.root} /\ Full(compile_unit)'
         ELSE SoundNow = {}
  BY UnitOver
<1>3. {r \in 1 .. Over : debug_info[r].depth = 1 /\ Sound(r)}' = Roots \cup SoundNow
  BY <1>2, SoundGrows DEF FaultInv
<1>4. ASSUME NEW i \in 1 .. Len(us), NEW u, u = us[i]
      PROVE  Full(u)'
  <2>1. u.root \in 1 .. Over /\ Full(u)
    BY <1>4 DEF FaultInv
  <2>2. QED
    BY <2>1, OverSame DEF Full
<1>5. Roots' = Roots \cup SoundNow /\ \A i \in 1 .. Len(us') : \A u : u = us'[i] => Full(u)'
  <2>1. CASE UnitDone
    <3>1. /\ Len(us') = Len(us) + 1
          /\ \A i \in 1 .. Len(us) : us'[i] = us[i]
          /\ us'[Len(us) + 1] = compile_unit
      BY <1>1, <2>1, AppendProperties DEF UnitDone
    <3>2. 1 .. Len(us') = (1 .. Len(us)) \cup {Len(us) + 1}
      BY <1>1, <3>1
    <3>3. Roots' = Roots \cup {compile_unit.root}
      BY <3>1, <3>2
    <3>4. ASSUME NEW i \in 1 .. Len(us'), NEW u, u = us'[i]
          PROVE  Full(u)'
      <4>1. (i \in 1 .. Len(us) /\ u = us[i]) \/ u = compile_unit
        BY <3>1, <3>2, <3>4
      <4>2. CASE u = compile_unit
        <5>1. compile_unit' = compile_unit
          BY <2>1 DEF UnitDone
        <5>2. QED
          BY <1>2, <2>1, <4>2, <5>1 DEF Full
      <4>3. QED
        BY <1>4, <4>1, <4>2
    <3>5. QED
      BY <1>2, <2>1, <3>3, <3>4
  <2>2. CASE ~UnitDone
    <3>1. us' = us
      BY <2>2 DEF Next, vars, NextUnit, Visit, SaveMember, AssignMembers, ClearMembers,
         AddFunction, AddGlobalVariable, AddDatatype, AddMember, PassOver, Throw
    <3>2. QED
      BY <1>2, <1>4, <2>2, <3>1
  <2>3. QED
    BY <2>1, <2>2
<1>6. QED
  BY <1>3, <1>5, FilledUnitSound DEF FaultInv

(***************************************************************************)
(* Whatever the debug information, an attribute std::stol cannot convert   *)
(* costs its own unit and no other: the walk of get_compile_units keeps    *)
(* exactly the units without one, with every DIE of depth 2.               *)
(***************************************************************************)
THEOREM FaultsStayInTheirUnit == Spec => []FaultsContained
<1>1. Init => FaultInv
  <2> SUFFICES ASSUME Init
               PROVE  FaultInv
    OBVIOUS
  <2>1. Len(m_compile_units) = 0 /\ Over = 0 /\ 1 .. 0 = {} /\ walk = "unit"
    BY EmptySeq DEF Init, Over, Here
  <2>2. QED
    BY <2>1 DEF FaultInv
<1>2. TypeOK /\ OwnInv /\ FaultInv /\ [Next]_vars => FaultInv'
  BY StepFaultInv
<1>3. TypeOK /\ FaultInv => FaultsContained
  <2>1. TypeOK => DOMAIN m_compile_units = 1 .. Len(m_compile_units)
    BY LenProperties DEF TypeOK
  <2>2. QED
    BY <2>1 DEF FaultInv, FaultsContained, Over, Sound, Full
<1>4. Init => OwnInv
  BY InitOwnInv
<1>5. TypeOK /\ OwnInv /\ [Next]_vars => OwnInv'
  BY StepOwnInv
<1>6. QED
  BY WalkTypeCorrect, <1>1, <1>2, <1>3, <1>4, <1>5, PTL DEF Spec
=============================================================================
