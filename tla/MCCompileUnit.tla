---------------------------- MODULE MCCompileUnit ---------------------------
(***************************************************************************)
(* Debug information for CompileUnit: every arrangement of these DIEs.     *)
(***************************************************************************)
EXTENDS CompileUnit

Shape(tag, depth, code, odd) == [tag |-> tag, depth |-> depth, code |-> code, odd |-> odd]

MCNesting ==
  ({"compile_unit"} \X {"subprogram", "variable", "structure_type"}) \cup
  ({"subprogram", "inlined_subroutine"} \X
     {"formal_parameter", "unspecified_parameters", "variable", "inlined_subroutine"}) \cup
  ({"structure_type"} \X {"member", "subprogram"})

(* Functions with and without code, with parameters of their own and of    *)
(* inlined calls, structures with members and methods, variables.  Odd     *)
(* values: some that are converted (the end of a unit, the line of a       *)
(* global variable, the place of a member) and some that are not (the size *)
(* of a function, the line of a method, the start of an inlined call).     *)
MCShapes ==
  {Shape("compile_unit", 1, "none", odd) : odd \in {"none", "high_pc"}} \cup
  {Shape("subprogram", 2, code, "none") : code \in {"low_pc", "inline"}} \cup
  {Shape("subprogram", 2, "none", "byte_size")} \cup
  {Shape("variable", 2, "none", odd) : odd \in {"none", "decl_line"}} \cup
  {Shape("structure_type", 2, "none", "none")} \cup
  {Shape(tag, 3, "none", "none") :
     tag \in {"formal_parameter", "unspecified_parameters", "variable"}} \cup
  {Shape("inlined_subroutine", 3, "none", "low_pc")} \cup
  {Shape("subprogram", 3, "none", "decl_line")} \cup
  {Shape("member", 3, "none", odd) : odd \in {"none", "data_member_location"}} \cup
  {Shape("formal_parameter", 4, "none", "none")}
=============================================================================
