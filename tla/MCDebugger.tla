----------------------------- MODULE MCDebugger -----------------------------
(***************************************************************************)
(* A small program for Debugger: words of three bytes, so that the words   *)
(* of neighbouring breakpoints overlap.                                    *)
(*                                                                         *)
(*   1      main, entered first                                            *)
(*   2      main's body: calls f or g, runs into the int3, or leaves       *)
(*   3      f, one instruction that falls into g                           *)
(*   4, 5   g, whose second instruction returns                            *)
(*   6      an int3 of the program's own                                   *)
(*   7      exit, or execve of the same program                            *)
(*   8      the last mapped byte, not part of an instruction               *)
(***************************************************************************)
EXTENDS Debugger

MCAddr == 1 .. 8
MCByte == {0, 204, 255} \cup 11 .. 18
MCText == <<11, 12, 13, 14, 15, 204, 17, 18>>
MCInstr == 1 .. 7
MCSucc == <<{2}, {3, 4, 6, 7}, {4}, {5}, {2}, {7}, {}>>

MCExecve == {7}

MCSymbols ==
  {[type |-> "func", value |-> a] : a \in {0, 1, 3, 4, 9}} \cup
  {[type |-> "object", value |-> 5]}

Function(low_pc, named, decl_line) ==
  [low_pc |-> low_pc, named |-> named, decl_line |-> decl_line, structs |-> low_pc = 4]

(* An unnamed function, one without an address, an object's address, f     *)
(* twice (two units), and one, g, whose declaration line was never set and *)
(* which takes a structure.                                                *)
MCFuncs ==
  << Function(1, TRUE, "set"),
     Function(4, FALSE, "set"),
     Function(3, TRUE, "set"),
     Function(0, TRUE, "set"),
     Function(5, TRUE, "set"),
     Function(3, TRUE, "set"),
     Function(4, TRUE, "unset") >>

(* The last function's symbol is not in mapped memory (a PIE executable):  *)
(* whether the program is traced depends on an uninitialised field.        *)
MCFuncsUnmapped == Append(MCFuncs, Function(9, TRUE, "unset"))
=============================================================================
