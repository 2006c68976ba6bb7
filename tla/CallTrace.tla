------------------------------ MODULE CallTrace -----------------------------
(***************************************************************************)
(* What the debugger promises of a debuggee, with no breakpoint, no ptrace *)
(* and no signal in sight: the program, its main thread if it has others,  *)
(* takes its own steps, the ones it would take alone, and each call it     *)
(* makes of a traced function is announced exactly once, in order, before  *)
(* the function's first instruction is executed.                           *)
(***************************************************************************)
EXTENDS Sequences

CONSTANTS Succ,   (* Control flow: the successors of each instruction.     *)
          Entry   (* Where the program starts.                             *)

VARIABLES
  phase,    (* "setup": functions are being chosen; "run"; "over".         *)
  traced,   (* The first instructions of the functions chosen.             *)
  pc,       (* The instruction the program executes next.                  *)
  entered,  (* The traced functions entered so far, in order.              *)
  log       (* The calls announced so far, in order.                       *)

vars == <<phase, traced, pc, entered, log>>

Init == /\ phase \in {"setup", "over"}
        /\ traced = {}
        /\ pc = Entry
        /\ entered = << >>
        /\ log = << >>

(* Before the program runs, a function is chosen for tracing. *)
Choose(a) == /\ phase = "setup"
             /\ traced' = traced \cup {a}
             /\ UNCHANGED <<phase, pc, entered, log>>

Start == /\ phase = "setup"
         /\ phase' = "run"
         /\ UNCHANGED <<traced, pc, entered, log>>

(* The program is about to enter a traced function: say so, once. *)
Announce == /\ phase = "run"
            /\ pc \in traced
            /\ log = entered
            /\ log' = Append(log, pc)
            /\ UNCHANGED <<phase, traced, pc, entered>>

(* The program executes one instruction of its own; the first one of a     *)
(* traced function only when the call has been announced.                  *)
Execute == /\ phase = "run"
           /\ pc \in traced => log = Append(entered, pc)
           /\ entered' = IF pc \in traced THEN Append(entered, pc) ELSE entered
           /\ pc' \in Succ[pc]
           /\ UNCHANGED <<phase, traced, log>>

(* The program or the debugger is gone.  Nothing more is said of either,   *)
(* except that the log stays as it is.                                     *)
Stop == /\ phase' = "over"
        /\ UNCHANGED <<traced, entered, log>>

Next == (\E a \in DOMAIN Succ : Choose(a)) \/ Start \/ Announce \/ Execute \/ Stop

Spec == Init /\ [][Next]_vars
=============================================================================
