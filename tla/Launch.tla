------------------------------- MODULE Launch -------------------------------
(***************************************************************************)
(* From main to the first breakpoint (src/main.cc, run_debuggee and the    *)
(* beginning of run() in src/debugger_manager.cc, the constructor in       *)
(* src/debugger_manager.hpp): two processes that share nothing but         *)
(* ptrace's stops and each other's death.  The child gets ready to be      *)
(* traced and becomes the program; the parent reads the program's file,    *)
(* which it opens by itself, waits for the child's first stop, and         *)
(* disassembles the file.  Where Launch ends, at "plant", Debugger goes on *)
(* from its own "plant".                                                   *)
(***************************************************************************)
EXTENDS Disassembler, FiniteSets

CONSTANTS
  Files,     (* What the command line may name: for Disassembler's fields  *)
             (* and opens, execs (open and execvp find it; execvp searches *)
             (* PATH, open does not), elf (it is one), info (it has debug  *)
             (* information).                                              *)
  Signals,   (* What the world may send to the child.                      *)
  MaxSignals (* Bound: how many.                                           *)

(* No instruction is empty; code is what the file's own bytes decode to,   *)
(* and a segment's bytes are the file's.                                   *)
ASSUME LaunchAssumption ==
  /\ Junk \subseteq Nat
  /\ Longest \in Nat \ {0}
  /\ \A around \in Surroundings : \A o \in DOMAIN around :
       o \in Int /\ around[o].len \in 1 .. Longest
  /\ \A f \in Files :
       /\ f.entry \in Nat
       /\ f.size \in Nat
       /\ f.hdrs \in Seq([load : BOOLEAN, offset : Nat, vaddr : Nat, filesz : Nat, memsz : Nat])
       /\ \A i \in DOMAIN f.hdrs : f.hdrs[i].offset + f.hdrs[i].filesz <= f.size
       /\ \A o \in DOMAIN f.code :
            o \in Nat /\ f.code[o].len \in 1 .. Longest /\ o + f.code[o].len <= f.size

VARIABLES
  (* the parent: main and Debugger *)
  parent,    (* Where its code stands.                                     *)
  file,      (* program_path.                                              *)
  m_debug_info,
  text,      (* text_section_t.                                            *)
  dis_insns, (* What cs_disasm found and the loop has not looked at.       *)
  branch_instructions,
  (* the child *)
  child,     (* Where its code stands; "program": execvp has succeeded.    *)
  task,      (* "none", "running", "stopped", "zombie".                    *)
  why,       (* The last stop: "exec", "user" (a SIGTRAP sent), "signal".  *)
  tracer,    (* "none", "debugger", or "reaper", its new parent.           *)
  persona,   (* Its execution domain's flags.                              *)
  pdeathsig, (* PR_SET_PDEATHSIG is in force.                              *)
  sent       (* Signals sent.                                              *)

analysis  == <<m_debug_info, text, dis_insns, branch_instructions>>
parentv   == <<parent, file, analysis>>
childv    == <<child, task, why, tracer, persona, pdeathsig, sent>>
vars      == <<parentv, childv>>

(* exit_fork, exit_signal, exit_symbols, exit_text: main returns, or exit  *)
(* is called; abort: an exception leaves main, or SIGSEGV.                 *)
Ended == {"exit_fork", "exit_signal", "exit_symbols", "exit_text", "abort", "gone"}

-----------------------------------------------------------------------------
(***************************************************************************)
(* The child.                                                              *)
(***************************************************************************)

(* personality(p) replaces the flags that were there. *)
SetPersona(from, p, to) ==
  /\ task = "running" /\ child = from
  /\ persona' = {p}
  /\ child' = to
  /\ UNCHANGED <<task, why, tracer, pdeathsig, sent, parentv>>

Personality == \/ SetPersona("personality", "no_randomize", "personality2")
               \/ SetPersona("personality2", "compat_layout", "traceme")

(* Faulty variant: a failure is only reported. *)
TraceMe_GoOn ==
  /\ task = "running" /\ child = "traceme"
  /\ \/ tracer' = IF parent = "gone" THEN "reaper" ELSE "debugger"
     \/ UNCHANGED tracer
  /\ child' = "prctl"
  /\ UNCHANGED <<task, why, persona, pdeathsig, sent, parentv>>

(* PTRACE_TRACEME asks for the parent of the moment.  If it fails,         *)
(* run_debuggee returns and so does main.  PTRACE_SETOPTIONS, called next  *)
(* by the child on pid 0, always fails and is not looked at.               *)
TraceMe ==
  /\ task = "running" /\ child = "traceme"
  /\ \/ /\ tracer' = IF parent = "gone" THEN "reaper" ELSE "debugger"
        /\ child' = "prctl"
        /\ UNCHANGED task
     \/ /\ task' = "zombie"
        /\ UNCHANGED <<tracer, child>>
  /\ UNCHANGED <<why, persona, pdeathsig, sent, parentv>>

Prctl ==
  /\ task = "running" /\ child = "prctl"
  /\ pdeathsig' = TRUE
  /\ child' = "exec"
  /\ UNCHANGED <<task, why, tracer, persona, sent, parentv>>

(* execvp: a traced program stops before its first instruction.  If it     *)
(* returns, so do run_debuggee and main.                                   *)
Exec ==
  /\ task = "running" /\ child = "exec"
  /\ \/ /\ file.execs
        /\ child' = "program"
        /\ IF tracer = "none" THEN UNCHANGED <<task, why>> ELSE task' = "stopped" /\ why' = "exec"
     \/ /\ ~file.execs
        /\ task' = "zombie"
        /\ UNCHANGED <<child, why>>
  /\ UNCHANGED <<tracer, persona, pdeathsig, sent, parentv>>

Child == Personality \/ TraceMe \/ Prctl \/ Exec

(* A signal: a traced process stops, another ends. *)
Deliver(s) ==
  /\ task = "running" \/ (task = "stopped" /\ s = "kill")
  /\ sent < MaxSignals
  /\ sent' = sent + 1
  /\ IF tracer # "none" /\ s # "kill"
     THEN task' = "stopped" /\ why' = IF s = "trap" THEN "user" ELSE "signal"
     ELSE task' = "zombie" /\ UNCHANGED why
  /\ UNCHANGED <<child, tracer, persona, pdeathsig, parentv>>

(* The program, when it runs, may end by itself. *)
ProgramEnds ==
  /\ child = "program" /\ task = "running"
  /\ task' = "zombie"
  /\ UNCHANGED <<child, why, tracer, persona, pdeathsig, sent, parentv>>

World == (\E s \in Signals : Deliver(s)) \/ ProgramEnds

-----------------------------------------------------------------------------
(***************************************************************************)
(* The parent.                                                             *)
(***************************************************************************)

(* main: fork. *)
Fork ==
  /\ parent = "fork"
  /\ \/ parent' = "open" /\ child' = "personality" /\ task' = "running"
     \/ parent' = "exit_fork" /\ UNCHANGED <<child, task>>
  /\ UNCHANGED <<file, analysis, why, tracer, persona, pdeathsig, sent>>

(* The constructor: open is not checked, the ELF loader it feeds throws.   *)
Open ==
  /\ parent = "open"
  /\ parent' = IF file.opens /\ file.elf THEN "dwarf" ELSE "abort"
  /\ UNCHANGED <<file, analysis, childv>>

(* m_dwarf is constructed twice, and only the second time within the try:  *)
(* what the second could catch the first has thrown.                       *)
Dwarf ==
  /\ parent = "dwarf"
  /\ \/ file.info /\ m_debug_info' = TRUE /\ parent' = "wait"
     \/ ~file.info /\ parent' = "abort" /\ UNCHANGED m_debug_info
  /\ UNCHANGED <<file, text, dis_insns, branch_instructions, childv>>

(* Faulty variant: any stop will do. *)
Wait_Any ==
  /\ parent = "wait" /\ task \in {"stopped", "zombie"}
  /\ parent' = "check"
  /\ UNCHANGED <<file, analysis, childv>>

(* Faulty variant: another signal's stop is waited out. *)
Wait_Ignore ==
  /\ parent = "wait" /\ task \in {"stopped", "zombie"}
  /\ ~(task = "stopped" /\ why = "signal")
  /\ parent' = "check"
  /\ UNCHANGED <<file, analysis, childv>>

(* wait_for_signal (see Debugger). *)
Wait ==
  /\ parent = "wait" /\ task \in {"stopped", "zombie"}
  /\ parent' = IF task = "stopped" /\ why = "signal" THEN "exit_signal" ELSE "check"
  /\ UNCHANGED <<file, analysis, childv>>

(* "No Symbols found!" *)
Check ==
  /\ parent = "check"
  /\ parent' = IF m_debug_info THEN "text" ELSE "exit_symbols"
  /\ UNCHANGED <<file, analysis, childv>>

(* get_symbols (SymAddrs in Debugger), then get_text_section, whose open,  *)
(* fstat and mmap may fail.                                                *)
GetText ==
  /\ parent = "text"
  /\ \/ text' \in TextSections(file) /\ parent' = "disassemble"
     \/ parent' = "exit_text" /\ UNCHANGED text
  /\ UNCHANGED <<file, m_debug_info, dis_insns, branch_instructions, childv>>

(* get_disassembled_instructions up to its loop: capstone may fail to      *)
(* open; outside the file's mapping it finds whatever is there, or         *)
(* nothing, which is a SIGSEGV.                                            *)
Disassemble ==
  /\ parent = "disassemble"
  /\ \/ parent' = "plant" /\ UNCHANGED dis_insns
     \/ Overruns(file, text) /\ parent' = "abort" /\ UNCHANGED dis_insns
     \/ \E around \in Surroundings :
          /\ dis_insns' = cs_disasm(With(file, around), text)
          /\ parent' = "filter"
  /\ UNCHANGED <<file, m_debug_info, text, branch_instructions, childv>>

(* Faulty variant: the loop looks at the same instruction again. *)
Filter_Stay ==
  /\ parent = "filter"
  /\ \/ /\ dis_insns # << >>
        /\ branch_instructions' = branch_instructions \o Filtered(Head(dis_insns))
        /\ UNCHANGED <<parent, dis_insns>>
     \/ /\ dis_insns = << >>
        /\ parent' = "plant"
        /\ UNCHANGED <<dis_insns, branch_instructions>>
  /\ UNCHANGED <<file, m_debug_info, text, childv>>

(* Its loop. *)
Filter ==
  /\ parent = "filter"
  /\ \/ /\ dis_insns # << >>
        /\ branch_instructions' = branch_instructions \o Filtered(Head(dis_insns))
        /\ dis_insns' = Tail(dis_insns)
        /\ UNCHANGED parent
     \/ /\ dis_insns = << >>
        /\ parent' = "plant"
        /\ UNCHANGED <<dis_insns, branch_instructions>>
  /\ UNCHANGED <<file, m_debug_info, text, childv>>

(* The kernel at the end of the parent: a traced child goes on, and gets a *)
(* SIGHUP, which ends it unless it is ignored, if it has asked for one.    *)
Exit ==
  /\ parent \in Ended \ {"gone"}
  /\ parent' = "gone"
  /\ \/ pdeathsig /\ task \in {"running", "stopped"} /\ task' = "zombie"
     \/ task' = IF task = "stopped" THEN "running" ELSE task
  /\ tracer' = "none"
  /\ UNCHANGED <<file, analysis, child, why, persona, pdeathsig, sent>>

Parent == \/ Fork \/ Open \/ Dwarf \/ Wait \/ Check \/ GetText \/ Disassemble \/ Filter
          \/ Exit

-----------------------------------------------------------------------------
Init ==
  /\ parent = "fork"
  /\ file \in Files
  /\ m_debug_info = FALSE
  /\ text = [offset |-> 0, size |-> 0]
  /\ dis_insns = << >>
  /\ branch_instructions = << >>
  /\ child = "none"
  /\ task = "none"
  /\ why = "none"
  /\ tracer = "none"
  /\ persona = {}
  /\ pdeathsig = FALSE
  /\ sent = 0

Next == Child \/ World \/ Parent

Spec == Init /\ [][Next]_vars

(* Both processes are scheduled; nothing obliges the world to act. *)
FairSpec == Spec /\ WF_vars(Child) /\ WF_vars(Parent)

-----------------------------------------------------------------------------
(***************************************************************************)
(* Properties.                                                             *)
(***************************************************************************)

(* The type invariant. *)
TypeOK ==
  /\ parent \in {"fork", "open", "dwarf", "wait", "check", "text", "disassemble", "filter",
                 "plant"} \cup Ended
  /\ file \in Files
  /\ m_debug_info \in BOOLEAN
  /\ text.size >= 0
  /\ Len(branch_instructions) + Len(dis_insns) <= text.size
  /\ child \in {"none", "personality", "personality2", "traceme", "prctl", "exec", "program"}
  /\ task \in {"none", "running", "stopped", "zombie"}
  /\ why \in {"none", "exec", "user", "signal"}
  /\ tracer \in {"none", "debugger", "reaper"}
  /\ persona \subseteq {"no_randomize", "compat_layout"}
  /\ pdeathsig \in BOOLEAN
  /\ sent \in Nat

(* The first wait of run(): breakpoints are planted in the program, before *)
(* its first instruction, or the debuggee has ended, as in Debugger's      *)
(* initial states; not while it runs, and not in the copy of the debugger  *)
(* that will become it.  It takes a world that sends no SIGTRAP before.    *)
PlantsInProgram ==
  parent = "plant" =>
    task = "zombie" \/ (task = "stopped" /\ child = "program" /\ why = "exec")

(* run_debuggee: while the debugger has not ended, the program executes    *)
(* nothing.                                                                *)
NothingRunsUntraced == child = "program" /\ task = "running" => parent \in Ended

(* run() on a program without debug information: "[*] No Symbols found!    *)
(* ... Exiting", and not an exception that nothing catches.                *)
NoSymbolsSaid == file.opens /\ file.elf /\ ~file.info => parent # "abort"

(* The segments the loader puts as far behind the beginning of the file as *)
(* they lie in it, if a segment begins with the file.                      *)
InPlace(f) ==
  LET segments == {f.hdrs[i] : i \in {i \in DOMAIN f.hdrs : f.hdrs[i].load}}
      starts == {h \in segments : h.offset = 0}
  IN  {s \in segments : starts # {} /\ \A h \in starts : s.vaddr - s.offset = h.vaddr}

(* The instruction lies in the bytes that s has of the file. *)
LiesIn(insn, s) == s.vaddr <= insn.address /\ insn.address + insn.len <= s.vaddr + s.filesz

(* get_text_section and filter_branch_instruction: no branch is recorded   *)
(* twice, and one recorded at an address of such a segment is the          *)
(* segment's, whatever the text taken reaches into besides: it begins      *)
(* somewhere else than the segment it takes its length from, so it goes on *)
(* into other segments, bytes that are not loaded, or memory behind the    *)
(* file.                                                                   *)
BranchesReal ==
  \A k \in DOMAIN branch_instructions :
    LET b == branch_instructions[k] IN
      /\ \A j \in DOMAIN branch_instructions : j < k => branch_instructions[j].address < b.address
      /\ \A s \in InPlace(file) : LiesIn(b, s) =>
           LET o == b.address - s.vaddr + s.offset IN
             o \in DOMAIN file.code /\ file.code[o].mnemonic = b.mnemonic

(* A child that has stopped is waited for, or released by the debugger's   *)
(* end, wherever that comes.  Only one that has asked to be traced when    *)
(* its parent was gone stays stopped.                                      *)
StopNoticed ==
  task = "stopped" /\ tracer = "debugger" ~> parent = "plant" \/ task # "stopped"

(* main.cc on its first call of personality: "disable address-space-layout *)
(* randomization (ASLR)".                                                  *)
AslrDisabled == child = "program" => "no_randomize" \in persona
=============================================================================
