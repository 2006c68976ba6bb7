------------------------------ MODULE Debugger ------------------------------
(***************************************************************************)
(* poc::debugger::Debugger (src/debugger_manager.cc) at work: the debugger *)
(* process plants breakpoints in the stopped debuggee and then loops over  *)
(* continue, wait, step over.  One action is one stretch of its code       *)
(* between two places where the rest of the world can be noticed: a        *)
(* waitpid, or a ptrace call that fails when the debuggee has died.        *)
(*                                                                         *)
(* The rest of the world is external to src/: the kernel's ptrace stops,   *)
(* the debuggee's own instructions, its other threads, the signals it is   *)
(* sent.  PTRACE_SETOPTIONS is called by the debuggee itself with pid 0    *)
(* (run_debuggee), which always fails, so no option is in force: threads   *)
(* are not attached, and the debuggee is not killed with its debugger.     *)
(***************************************************************************)
EXTENDS Breakpoint, Sequences, FiniteSets

CONSTANTS
  Text,      (* The program's text, a byte per address.                    *)
  Instr,     (* The addresses at which its instructions start.             *)
  Succ,      (* The successors of each instruction; none: it exits.        *)
  Entry,     (* Where the program starts.                                  *)
  Execve,    (* The instructions that may replace the program by a fresh   *)
             (* copy of itself.                                            *)
  Symbols,   (* The entries of .symtab and .dynsym: [type, value].         *)
  Funcs,     (* The functions of all compile units, in order:              *)
             (* [low_pc, named, decl_line, structs]; decl_line is "unset"  *)
             (* when the field is never assigned, structs tells whether a  *)
             (* parameter's type leads to a structure (see Payload).       *)
  Helpers,   (* Threads the debuggee may start.                            *)
  Signals,   (* What the world may send: "kill", "trap", "other".          *)
  MaxSignals,(* Bound: signals sent, SIGKILL apart.                        *)
  MaxInstr   (* Bound: instructions executed by all threads.               *)

VARIABLES
  (* the debuggee and the kernel's view of it *)
  task,      (* "running", "stepping", "stopped", "zombie", "reaped";      *)
             (* "orphan": alive, and its debugger has exited.              *)
  why,       (* si_code of the last stop: "exec", "brkpt", "trace",        *)
             (* "user" (a SIGTRAP somebody sent), "signal" (not SIGTRAP).  *)
  rip,       (* The main thread's program counter.                         *)
  mem,       (* Text memory.                                               *)
  hrip,      (* Each other thread's program counter, 0: not started.       *)
  fate,      (* What ended the debuggee.                                   *)
  steps,     (* Instructions executed so far.                              *)
  sent,      (* Signals sent so far.                                       *)
  entered,   (* History: traced functions entered until execed.            *)
  execed,    (* The debuggee's memory is not the one that was planted.     *)
  (* the debugger *)
  dbg,       (* Where its code stands.                                     *)
  next_fn,   (* The function set_all_function_breakpoints looks at.        *)
  bps,       (* Breakpoint::m_breakpoints.                                 *)
  bp,        (* possible_breakpoint_location.                              *)
  log        (* The calls printed so far, by function address.             *)

others   == <<hrip, fate, steps, sent, entered, execed>> (* ptrace never touches these *)
tracee   == <<task, why, rip, mem, others>>
book     == <<next_fn, bps, bp, log>>
debugger == <<dbg, book>>
vars     == <<tracee, debugger>>

(* m_symbols_map: the functions among the symbols, keyed by value. *)
SymAddrs == {s.value : s \in {x \in Symbols : x.type = "func" /\ x.value > 0}}

ASSUME DebuggerAssumption ==
  /\ Text \in [Addr -> Byte]
  /\ 0 \in Byte
  /\ Instr \subseteq Addr
  /\ Succ \in [Instr -> SUBSET Instr]
  /\ Entry \in Instr
  /\ Execve \subseteq Instr
  /\ Funcs \in Seq([low_pc : Nat, named : BOOLEAN, decl_line : {"zero", "set", "unset"},
                     structs : BOOLEAN])
  /\ MaxInstr \in Nat
  /\ MaxSignals \in Nat
  /\ Signals \subseteq {"kill", "trap", "other"}

(* Function symbols of mapped text lie on instructions, none of them an    *)
(* int3 or a system call; an int3 of the program's own falls through; no   *)
(* function begins one byte before the entry point.                        *)
ASSUME ProgramAssumption ==
  /\ Entry - 1 \notin SymAddrs
  /\ SymAddrs \cap Execve = {}
  /\ \A a \in SymAddrs \cap Addr : a \in Instr /\ Text[a] # INT3
  /\ \A a \in Instr : Text[a] = INT3 => Succ[a] = {a + 1}

(* Where the debugger's code stands.                                       *)
Setup == {"start", "plant"}
Loop  == {"cont", "wait", "inspect", "report", "rewind", "disable", "step", "stepwait", "enable"}
Ended == {"exit_signal", "exit_regs", "abort"}

Alive == {"running", "stepping", "stopped"}

-----------------------------------------------------------------------------
(***************************************************************************)
(* The debuggee (external).                                                *)
(***************************************************************************)

Running == task \in {"running", "stepping"}

Planted(a) == a \in DOMAIN bps

(* After an instruction: a single-stepped task stops, another runs on.     *)
AfterStep ==
  \/ task = "stepping" /\ task' = "stopped" /\ why' = "trace"
  \/ task = "running" /\ UNCHANGED <<task, why>>

(* The main thread executes the program's instruction at rip. *)
TraceeStep ==
  /\ Running /\ rip \in Instr /\ steps < MaxInstr
  /\ mem[rip] # INT3
  /\ rip' \in Succ[rip]
  /\ steps' = steps + 1
  /\ entered' = IF Planted(rip) /\ ~execed THEN Append(entered, rip) ELSE entered
  /\ AfterStep
  /\ UNCHANGED <<mem, hrip, fate, sent, execed, debugger>>

(* It meets an int3, planted or its own: SIGTRAP, with rip one past it.    *)
TraceeTrap ==
  /\ Running /\ rip \in Instr /\ mem[rip] = INT3
  /\ rip' = rip + 1
  /\ task' = "stopped" /\ why' = "brkpt"
  /\ UNCHANGED <<mem, hrip, fate, steps, sent, entered, execed, debugger>>

(* It calls execve, with itself for the new program: memory is what the    *)
(* file says, other threads are gone, and, PTRACE_O_TRACEEXEC not being in *)
(* force, a SIGTRAP stops it before its first instruction.                 *)
TraceeExec ==
  /\ Running /\ rip \in Execve /\ steps < MaxInstr
  /\ mem[rip] # INT3
  /\ mem' = Text
  /\ rip' = Entry
  /\ hrip' = [h \in Helpers |-> 0]
  /\ execed' = TRUE
  /\ steps' = steps + 1
  /\ task' = "stopped" /\ why' = "exec"
  /\ UNCHANGED <<fate, sent, entered, debugger>>

(* It exits; also the end of the bounded execution. *)
TraceeExit ==
  /\ Running /\ rip \in Instr
  /\ mem[rip] # INT3
  /\ Succ[rip] = {} \/ steps = MaxInstr
  /\ task' = "zombie" /\ fate' = "exit"
  /\ UNCHANGED <<why, rip, mem, hrip, steps, sent, entered, execed, debugger>>

(* clone(): the new thread is not traced, no option asks for it. *)
HelperStart(h) ==
  /\ Running /\ hrip[h] = 0
  /\ \E a \in Instr : hrip' = [hrip EXCEPT ![h] = a]
  /\ UNCHANGED <<task, why, rip, mem, fate, steps, sent, entered, execed, debugger>>

(* Another thread takes a step, whatever ptrace does to the main thread.   *)
HelperStep(h) ==
  /\ task \in Alive /\ hrip[h] \in Instr /\ steps < MaxInstr
  /\ mem[hrip[h]] # INT3
  /\ \E a \in Succ[hrip[h]] : hrip' = [hrip EXCEPT ![h] = a]
  /\ steps' = steps + 1
  /\ UNCHANGED <<task, why, rip, mem, fate, sent, entered, execed, debugger>>

(* Another thread meets an int3: with no tracer to stop for, the SIGTRAP   *)
(* takes its default action and ends the process.                          *)
HelperTrap(h) ==
  /\ task \in Alive /\ hrip[h] \in Instr /\ mem[hrip[h]] = INT3
  /\ task' = "zombie" /\ fate' = "int3"
  /\ UNCHANGED <<why, rip, mem, hrip, steps, sent, entered, execed, debugger>>

(* A signal reaches the main thread, which stops before its next           *)
(* instruction, single-stepped or not.                                     *)
Deliver(s) ==
  /\ s \in Signals \ {"kill"} /\ sent < MaxSignals
  /\ Running
  /\ task' = "stopped" /\ why' = (IF s = "trap" THEN "user" ELSE "signal")
  /\ sent' = sent + 1
  /\ UNCHANGED <<rip, mem, hrip, fate, steps, entered, execed, debugger>>

(* SIGKILL acts on a stopped task too. *)
Kill ==
  /\ "kill" \in Signals
  /\ task \in Alive
  /\ task' = "zombie" /\ fate' = "sigkill"
  /\ UNCHANGED <<why, rip, mem, hrip, steps, sent, entered, execed, debugger>>

(* The debugger has exited: the kernel detaches its tracee and lets it run.*)
Detach ==
  /\ dbg \in Ended /\ task \in Alive
  /\ task' = "orphan"
  /\ UNCHANGED <<why, rip, mem, hrip, fate, steps, sent, entered, execed, debugger>>

OrphanStep ==
  /\ task = "orphan" /\ rip \in Instr /\ steps < MaxInstr
  /\ mem[rip] # INT3
  /\ rip' \in Succ[rip]
  /\ steps' = steps + 1
  /\ UNCHANGED <<task, why, mem, hrip, fate, sent, entered, execed, debugger>>

(* An orphan ends at a byte left in its text, or by itself, or by the      *)
(* PR_SET_PDEATHSIG SIGHUP if it neither ignores nor handles it.           *)
OrphanEnd ==
  /\ task = "orphan"
  /\ \/ rip \in Instr /\ mem[rip] = INT3 /\ fate' = "int3"
     \/ rip \in Instr /\ mem[rip] # INT3 /\ Succ[rip] = {} /\ fate' = "exit"
     \/ fate' = "hup"
  /\ task' = "reaped"
  /\ UNCHANGED <<why, rip, mem, hrip, steps, sent, entered, execed, debugger>>

Tracee == TraceeStep \/ TraceeTrap \/ TraceeExec \/ TraceeExit

World == \/ \E h \in Helpers : HelperStart(h) \/ HelperStep(h) \/ HelperTrap(h)
         \/ \E s \in Signals : Deliver(s)
         \/ Kill
         \/ OrphanStep \/ OrphanEnd

-----------------------------------------------------------------------------
(***************************************************************************)
(* The debugger.                                                           *)
(***************************************************************************)

(* A ptrace request is carried out only on a stopped tracee. *)
Attached == task = "stopped"

(* Faulty variant: a signal other than SIGTRAP is ignored, and waited for  *)
(* again without resuming the debuggee.                                    *)
WaitForSignal_Ignore(from, to) ==
  /\ dbg = from
  /\ \/ /\ task = "stopped" /\ why # "signal"
        /\ dbg' = to
        /\ UNCHANGED task
     \/ /\ task = "stopped" /\ why = "signal"
        /\ UNCHANGED <<dbg, task>>
     \/ /\ task \in {"zombie", "reaped"}
        /\ dbg' = to
        /\ task' = "reaped"
  /\ UNCHANGED <<why, rip, mem, others, book>>

(* wait_for_signal, called at dbg = from.  It blocks while the debuggee    *)
(* runs, returns for a SIGTRAP, and ends the debugger for another signal.  *)
(* An exited debuggee is no stop, so the WIFEXITED test nested under       *)
(* WIFSTOPPED is never reached: the call returns as if a SIGTRAP had come. *)
(* With nothing left to wait for, waitpid fails and the call returns too.  *)
WaitForSignal(from, to) ==
  /\ dbg = from
  /\ \/ /\ task = "stopped" /\ why # "signal"
        /\ dbg' = to
        /\ UNCHANGED task
     \/ /\ task = "stopped" /\ why = "signal"
        /\ dbg' = "exit_signal"
        /\ UNCHANGED task
     \/ /\ task \in {"zombie", "reaped"}
        /\ dbg' = to
        /\ task' = "reaped"
  /\ UNCHANGED <<why, rip, mem, others, book>>

(* The first wait of run(): the stop of execvp. *)
WaitForExec == WaitForSignal("start", "plant")

(* Faulty variant: no test, as in the other overload of set_breakpoint. *)
Taken_Never(a) == FALSE

(* Faulty variant: the test is on the words, not on the addresses. *)
Taken_Word(a) == \E x \in DOMAIN bps : a \in Cells(x)

(* set_breakpoint finds the address in m_breakpoints, and returns. *)
Taken(a) == Planted(a)

(* One function that set_all_function_breakpoints passes over, because of  *)
(* one of its tests or because set_breakpoint finds the address taken.     *)
SkipFunction ==
  /\ dbg = "plant" /\ next_fn <= Len(Funcs)
  /\ LET f == Funcs[next_fn] IN
       \/ f.low_pc = 0
       \/ ~f.named
       \/ f.decl_line \in {"zero", "unset"}
       \/ f.low_pc \notin SymAddrs
       \/ Taken(f.low_pc)
  /\ next_fn' = next_fn + 1
  /\ UNCHANGED <<dbg, bps, bp, log, tracee>>

(* set_breakpoint for the function: enable, then enter it in the map.  A   *)
(* failed read throws, through run() and main, and nothing catches it.     *)
PlantFunction ==
  /\ dbg = "plant" /\ next_fn <= Len(Funcs)
  /\ LET f == Funcs[next_fn] IN
       /\ f.low_pc # 0 /\ f.named /\ f.decl_line # "zero"
       /\ f.low_pc \in SymAddrs
       /\ ~Taken(f.low_pc)
       /\ \/ /\ Attached /\ ~PeekFails(mem, f.low_pc)
             /\ bps' = SetAt(bps, f.low_pc, Enabled(mem, f.low_pc, NewBreakpoint(next_fn)))
             /\ mem' = WithInt3(mem, f.low_pc)
             /\ next_fn' = next_fn + 1
             /\ UNCHANGED dbg
          \/ /\ ~Attached \/ PeekFails(mem, f.low_pc)
             /\ dbg' = "abort"
             /\ UNCHANGED <<mem, bps, next_fn>>
  /\ UNCHANGED <<task, why, rip, others, bp, log>>

PlantDone ==
  /\ dbg = "plant" /\ next_fn > Len(Funcs)
  /\ dbg' = "cont"
  /\ UNCHANGED <<next_fn, bps, bp, log, tracee>>

(* PTRACE_CONT or PTRACE_SINGLESTEP, unchecked, delivering no signal. *)
Resume(from, mode, to) ==
  /\ dbg = from
  /\ \/ Attached /\ task' = mode /\ why' = "none"
     \/ ~Attached /\ UNCHANGED <<task, why>>
  /\ dbg' = to
  /\ UNCHANGED <<rip, mem, others, book>>

Continue == Resume("cont", "running", "wait")

Wait == WaitForSignal("wait", "inspect")

(* Faulty variant: a failed get_registers goes unnoticed. *)
Inspect_Unchecked ==
  /\ dbg = "inspect"
  /\ \/ ~Attached /\ dbg' = "cont" /\ UNCHANGED bp
     \/ /\ Attached
        /\ bp' = rip - 1
        /\ dbg' = IF Planted(rip - 1) /\ bps[rip - 1].enabled THEN "report" ELSE "cont"
  /\ UNCHANGED <<next_fn, bps, log, tracee>>

(* Faulty variant: the program counter itself is looked up too. *)
Inspect_Either ==
  /\ dbg = "inspect"
  /\ \/ ~Attached /\ dbg' = "exit_regs" /\ UNCHANGED bp
     \/ /\ Attached
        /\ bp' = (IF Planted(rip) THEN rip ELSE rip - 1)
        /\ dbg' = IF Planted(bp') /\ bps[bp'].enabled THEN "report" ELSE "cont"
  /\ UNCHANGED <<next_fn, bps, log, tracee>>

(* step_over_breakpoint up to the lookup.  get_registers exits when it     *)
(* fails, which is how the debugger learns of the debuggee's end.          *)
Inspect ==
  /\ dbg = "inspect"
  /\ \/ ~Attached /\ dbg' = "exit_regs" /\ UNCHANGED bp
     \/ /\ Attached
        /\ bp' = rip - 1
        /\ dbg' = IF Planted(rip - 1) /\ bps[rip - 1].enabled THEN "report" ELSE "cont"
  /\ UNCHANGED <<next_fn, bps, log, tracee>>

(* get_breakpoint_info: the registers once more, then the call is printed  *)
(* with the address of the function the breakpoint was set for.  For a     *)
(* structure generate_complex_payload may throw before the call is         *)
(* printed, and nothing catches it.                                        *)
Report ==
  /\ dbg = "report"
  /\ \/ ~Attached /\ dbg' = "exit_regs" /\ UNCHANGED log
     \/ /\ Attached
        /\ log' = Append(log, Funcs[bps[bp].fn].low_pc)
        /\ dbg' = "rewind"
     \/ /\ Attached /\ Funcs[bps[bp].fn].structs
        /\ dbg' = "abort" /\ UNCHANGED log
  /\ UNCHANGED <<next_fn, bps, bp, tracee>>

(* Faulty variant: the program counter stays behind the int3. *)
Rewind_Omitted ==
  /\ dbg = "rewind"
  /\ \/ ~Attached /\ dbg' = "exit_regs"
     \/ Attached /\ dbg' = "disable"
  /\ UNCHANGED <<task, why, rip, mem, others, book>>

(* set_program_counter(previous_instruction_address). *)
Rewind ==
  /\ dbg = "rewind"
  /\ \/ ~Attached /\ dbg' = "exit_regs" /\ UNCHANGED rip
     \/ Attached /\ rip' = bp /\ dbg' = "disable"
  /\ UNCHANGED <<task, why, mem, others, book>>

Disable ==
  /\ dbg = "disable"
  /\ \/ /\ Attached /\ ~PeekFails(mem, bp)
        /\ mem' = WithOriginal(mem, bp, bps[bp])
        /\ bps' = [bps EXCEPT ![bp] = Disabled(@)]
        /\ dbg' = "step"
     \/ /\ ~Attached \/ PeekFails(mem, bp)
        /\ dbg' = "abort"
        /\ UNCHANGED <<mem, bps>>
  /\ UNCHANGED <<task, why, rip, others, next_fn, bp, log>>

(* Faulty variant: PTRACE_CONT in place of PTRACE_SINGLESTEP. *)
Step_Cont == Resume("step", "running", "stepwait")

Step == Resume("step", "stepping", "stepwait")

(* Faulty variant: the breakpoint is not enabled again. *)
WaitForStep_NoEnable == WaitForSignal("stepwait", "cont")

WaitForStep == WaitForSignal("stepwait", "enable")

Enable ==
  /\ dbg = "enable"
  /\ \/ /\ Attached /\ ~PeekFails(mem, bp)
        /\ bps' = [bps EXCEPT ![bp] = Enabled(mem, bp, @)]
        /\ mem' = WithInt3(mem, bp)
        /\ dbg' = "cont"
     \/ /\ ~Attached \/ PeekFails(mem, bp)
        /\ bps' = [bps EXCEPT ![bp].orig = SavedByte(FALSE, mem, bp)]
        /\ dbg' = "abort"
        /\ UNCHANGED mem
  /\ UNCHANGED <<task, why, rip, others, next_fn, bp, log>>

Dbg == \/ WaitForExec \/ SkipFunction \/ PlantFunction \/ PlantDone
       \/ Continue \/ Wait \/ Inspect \/ Report \/ Rewind
       \/ Disable \/ Step \/ WaitForStep \/ Enable

-----------------------------------------------------------------------------
(* run() is entered after fork.  The debuggee is stopped at its execvp, or *)
(* has ended because execvp failed, or was stopped short by a signal.      *)
Init ==
  /\ \/ task = "stopped" /\ why = "exec" /\ fate = "none"
     \/ task = "stopped" /\ why = "signal" /\ fate = "none" /\ "other" \in Signals
     \/ task = "zombie" /\ why = "none" /\ fate = "exit"
  /\ rip = Entry
  /\ mem = Text
  /\ hrip = [h \in Helpers |-> 0]
  /\ steps = 0
  /\ sent = 0
  /\ entered = << >>
  /\ execed = FALSE
  /\ dbg = "start"
  /\ next_fn = 1
  /\ bps = [a \in {} |-> NewBreakpoint(0)]
  /\ bp = 0
  /\ log = << >>

(* The session is over: the debugger has exited and takes no more steps.   *)
Over == dbg \in Ended /\ task \notin Alive /\ UNCHANGED vars

Next == Tracee \/ World \/ Detach \/ Dbg \/ Over

Spec == Init /\ [][Next]_vars

(* The scheduler runs the debugger and the debuggee's main thread, and     *)
(* exiting detaches.  Nothing obliges the world to send a signal, start a  *)
(* thread or end an orphan.                                                *)
Fairness == WF_vars(Dbg) /\ WF_vars(Tracee) /\ WF_vars(Detach)

FairSpec == Spec /\ Fairness

-----------------------------------------------------------------------------
(***************************************************************************)
(* Properties.                                                             *)
(***************************************************************************)

BreakpointRecord == [orig : Byte, enabled : BOOLEAN, fn : Nat]

(* The type invariant. *)
TypeOK ==
  /\ task \in Alive \cup {"zombie", "reaped", "orphan"}
  /\ why \in {"none", "exec", "brkpt", "trace", "user", "signal"}
  /\ rip \in Nat
  /\ mem \in [Addr -> Byte]
  /\ hrip \in [Helpers -> Instr \cup {0}]
  /\ fate \in {"none", "exit", "sigkill", "int3", "hup"}
  /\ steps \in Nat
  /\ sent \in Nat
  /\ entered \in Seq(Nat)
  /\ execed \in BOOLEAN
  /\ dbg \in Setup \cup Loop \cup Ended
  /\ next_fn \in 1 .. (Len(Funcs) + 1)
  /\ DOMAIN bps \subseteq SymAddrs \cap Addr
  /\ bps \in [DOMAIN bps -> BreakpointRecord]
  /\ bp \in Int
  /\ log \in Seq(Nat)

Armed(a) == Planted(a) /\ bps[a].enabled

(* The word-wide reads and writes of enable_breakpoint and                 *)
(* disable_breakpoint change the breakpoint's own byte and no other: at    *)
(* any moment, whatever signals and threads do, text memory is the         *)
(* program's text with int3 exactly where m_breakpoints says enabled, and  *)
(* after an execve, which m_breakpoints does not notice, nowhere else.     *)
MemoryIntact ==
  \A a \in Addr :
    /\ mem[a] # Text[a] => Armed(a) /\ mem[a] = INT3
    /\ Armed(a) /\ ~execed => mem[a] = INT3

(* m_original_data never comes to hold another breakpoint's int3, nor its  *)
(* own: while the debugger is alive it can restore every byte it took.     *)
TextRecoverable ==
  dbg \notin Ended => \A a \in DOMAIN bps : bps[a].orig = Text[a]

(* While the debuggee runs freely (PTRACE_CONT) no breakpoint is left      *)
(* disabled: only the single step of step_over_breakpoint runs without     *)
(* one, and without that one only.                                         *)
ArmedWhileRunning ==
  /\ task = "running" => \A a \in DOMAIN bps : bps[a].enabled
  /\ task = "stepping" => \A a \in DOMAIN bps \ {rip} : bps[a].enabled

(* Every function that passes the tests of set_all_function_breakpoints    *)
(* has a breakpoint before the debuggee is continued for the first time.   *)
AllPlanted ==
  dbg \in Loop =>
    \A k \in 1 .. Len(Funcs) :
      LET f == Funcs[k] IN
        /\ f.low_pc # 0 /\ f.named /\ f.decl_line = "set"
        /\ [type |-> "func", value |-> f.low_pc] \in Symbols
        => Planted(f.low_pc)

(* After an execve m_breakpoints is stale: its flags say enabled, its      *)
(* bytes are not in memory.  The stops of the new program are looked up in *)
(* it all the same, and none of them is taken for a breakpoint, so nothing *)
(* is written to a program the debugger did not plant.                     *)
StaleHarmless == execed => mem = Text

(* In the loop of continue_execution each call is printed once, in order:  *)
(* what has been printed is what has been entered, and at most the call    *)
(* whose breakpoint is being stepped over.                                 *)
ReportedOnce == log = entered \/ log = Append(entered, bp)

(* wait_for_signal announces the end of the debuggee ("process ...         *)
(* terminated") before the debugger exits because of it.                   *)
EndAnnounced == fate # "none" /\ task = "reaped" => dbg # "exit_regs"

(* PTRACE_O_EXITKILL: the debuggee does nothing after its debugger exited. *)
ExitKill == [][(dbg \in Ended) => (steps' = steps)]_vars

(* A stopped debuggee does not stay stopped: the debugger resumes it or    *)
(* exits, which releases it.                                               *)
StopResumed == task = "stopped" ~> task # "stopped"

(* The loop of continue_execution ends when the debuggee has ended.        *)
DeathNoticed == task = "zombie" ~> dbg \in Ended

-----------------------------------------------------------------------------
(***************************************************************************)
(* Refinement: the debugger and a debuggee without other threads implement *)
(* CallTrace.  A debuggee stopped behind a planted int3 is, as a program,  *)
(* still at the instruction the int3 replaced.                             *)
(***************************************************************************)

Trapped == /\ why = "brkpt" /\ Planted(rip - 1)
           /\ dbg \in {"wait", "inspect", "report", "rewind", "exit_regs"}

Calls == INSTANCE CallTrace WITH
           phase <- IF dbg \in Ended \/ task \notin Alive \/ execed THEN "over"
                    ELSE IF dbg \in Setup THEN "setup" ELSE "run",
           traced <- DOMAIN bps,
           pc <- IF Trapped THEN rip - 1 ELSE rip

(* The session, seen through the program counter of the uninstrumented     *)
(* program, is one of CallTrace: the debuggee takes its own steps and each *)
(* call is announced once, before it is executed.                          *)
ImplementsCallTrace == Calls!Spec
=============================================================================
