--------------------------- MODULE CallTraceProofs --------------------------
(***************************************************************************)
(* The debugger implements CallTrace: proof of the refinement, for every   *)
(* program, function table, set of other threads and bound.                *)
(***************************************************************************)
EXTENDS DebuggerProofs

-----------------------------------------------------------------------------
(***************************************************************************)
(* CallTrace's variables, as Debugger's INSTANCE defines them.             *)
(***************************************************************************)

Gone == dbg \in Ended \/ task \notin Alive \/ execed

Phase == IF Gone THEN "over" ELSE IF dbg \in Setup THEN "setup" ELSE "run"

Pc == IF Trapped THEN rip - 1 ELSE rip

callVars == <<Phase, DOMAIN bps, Pc, entered, log>>

LEMMA MappedInit ==
  ASSUME Phase \in {"setup", "over"}, DOMAIN bps = {}, Pc = Entry, entered = << >>, log = << >>
  PROVE  Calls!Init
BY DEF Calls!Init, Phase, Gone, Pc

LEMMA MappedStutter ==
  ASSUME UNCHANGED callVars
  PROVE  [Calls!Next]_(Calls!vars)
BY DEF Calls!vars, callVars, Phase, Gone, Pc

LEMMA MappedChoose ==
  ASSUME NEW a \in Instr, Phase = "setup", DOMAIN bps' = DOMAIN bps \cup {a},
         UNCHANGED <<Phase, Pc, entered, log>>
  PROVE  [Calls!Next]_(Calls!vars)
<1>1. Calls!Choose(a)
  BY DEF Calls!Choose, Phase, Gone, Pc
<1>2. a \in DOMAIN Succ
  BY DebuggerAssumption
<1>3. QED
  BY <1>1, <1>2 DEF Calls!Next

LEMMA MappedStart ==
  ASSUME Phase = "setup", Phase' = "run", UNCHANGED <<DOMAIN bps, Pc, entered, log>>
  PROVE  [Calls!Next]_(Calls!vars)
<1>1. Calls!Start
  BY DEF Calls!Start, Phase, Gone, Pc
<1>2. QED
  BY <1>1 DEF Calls!Next

LEMMA MappedAnnounce ==
  ASSUME Phase = "run", Pc \in DOMAIN bps, log = entered, log' = Append(log, Pc),
         UNCHANGED <<Phase, DOMAIN bps, Pc, entered>>
  PROVE  [Calls!Next]_(Calls!vars)
<1>1. Calls!Announce
  BY DEF Calls!Announce, Phase, Gone, Pc
<1>2. QED
  BY <1>1 DEF Calls!Next

LEMMA MappedExecute ==
  ASSUME Phase = "run", Pc \in DOMAIN bps => log = Append(entered, Pc),
         entered' = IF Pc \in DOMAIN bps THEN Append(entered, Pc) ELSE entered,
         Pc' \in Succ[Pc], UNCHANGED <<Phase, DOMAIN bps, log>>
  PROVE  [Calls!Next]_(Calls!vars)
<1>1. Calls!Execute
  BY DEF Calls!Execute, Phase, Gone, Pc
<1>2. QED
  BY <1>1 DEF Calls!Next

LEMMA MappedStop ==
  ASSUME Gone', UNCHANGED <<DOMAIN bps, entered, log>>
  PROVE  [Calls!Next]_(Calls!vars)
<1>1. Calls!Stop
  BY DEF Calls!Stop, Gone
<1>2. QED
  BY <1>1 DEF Calls!Next

-----------------------------------------------------------------------------
(***************************************************************************)
(* Where the program is when its main thread stops.                        *)
(***************************************************************************)

(* Every stop the loop looks up is that of an int3: the stop of execvp is  *)
(* waited for before the loop, that of a single step inside it, and a      *)
(* signal ends the debugger.                                               *)
StopInv ==
  /\ task \in {"running", "stepping"} => why = "none"
  /\ ~execed /\ task = "stopped" /\ dbg = "wait" => why \in {"brkpt", "signal"}
  /\ ~execed /\ task = "stopped" /\ dbg \in {"inspect", "report", "rewind"} => why = "brkpt"
  /\ task = "stopped" /\ dbg \in {"report", "rewind"} => bp = rip - 1

LEMMA StepStopInv ==
  ASSUME "trap" \notin Signals, IInv, StopInv, [Next]_vars
  PROVE  StopInv'
<1> USE DEF StopInv
<1>1. ControlInv
  BY DEF IInv
<1>2. CASE Tracee
  BY <1>1, <1>2 DEF Tracee, TraceeStep, TraceeTrap, TraceeExec, TraceeExit, AfterStep, Running,
     ControlInv, debugger, book
<1>3. CASE World \/ Detach
  <2>1. CASE \E h \in Helpers : HelperStart(h) \/ HelperStep(h)
    BY <2>1 DEF HelperStart, HelperStep, debugger, book
  <2>2. CASE \E s \in Signals : Deliver(s)
    <3>1. why' = "signal" /\ dbg' \in {"wait", "stepwait"}
      BY <1>1, <2>2, DebuggerAssumption DEF Deliver, Running, ControlInv, debugger, book
    <3>2. task' = "stopped"
      BY <2>2 DEF Deliver
    <3>3. QED
      BY <3>1, <3>2
  <2>3. CASE \/ \E h \in Helpers : HelperTrap(h)
             \/ Kill \/ OrphanStep \/ OrphanEnd \/ Detach
    <3>1. task' \notin {"stopped", "stepping", "running"}
      BY <2>3 DEF HelperTrap, Kill, OrphanStep, OrphanEnd, Detach
    <3>2. QED
      BY <3>1
  <2>4. QED
    BY <1>3, <2>1, <2>2, <2>3 DEF World
<1>4. CASE Dbg
  <2>1. CASE WaitForExec \/ Wait \/ WaitForStep
    BY <2>1 DEF WaitForExec, Wait, WaitForStep, WaitForSignal, others, book
  <2>2. CASE SkipFunction \/ PlantFunction \/ PlantDone
    BY <2>2 DEF SkipFunction, PlantFunction, PlantDone, tracee, others
  <2>3. CASE Continue \/ Step
    BY <2>3 DEF Continue, Step, Resume, Attached, others, book
  <2>4. CASE Inspect \/ Report \/ Rewind
    BY <2>4 DEF Inspect, Report, Rewind, Attached, tracee, others, book
  <2>5. CASE Disable \/ Enable
    BY <2>5 DEF Disable, Enable, Attached, others
  <2>6. QED
    BY <1>4, <2>1, <2>2, <2>3, <2>4, <2>5 DEF Dbg
<1>5. CASE Over \/ UNCHANGED vars
  BY <1>5 DEF Over, vars, tracee, others, debugger, book
<1>6. QED
  BY <1>2, <1>3, <1>4, <1>5 DEF Next

-----------------------------------------------------------------------------
(***************************************************************************)
(* Every step is one of CallTrace, or none.                                *)
(***************************************************************************)

CallInv == IInv /\ ExecInv /\ LogInv /\ StopInv

(* When the program or the debugger is gone nothing more is said.          *)
LEMMA GoneStep ==
  ASSUME CallInv, Gone, [Next]_vars
  PROVE  Gone' /\ UNCHANGED <<DOMAIN bps, entered, log>>
<1> USE DEF Gone, Alive, Ended
<1>1. ControlInv /\ ExecInv
  BY DEF CallInv, IInv
<1>2. task \in {"running", "stepping"} => execed
  BY <1>1 DEF ControlInv
<1>3. CASE Tracee
  <2>1. execed /\ UNCHANGED debugger
    BY <1>2, <1>3 DEF Tracee, TraceeStep, TraceeTrap, TraceeExec, TraceeExit, Running
  <2>2. execed' = TRUE /\ entered' = entered
    BY <1>3, <2>1 DEF Tracee, TraceeStep, TraceeTrap, TraceeExec, TraceeExit, TypeOK, CallInv, IInv
  <2>3. QED
    BY <2>1, <2>2 DEF debugger, book
<1>4. CASE World \/ Detach
  BY <1>2, <1>4 DEF World, HelperStart, HelperStep, HelperTrap, Deliver, Kill, OrphanStep, OrphanEnd,
     Detach, debugger, book, Running
<1>5. CASE Dbg
  <2>1. dbg \notin Ended
    BY <1>5 DEF Dbg, WaitForExec, Wait, WaitForStep, WaitForSignal, SkipFunction, PlantFunction,
       PlantDone, Continue, Step, Resume, Inspect, Report, Rewind, Disable, Enable
  <2>2. UNCHANGED <<entered, execed>>
    BY <1>5 DEF Dbg, WaitForExec, Wait, WaitForStep, WaitForSignal, SkipFunction, PlantFunction,
       PlantDone, Continue, Step, Resume, Inspect, Report, Rewind, Disable, Enable, tracee, others
  <2>3. \/ task \notin Alive /\ task' \notin Alive
        \/ execed /\ dbg \in {"cont", "wait", "inspect"}
    <3>1. CASE task \notin Alive
      BY <1>5, <3>1 DEF Dbg, WaitForExec, Wait, WaitForStep, WaitForSignal, SkipFunction,
         PlantFunction, PlantDone, Continue, Step, Resume, Attached, Inspect, Report, Rewind,
         Disable, Enable, tracee
    <3>2. QED
      BY <1>1, <2>1, <3>1 DEF ExecInv
  <2>4. UNCHANGED <<DOMAIN bps, log>>
    <3>1. CASE WaitForExec \/ Wait \/ WaitForStep \/ Continue \/ Step \/ Rewind
      BY <3>1 DEF WaitForExec, Wait, WaitForStep, WaitForSignal, Continue, Step, Resume, Rewind, book
    <3>2. CASE SkipFunction \/ PlantDone \/ Inspect
      BY <3>2 DEF SkipFunction, PlantDone, Inspect
    <3>3. CASE PlantFunction \/ Report \/ Disable \/ Enable
      <4>1. ~Attached
        BY <2>3, <3>3 DEF PlantFunction, Report, Disable, Enable, Attached
      <4>2. QED
        BY <3>3, <4>1 DEF PlantFunction, Report, Disable, Enable
    <3>4. QED
      BY <1>5, <3>1, <3>2, <3>3 DEF Dbg
  <2>5. QED
    BY <2>2, <2>3, <2>4
<1>6. CASE Over \/ UNCHANGED vars
  BY <1>6 DEF Over, vars, tracee, others, debugger, book
<1>7. QED
  BY <1>3, <1>4, <1>5, <1>6 DEF Next

(* The main thread. *)
LEMMA TraceeStepCalls ==
  ASSUME CallInv, ~Gone, TraceeStep
  PROVE  [Calls!Next]_(Calls!vars)
<1>1. /\ UNCHANGED <<dbg, bps, log, execed>> /\ ~execed /\ dbg \notin Ended
      /\ rip' \in Succ[rip] /\ mem[rip] # INT3 /\ rip \in Instr
      /\ entered' = IF rip \in DOMAIN bps THEN Append(entered, rip) ELSE entered
  BY DEF TraceeStep, debugger, book, Gone, Planted
<1>2. /\ why = "none" /\ ~Trapped /\ why' \in {"none", "trace"} /\ ~Trapped'
      /\ task' \in Alive /\ dbg \in {"wait", "stepwait"}
  BY DEF CallInv, IInv, ControlInv, StopInv, TraceeStep, AfterStep, Running, Trapped, Alive
<1>3. Phase = "run" /\ Phase' = "run" /\ Pc = rip /\ Pc' = rip'
  BY <1>1, <1>2 DEF Phase, Gone, Pc, Setup
<1>4. rip \in DOMAIN bps => log = Append(entered, rip)
  <2>1. CASE task = "running"
    BY <1>1, <2>1, DebuggerAssumption
    DEF CallInv, IInv, ControlInv, MemoryIntact, Armed, Planted, Ended
  <2>2. CASE task = "stepping"
    BY <2>2 DEF CallInv, IInv, ControlInv, LogInv
  <2>3. QED
    BY <2>1, <2>2 DEF TraceeStep, Running
<1>5. QED
  BY <1>1, <1>3, <1>4, MappedExecute

LEMMA TraceeTrapCalls ==
  ASSUME CallInv, ~Gone, TraceeTrap
  PROVE  [Calls!Next]_(Calls!vars)
<1>1. /\ UNCHANGED <<dbg, bps, entered, log, execed>> /\ ~execed /\ dbg \notin Ended
      /\ rip' = rip + 1 /\ mem[rip] = INT3 /\ rip \in Instr /\ rip \in Addr /\ rip \in Nat
      /\ task' = "stopped" /\ why' = "brkpt"
  BY DebuggerAssumption DEF TraceeTrap, debugger, book, Gone, CallInv, IInv, TypeOK
<1>2. task = "running"
  <2>1. SUFFICES ASSUME task = "stepping"
                 PROVE  FALSE
    BY DEF TraceeTrap, Running
  <2>2. rip \in DOMAIN bps /\ ~Armed(rip)
    BY <2>1 DEF CallInv, IInv, ControlInv, Armed, Planted
  <2>3. rip \in SymAddrs \cap Addr /\ mem[rip] = Text[rip]
    BY <1>1, <2>2 DEF CallInv, IInv, TypeOK, MemoryIntact
  <2>4. QED
    BY <1>1, <2>3, ProgramAssumption
<1>3. dbg = "wait" /\ why = "none" /\ ~Trapped
  BY <1>2 DEF CallInv, IInv, ControlInv, StopInv, Trapped
<1>4. Phase = "run" /\ Phase' = "run" /\ Pc = rip
  BY <1>1, <1>2, <1>3 DEF Phase, Gone, Pc, Setup, Alive, Ended
<1>5. Trapped' <=> rip \in DOMAIN bps
  <2>1. rip' - 1 = rip
    BY <1>1
  <2>2. QED
    BY <1>1, <1>3, <2>1 DEF Trapped, Planted
<1>6. CASE rip \in DOMAIN bps
  <2>1. Pc' = rip
    BY <1>1, <1>5, <1>6 DEF Pc
  <2>2. QED
    BY <1>1, <1>4, <2>1, MappedStutter DEF callVars
<1>7. CASE rip \notin DOMAIN bps
  <2>1. Text[rip] = INT3
    BY <1>1, <1>7 DEF CallInv, IInv, MemoryIntact, Armed, Planted
  <2>2. Succ[rip] = {rip + 1}
    BY <1>1, <2>1, ProgramAssumption
  <2>3. Pc' = rip + 1
    BY <1>1, <1>5, <1>7 DEF Pc
  <2>4. QED
    BY <1>1, <1>4, <1>7, <2>2, <2>3, MappedExecute
<1>8. QED
  BY <1>6, <1>7

(* The rest of the world. *)
LEMMA WorldCalls ==
  ASSUME "trap" \notin Signals, CallInv, ~Gone, World \/ Detach
  PROVE  [Calls!Next]_(Calls!vars)
<1>1. UNCHANGED <<dbg, bps, log, entered, execed>>
  BY DEF World, HelperStart, HelperStep, HelperTrap, Deliver, Kill, OrphanStep, OrphanEnd,
     Detach, debugger, book
<1>2. CASE \E h \in Helpers : HelperStart(h) \/ HelperStep(h)
  <2>1. UNCHANGED <<task, why, rip>>
    BY <1>2 DEF HelperStart, HelperStep
  <2>2. QED
    BY <1>1, <2>1, MappedStutter DEF callVars, Phase, Gone, Pc, Trapped, Planted
<1>3. CASE \E s \in Signals : Deliver(s)
  <2>1. why = "none" /\ why' = "signal" /\ task' = "stopped" /\ rip' = rip
    BY <1>3, DebuggerAssumption DEF Deliver, CallInv, StopInv, Running
  <2>2. Pc = rip /\ Pc' = rip
    BY <2>1 DEF Pc, Trapped
  <2>3. Phase' = Phase
    BY <1>1, <2>1 DEF Phase, Gone, Alive
  <2>4. QED
    BY <1>1, <2>2, <2>3, MappedStutter DEF callVars
<1>4. CASE \/ \E h \in Helpers : HelperTrap(h)
           \/ Kill \/ OrphanStep \/ OrphanEnd \/ Detach
  <2>1. Gone'
    BY <1>4 DEF HelperTrap, Kill, OrphanStep, OrphanEnd, Detach, Gone, Alive
  <2>2. QED
    BY <1>1, <2>1, MappedStop
<1>5. QED
  BY <1>2, <1>3, <1>4 DEF World

(* The debugger. *)
LEMMA WaitCalls ==
  ASSUME CallInv, ~Gone, WaitForExec \/ Wait \/ WaitForStep
  PROVE  [Calls!Next]_(Calls!vars)
<1>1. /\ UNCHANGED <<why, rip, bps, entered, log, execed>> /\ ~execed
      /\ \/ dbg = "start" /\ dbg' = "plant" /\ task' = task
         \/ dbg = "wait" /\ dbg' = "inspect" /\ task' = task
         \/ dbg = "stepwait" /\ dbg' = "enable" /\ task' = task
         \/ dbg' = "exit_signal"
         \/ task' = "reaped"
  BY DEF WaitForExec, Wait, WaitForStep, WaitForSignal, others, book, Gone
<1>2. CASE dbg' = "exit_signal" \/ task' = "reaped"
  <2>1. Gone'
    BY <1>2 DEF Gone, Alive, Ended
  <2>2. QED
    BY <1>1, <2>1, MappedStop
<1>3. CASE \/ dbg = "start" /\ dbg' = "plant" /\ task' = task
           \/ dbg = "wait" /\ dbg' = "inspect" /\ task' = task
           \/ dbg = "stepwait" /\ dbg' = "enable" /\ task' = task
  <2>1. Phase' = Phase
    BY <1>1, <1>3 DEF Phase, Gone, Setup, Ended
  <2>2. Pc' = Pc
    BY <1>1, <1>3 DEF Pc, Trapped, Planted
  <2>3. QED
    BY <1>1, <2>1, <2>2, MappedStutter DEF callVars
<1>4. QED
  BY <1>1, <1>2, <1>3

LEMMA PlantCalls ==
  ASSUME CallInv, ~Gone, SkipFunction \/ PlantFunction \/ PlantDone
  PROVE  [Calls!Next]_(Calls!vars)
<1>1. /\ UNCHANGED <<task, why, rip, entered, log, execed>> /\ dbg = "plant"
      /\ ~Trapped /\ Phase = "setup" /\ Pc = rip
  BY DEF SkipFunction, PlantFunction, PlantDone, tracee, others, Gone, Phase, Setup, Trapped, Pc
<1>2. CASE SkipFunction
  BY <1>1, <1>2, MappedStutter DEF SkipFunction, callVars, Phase, Gone, Pc, Trapped, Planted
<1>3. CASE PlantDone
  <2>1. dbg' = "cont" /\ bps' = bps
    BY <1>3 DEF PlantDone
  <2>2. Phase' = "run" /\ Pc' = rip
    BY <1>1, <2>1 DEF Phase, Gone, Setup, Ended, Pc, Trapped
  <2>3. QED
    BY <1>1, <2>1, <2>2, MappedStart
<1>4. CASE PlantFunction
  <2>1. PICK a : a = Funcs[next_fn].low_pc
    OBVIOUS
  <2>2. \/ /\ ~PeekFails(mem, a) /\ a \in SymAddrs /\ dbg' = dbg
           /\ bps' = SetAt(bps, a, Enabled(mem, a, NewBreakpoint(next_fn)))
        \/ dbg' = "abort" /\ bps' = bps
    BY <1>4, <2>1 DEF PlantFunction
  <2>3. CASE dbg' = "abort" /\ bps' = bps
    BY <1>1, <2>3, MappedStop DEF Gone, Ended
  <2>4. CASE /\ ~PeekFails(mem, a) /\ a \in SymAddrs /\ dbg' = dbg
             /\ bps' = SetAt(bps, a, Enabled(mem, a, NewBreakpoint(next_fn)))
    <3>1. a \in Nat
      <4>1. next_fn \in 1 .. Len(Funcs)
        BY <1>4, FuncsType DEF PlantFunction, CallInv, IInv, TypeOK
      <4>2. QED
        BY <2>1, <4>1, FuncsType
    <3>2. a \in Instr
      <4>1. mem \in [Addr -> Byte] /\ a \in Int /\ ~PeekFails(mem, a)
        BY <2>4, <3>1 DEF CallInv, IInv, TypeOK
      <4>2. a \in SymAddrs \cap Addr
        BY <2>4, <4>1, WithInt3Is
      <4>3. QED
        BY <4>2, ProgramAssumption
    <3>3. DOMAIN bps' = DOMAIN bps \cup {a}
      BY <2>4 DEF SetAt
    <3>4. Phase' = Phase /\ Pc' = Pc
      BY <1>1, <2>4 DEF Phase, Gone, Pc, Trapped
    <3>5. QED
      BY <1>1, <3>2, <3>3, <3>4, MappedChoose
  <2>5. QED
    BY <2>2, <2>3, <2>4
<1>5. QED
  BY <1>2, <1>3, <1>4

LEMMA ResumeCalls ==
  ASSUME CallInv, ~Gone, Continue \/ Step
  PROVE  [Calls!Next]_(Calls!vars)
<1>1. /\ UNCHANGED <<rip, bps, entered, log, execed>> /\ task \in Alive
      /\ \/ dbg = "cont" /\ dbg' = "wait"
         \/ dbg = "step" /\ dbg' = "stepwait"
  BY DEF Continue, Step, Resume, others, book, Gone
<1>2. task = "stopped"
  BY <1>1 DEF CallInv, IInv, ControlInv, Alive
<1>3. why' = "none" /\ task' \in Alive
  BY <1>2 DEF Continue, Step, Resume, Attached, Alive
<1>4. Phase' = Phase
  BY <1>1, <1>3 DEF Phase, Gone, Setup, Ended
<1>5. Pc' = Pc
  BY <1>1, <1>3 DEF Pc, Trapped
<1>6. QED
  BY <1>1, <1>4, <1>5, MappedStutter DEF callVars

LEMMA InspectCalls ==
  ASSUME CallInv, ~Gone, Inspect \/ Rewind
  PROVE  [Calls!Next]_(Calls!vars)
<1>1. /\ UNCHANGED <<task, why, bps, entered, log, execed>> /\ task \in Alive /\ ~execed
      /\ dbg \in {"inspect", "rewind"}
  BY DEF Inspect, Rewind, others, tracee, book, Gone
<1>2. task = "stopped" /\ why = "brkpt"
  BY <1>1 DEF CallInv, IInv, ControlInv, StopInv, Alive
<1>3. CASE Inspect
  <2>1. /\ dbg = "inspect" /\ rip' = rip
        /\ dbg' = IF Planted(rip - 1) /\ bps[rip - 1].enabled THEN "report" ELSE "cont"
    BY <1>2, <1>3 DEF Inspect, Attached, tracee
  <2>2. Planted(rip - 1) => bps[rip - 1].enabled
    BY <2>1 DEF CallInv, IInv, ControlInv, Ended, Planted
  <2>3. Phase' = Phase
    BY <1>1, <2>1 DEF Phase, Gone, Setup, Ended
  <2>4. Pc' = Pc
    <3>1. CASE Planted(rip - 1)
      BY <1>1, <1>2, <2>1, <2>2, <3>1 DEF Pc, Trapped, Planted
    <3>2. CASE ~Planted(rip - 1)
      BY <1>1, <2>1, <3>2 DEF Pc, Trapped, Planted
    <3>3. QED
      BY <3>1, <3>2
  <2>5. QED
    BY <1>1, <2>3, <2>4, MappedStutter DEF callVars
<1>4. CASE Rewind
  <2>1. dbg = "rewind" /\ dbg' = "disable" /\ rip' = bp
    BY <1>2, <1>4 DEF Rewind, Attached
  <2>2. bp = rip - 1 /\ Planted(bp)
    BY <1>2, <2>1 DEF CallInv, IInv, ControlInv, StopInv
  <2>3. Phase' = Phase
    BY <1>1, <2>1 DEF Phase, Gone, Setup, Ended
  <2>4. Pc = rip - 1 /\ Pc' = bp
    BY <1>2, <2>1, <2>2 DEF Pc, Trapped
  <2>5. QED
    BY <1>1, <2>2, <2>3, <2>4, MappedStutter DEF callVars
<1>5. QED
  BY <1>3, <1>4

LEMMA ReportCalls ==
  ASSUME CallInv, ~Gone, Report
  PROVE  [Calls!Next]_(Calls!vars)
<1>1. /\ UNCHANGED <<task, why, rip, bps, entered, execed>> /\ task \in Alive /\ ~execed
      /\ dbg = "report"
  BY DEF Report, others, tracee, Gone
<1>2. task = "stopped" /\ why = "brkpt" /\ bp = rip - 1 /\ Planted(bp) /\ log = entered
  BY <1>1 DEF CallInv, IInv, ControlInv, StopInv, LogInv, Alive
<1>3. \/ dbg' = "rewind" /\ log' = Append(log, Funcs[bps[bp].fn].low_pc)
      \/ dbg' = "abort" /\ log' = log
  BY <1>2 DEF Report, Attached
<1>4. CASE dbg' = "abort" /\ log' = log
  BY <1>1, <1>4, MappedStop DEF Gone, Ended
<1>5. CASE dbg' = "rewind" /\ log' = Append(log, Funcs[bps[bp].fn].low_pc)
  <2>1. Funcs[bps[bp].fn].low_pc = bp
    BY <1>2 DEF CallInv, IInv, FunctionInv, Planted
  <2>2. Pc = bp /\ Pc' = Pc
    BY <1>1, <1>2, <1>5 DEF Pc, Trapped, Planted
  <2>3. Phase = "run" /\ Phase' = Phase
    BY <1>1, <1>5 DEF Phase, Gone, Setup, Ended
  <2>4. QED
    BY <1>1, <1>2, <1>5, <2>1, <2>2, <2>3, MappedAnnounce DEF Planted
<1>6. QED
  BY <1>3, <1>4, <1>5

LEMMA ToggleCalls ==
  ASSUME CallInv, ~Gone, Disable \/ Enable
  PROVE  [Calls!Next]_(Calls!vars)
<1>1. /\ UNCHANGED <<task, why, rip, entered, log, execed>> /\ DOMAIN bps' = DOMAIN bps
      /\ \/ dbg' = "abort"
         \/ dbg = "disable" /\ dbg' = "step"
         \/ dbg = "enable" /\ dbg' = "cont"
  BY DEF Disable, Enable, others
<1>2. CASE dbg' = "abort"
  BY <1>1, <1>2, MappedStop DEF Gone, Ended
<1>3. CASE \/ dbg = "disable" /\ dbg' = "step"
           \/ dbg = "enable" /\ dbg' = "cont"
  <2>1. Phase' = Phase /\ Pc' = Pc
    BY <1>1, <1>3 DEF Phase, Gone, Setup, Ended, Pc, Trapped
  <2>2. QED
    BY <1>1, <2>1, MappedStutter DEF callVars
<1>4. QED
  BY <1>1, <1>2, <1>3

LEMMA StepCalls ==
  ASSUME "trap" \notin Signals, CallInv, [Next]_vars
  PROVE  [Calls!Next]_(Calls!vars)
<1>1. CASE Gone
  BY <1>1, GoneStep, MappedStop
<1>2. CASE ~Gone
  <2>1. CASE TraceeExec \/ TraceeExit
    <3>1. Gone' /\ UNCHANGED <<DOMAIN bps, entered, log>>
      BY <2>1 DEF TraceeExec, TraceeExit, Gone, Alive, debugger, book
    <3>2. QED
      BY <3>1, MappedStop
  <2>2. CASE Over \/ UNCHANGED vars
    <3>1. UNCHANGED <<task, why, rip, dbg, bps, entered, log, execed>>
      BY <2>2 DEF Over, vars, tracee, others, debugger, book
    <3>2. QED
      BY <3>1, MappedStutter DEF callVars, Phase, Gone, Pc, Trapped, Planted
  <2>3. QED
    BY <1>2, <2>1, <2>2, TraceeStepCalls, TraceeTrapCalls, WorldCalls, WaitCalls, PlantCalls,
       ResumeCalls, InspectCalls, ReportCalls, ToggleCalls
    DEF Next, Tracee, Dbg
<1>3. QED
  BY <1>1, <1>2

LEMMA InitCalls == Init => Calls!Init /\ StopInv
<1> SUFFICES ASSUME Init
             PROVE  Calls!Init /\ StopInv
  OBVIOUS
<1>1. /\ task \in {"stopped", "zombie"} /\ why \in {"exec", "signal", "none"} /\ dbg = "start"
      /\ ~execed /\ rip = Entry /\ DOMAIN bps = {} /\ entered = << >> /\ log = << >>
  BY DEF Init
<1>2. Phase \in {"setup", "over"} /\ Pc = Entry
  BY <1>1 DEF Phase, Setup, Pc, Trapped
<1>3. StopInv
  BY <1>1 DEF StopInv
<1>4. QED
  BY <1>1, <1>2, <1>3, MappedInit

(***************************************************************************)
(* The debugger keeps CallTrace's promise to every program, unless         *)
(* somebody sends it a SIGTRAP: seen without the int3s and the single      *)
(* steps, the debuggee's main thread executes its own instructions and no  *)
(* others, and each call of a traced function is announced once, in order, *)
(* and before the first instruction of the function.  Other threads may    *)
(* end the program, but do not disturb this.                               *)
(***************************************************************************)
THEOREM CallTraceImplemented ==
  ASSUME "trap" \notin Signals
  PROVE  Spec => ImplementsCallTrace
<1>1. Init => Calls!Init /\ StopInv
  BY InitCalls
<1>2. IInv /\ StopInv /\ [Next]_vars => StopInv'
  BY StepStopInv
<1>3. IInv /\ ExecInv /\ LogInv /\ StopInv /\ [Next]_vars => [Calls!Next]_(Calls!vars)
  BY StepCalls DEF CallInv
<1>4. Spec => [](ExecInv /\ LogInv)
  BY LoopInvariance
<1>5. QED
  BY <1>1, <1>2, <1>3, <1>4, Invariance, PTL DEF Spec, ImplementsCallTrace, Calls!Spec
=============================================================================
