---------------------------- MODULE DebuggerProofs --------------------------
(***************************************************************************)
(* Proofs about Debugger, for every program, function table, set of other  *)
(* threads, word size and bound.                                           *)
(***************************************************************************)
EXTENDS Debugger, TLAPS, SequenceTheorems

-----------------------------------------------------------------------------
(***************************************************************************)
(* Words.                                                                  *)
(***************************************************************************)

(* Reading a word, replacing its low byte and writing it back changes the  *)
(* byte at its address and no other (enable_breakpoint and                 *)
(* disable_breakpoint).                                                    *)
LEMMA LowByteOnly ==
  ASSUME NEW m \in [Addr -> Byte], NEW a \in Int, NEW b, Readable(a)
  PROVE  /\ a \in Addr
         /\ Poke(m, a, WithLowByte(Peek(m, a), b)) = [m EXCEPT ![a] = b]
<1> USE PtraceAssumption
<1>1. a \in Addr
  BY DEF Readable, Cells
<1>2. ASSUME NEW x \in Addr
      PROVE  Poke(m, a, WithLowByte(Peek(m, a), b))[x] = [m EXCEPT ![a] = b][x]
  BY <1>2 DEF Poke, WithLowByte, Peek, Cells
<1>3. QED
  BY <1>1, <1>2 DEF Poke

LEMMA WithInt3Is ==
  ASSUME NEW m \in [Addr -> Byte], NEW a \in Int, ~PeekFails(m, a)
  PROVE  a \in Addr /\ WithInt3(m, a) = [m EXCEPT ![a] = INT3]
BY LowByteOnly DEF WithInt3, PeekFails

LEMMA WithOriginalIs ==
  ASSUME NEW m \in [Addr -> Byte], NEW a \in Int, NEW b, ~PeekFails(m, a)
  PROVE  a \in Addr /\ WithOriginal(m, a, b) = [m EXCEPT ![a] = b.orig]
BY LowByteOnly DEF WithOriginal, PeekFails

-----------------------------------------------------------------------------
(***************************************************************************)
(* The inductive invariant.                                                *)
(***************************************************************************)

(* Where the debugger is when the debuggee moves, and which breakpoint may *)
(* be disabled when: the one being stepped over, which the debuggee is at. *)
ControlInv ==
  /\ dbg \in {"report", "rewind", "disable", "step", "stepwait", "enable"} => Planted(bp)
  /\ \A a \in DOMAIN bps :
       ~bps[a].enabled => a = bp /\ dbg \in {"step", "stepwait", "enable"} \cup Ended
  /\ dbg \in {"step", "stepwait", "enable"} => ~bps[bp].enabled
  /\ dbg \in {"disable", "step"} => rip = bp
  /\ task = "running" => dbg = "wait"
  /\ task = "stepping" => dbg = "stepwait" /\ rip = bp
  /\ task = "orphan" => dbg \in Ended

(* Each breakpoint belongs to a function that starts at its address. *)
FunctionInv ==
  \A a \in DOMAIN bps :
    bps[a].fn \in 1 .. Len(Funcs) /\ Funcs[bps[a].fn].low_pc = a

IInv == TypeOK /\ ControlInv /\ FunctionInv /\ MemoryIntact /\ TextRecoverable

LEMMA AppendIsSeq ==
  ASSUME NEW S, NEW q \in Seq(S), NEW e \in S
  PROVE  Append(q, e) \in Seq(S)
OBVIOUS

LEMMA FuncsType ==
  /\ Len(Funcs) \in Nat
  /\ \A k \in 1 .. Len(Funcs) : Funcs[k].low_pc \in Nat
<1> DEFINE Record == [low_pc : Nat, named : BOOLEAN, decl_line : {"zero", "set", "unset"},
                      structs : BOOLEAN]
<1>1. Funcs \in Seq(Record)
  BY DebuggerAssumption
<1>2. \A f \in Record : f.low_pc \in Nat
  OBVIOUS
<1> HIDE DEF Record
<1>3. QED
  BY <1>1, <1>2

(* TypeOK in its two halves. *)
TraceeTypeOK ==
  /\ task \in Alive \cup {"zombie", "reaped", "orphan"}
  /\ why \in {"none", "exec", "brkpt", "trace", "user", "signal"}
  /\ rip \in Nat
  /\ hrip \in [Helpers -> Instr \cup {0}]
  /\ fate \in {"none", "exit", "sigkill", "int3", "hup"}
  /\ steps \in Nat
  /\ sent \in Nat
  /\ entered \in Seq(Nat)
  /\ execed \in BOOLEAN

DebuggerTypeOK ==
  /\ dbg \in Setup \cup Loop \cup Ended
  /\ next_fn \in 1 .. (Len(Funcs) + 1)
  /\ DOMAIN bps \subseteq SymAddrs \cap Addr
  /\ bps \in [DOMAIN bps -> BreakpointRecord]
  /\ bp \in Int
  /\ log \in Seq(Nat)

LEMMA TypeHalves == TypeOK <=> TraceeTypeOK /\ mem \in [Addr -> Byte] /\ DebuggerTypeOK
BY DEF TypeOK, TraceeTypeOK, DebuggerTypeOK

LEMMA TypeHalvesNext ==
  TypeOK' <=> TraceeTypeOK' /\ mem' \in [Addr -> Byte] /\ DebuggerTypeOK'
BY DEF TypeOK, TraceeTypeOK, DebuggerTypeOK

LEMMA DebuggerTypeFrame == DebuggerTypeOK /\ UNCHANGED debugger => DebuggerTypeOK'
BY DEF DebuggerTypeOK, debugger, book

LEMMA InitIInv == Init => IInv
<1> SUFFICES ASSUME Init PROVE IInv
  OBVIOUS
<1> USE DebuggerAssumption, PtraceAssumption DEF Init
<1>1. TypeOK
  <2>1. bps \in [DOMAIN bps -> BreakpointRecord] /\ DOMAIN bps = {}
    OBVIOUS
  <2>2. next_fn \in 1 .. (Len(Funcs) + 1)
    BY FuncsType
  <2>3. TraceeTypeOK
    <3>1. /\ task \in Alive \cup {"zombie", "reaped", "orphan"}
          /\ why \in {"none", "exec", "brkpt", "trace", "user", "signal"}
          /\ fate \in {"none", "exit", "sigkill", "int3", "hup"}
      BY DEF Alive
    <3>2. rip \in Nat /\ hrip \in [Helpers -> Instr \cup {0}] /\ steps \in Nat /\ sent \in Nat
      OBVIOUS
    <3>3. entered \in Seq(Nat)
      OBVIOUS
    <3>4. execed \in BOOLEAN
      OBVIOUS
    <3>5. QED
      BY <3>1, <3>2, <3>3, <3>4 DEF TraceeTypeOK
  <2>4. DebuggerTypeOK
    BY <2>1, <2>2 DEF DebuggerTypeOK, Setup
  <2>5. QED
    BY <2>3, <2>4, TypeHalves
<1>2. ControlInv
  BY DEF ControlInv, Ended
<1>3. FunctionInv /\ MemoryIntact /\ TextRecoverable
  BY DEF FunctionInv, MemoryIntact, TextRecoverable, Armed, Planted
<1>4. QED
  BY <1>1, <1>2, <1>3 DEF IInv

(* Only execve replaces text memory without the debugger. *)
LEMMA WorldLeaves ==
  ASSUME TraceeStep \/ TraceeTrap \/ TraceeExit \/ World \/ Detach
  PROVE  UNCHANGED <<mem, execed, debugger>>
<1>1. CASE TraceeStep
  BY <1>1 DEF TraceeStep
<1>2. CASE TraceeTrap
  BY <1>2 DEF TraceeTrap
<1>3. CASE TraceeExit
  BY <1>3 DEF TraceeExit
<1>4. CASE \E h \in Helpers : HelperStart(h) \/ HelperStep(h) \/ HelperTrap(h)
  BY <1>4 DEF HelperStart, HelperStep, HelperTrap
<1>5. CASE (\E s \in Signals : Deliver(s)) \/ Kill
  BY <1>5 DEF Deliver, Kill
<1>6. CASE OrphanStep \/ OrphanEnd \/ Detach
  BY <1>6 DEF OrphanStep, OrphanEnd, Detach
<1>7. QED
  BY <1>1, <1>2, <1>3, <1>4, <1>5, <1>6 DEF World

LEMMA TraceeTypes ==
  ASSUME TraceeTypeOK, Tracee
  PROVE  TraceeTypeOK'
<1> USE DebuggerAssumption, PtraceAssumption
<1>1. CASE TraceeStep
  <2>1. rip \in Nat /\ rip' \in Nat /\ steps' \in Nat
    BY <1>1 DEF TraceeStep, TraceeTypeOK
  <2>2. entered' \in Seq(Nat)
    <3>1. Append(entered, rip) \in Seq(Nat)
      BY <2>1, AppendIsSeq DEF TraceeTypeOK
    <3>2. QED
      BY <1>1, <3>1 DEF TraceeStep, TraceeTypeOK
  <2>3. task' \in Alive /\ why' \in {"none", "exec", "brkpt", "trace", "user", "signal"}
    BY <1>1 DEF TraceeStep, AfterStep, Running, Alive, TraceeTypeOK
  <2>4. UNCHANGED <<hrip, fate, sent, execed>>
    BY <1>1 DEF TraceeStep
  <2>5. QED
    BY <2>1, <2>2, <2>3, <2>4 DEF TraceeTypeOK
<1>2. CASE TraceeTrap
  <2>1. rip' \in Nat /\ task' = "stopped" /\ why' = "brkpt"
    BY <1>2 DEF TraceeTrap, TraceeTypeOK
  <2>2. UNCHANGED <<hrip, fate, steps, sent, entered, execed, execed>>
    BY <1>2 DEF TraceeTrap
  <2>3. QED
    BY <2>1, <2>2 DEF TraceeTypeOK, Alive
<1>3. CASE TraceeExec
  <2>1. /\ rip' \in Nat /\ task' = "stopped" /\ why' = "exec" /\ execed' = TRUE
        /\ steps' \in Nat /\ hrip' \in [Helpers -> Instr \cup {0}]
    BY <1>3 DEF TraceeExec, TraceeTypeOK
  <2>2. UNCHANGED <<fate, sent, entered>>
    BY <1>3 DEF TraceeExec
  <2>3. QED
    BY <2>1, <2>2 DEF TraceeTypeOK, Alive
<1>4. CASE TraceeExit
  BY <1>4 DEF TraceeExit, TraceeTypeOK
<1>5. QED
  BY <1>1, <1>2, <1>3, <1>4 DEF Tracee

LEMMA WorldTypes ==
  ASSUME TraceeTypeOK, World \/ Detach
  PROVE  TraceeTypeOK'
<1> USE DebuggerAssumption
<1>1. ASSUME NEW h \in Helpers, HelperStart(h) PROVE TraceeTypeOK'
  <2>1. hrip' \in [Helpers -> Instr \cup {0}]
    BY <1>1 DEF HelperStart, TraceeTypeOK
  <2>2. UNCHANGED <<task, why, rip, fate, steps, sent, entered, execed, execed>>
    BY <1>1 DEF HelperStart
  <2>3. QED
    BY <2>1, <2>2 DEF TraceeTypeOK
<1>2. ASSUME NEW h \in Helpers, HelperStep(h) PROVE TraceeTypeOK'
  <2>1. hrip' \in [Helpers -> Instr \cup {0}]
    <3>1. PICK a \in Succ[hrip[h]] : hrip' = [hrip EXCEPT ![h] = a]
      BY <1>2 DEF HelperStep
    <3>2. a \in Instr
      BY <1>2, <3>1 DEF HelperStep
    <3>3. QED
      BY <3>1, <3>2 DEF TraceeTypeOK
  <2>2. steps' \in Nat
    BY <1>2 DEF HelperStep, TraceeTypeOK
  <2>3. UNCHANGED <<task, why, rip, fate, sent, entered, execed>>
    BY <1>2 DEF HelperStep
  <2>4. QED
    BY <2>1, <2>2, <2>3 DEF TraceeTypeOK
<1>3. ASSUME NEW h \in Helpers, HelperTrap(h) PROVE TraceeTypeOK'
  BY <1>3 DEF HelperTrap, TraceeTypeOK
<1>4. ASSUME NEW s \in Signals, Deliver(s) PROVE TraceeTypeOK'
  <2>1. /\ task' = "stopped" /\ why' \in {"user", "signal"} /\ sent' \in Nat
        /\ UNCHANGED <<rip, hrip, fate, steps, entered, execed>>
    BY <1>4 DEF Deliver, TraceeTypeOK
  <2>2. QED
    BY <2>1 DEF TraceeTypeOK, Alive
<1>5. CASE Kill
  BY <1>5 DEF Kill, TraceeTypeOK
<1>6. CASE OrphanStep
  <2>1. rip' \in Nat /\ steps' \in Nat
    BY <1>6, PtraceAssumption DEF OrphanStep, TraceeTypeOK
  <2>2. UNCHANGED <<task, why, hrip, fate, sent, entered, execed>>
    BY <1>6 DEF OrphanStep
  <2>3. QED
    BY <2>1, <2>2 DEF TraceeTypeOK
<1>7. CASE OrphanEnd
  BY <1>7 DEF OrphanEnd, TraceeTypeOK
<1>8. CASE Detach
  BY <1>8 DEF Detach, TraceeTypeOK
<1>9. QED
  BY <1>1, <1>2, <1>3, <1>4, <1>5, <1>6, <1>7, <1>8 DEF World

(* Where the debuggee can be when it moves, and where it can move to. *)
LEMMA WorldControl ==
  ASSUME ControlInv, UNCHANGED debugger,
         TraceeStep \/ TraceeTrap \/ TraceeExit \/ World \/ Detach
  PROVE  ControlInv'
<1>1. UNCHANGED <<dbg, bps, bp>>
  BY DEF debugger, book
<1>2. /\ task' = "running" => task = "running"
      /\ task' = "stepping" => task = "stepping" /\ rip' = rip
      /\ task' = "orphan" => task = "orphan" \/ dbg \in Ended
      /\ dbg \in {"disable", "step"} => rip' = rip
  <2> USE DEF ControlInv, Running, Ended
  <2>1. CASE TraceeStep
    BY <2>1 DEF TraceeStep, AfterStep
  <2>2. CASE TraceeTrap
    BY <2>2 DEF TraceeTrap
  <2>3. CASE TraceeExit
    BY <2>3 DEF TraceeExit
  <2>4. CASE \E h \in Helpers : HelperStart(h) \/ HelperStep(h) \/ HelperTrap(h)
    BY <2>4 DEF HelperStart, HelperStep, HelperTrap
  <2>5. CASE (\E s \in Signals : Deliver(s)) \/ Kill
    BY <2>5 DEF Deliver, Kill
  <2>6. CASE OrphanStep \/ OrphanEnd \/ Detach
    BY <2>6 DEF OrphanStep, OrphanEnd, Detach
  <2>7. QED
    BY <2>1, <2>2, <2>3, <2>4, <2>5, <2>6 DEF World
<1>3. QED
  BY <1>1, <1>2 DEF ControlInv, Planted

LEMMA WorldIInv ==
  IInv /\ (TraceeStep \/ TraceeTrap \/ TraceeExit \/ World \/ Detach) => IInv'
<1> SUFFICES ASSUME IInv, TraceeStep \/ TraceeTrap \/ TraceeExit \/ World \/ Detach
             PROVE  IInv'
  OBVIOUS
<1>1. UNCHANGED <<mem, execed, debugger>>
  BY WorldLeaves
<1>2. TypeOK'
  <2>1. TraceeTypeOK /\ DebuggerTypeOK /\ mem \in [Addr -> Byte]
    BY TypeHalves DEF IInv
  <2>2. TraceeTypeOK'
    BY <2>1, TraceeTypes, WorldTypes DEF Tracee
  <2>3. QED
    BY <1>1, <2>1, <2>2, DebuggerTypeFrame, TypeHalvesNext
<1>3. ControlInv'
  BY <1>1, WorldControl DEF IInv
<1>4. UNCHANGED <<mem, execed, dbg, bps>>
  BY <1>1 DEF debugger, book
<1>5. FunctionInv' /\ MemoryIntact' /\ TextRecoverable'
  BY <1>4 DEF IInv, FunctionInv, MemoryIntact, TextRecoverable, Armed, Planted
<1>6. QED
  BY <1>2, <1>3, <1>5 DEF IInv

(* execve is called between breakpoints, never under a single step: no     *)
(* traced function begins with it.                                         *)
LEMMA ExecFromWait ==
  ASSUME IInv, TraceeExec
  PROVE  task = "running" /\ dbg = "wait"
<1>1. task # "stepping"
  <2> SUFFICES ASSUME task = "stepping" PROVE FALSE
    OBVIOUS
  <2>1. rip = bp /\ bp \in SymAddrs
    BY DEF IInv, ControlInv, TypeOK, Planted
  <2>2. QED
    BY <2>1, ProgramAssumption DEF TraceeExec
<1>2. QED
  BY <1>1 DEF IInv, ControlInv, TraceeExec, Running

LEMMA ExecIInv == IInv /\ TraceeExec => IInv'
<1> SUFFICES ASSUME IInv, TraceeExec PROVE IInv'
  OBVIOUS
<1>1. dbg = "wait" /\ UNCHANGED debugger /\ UNCHANGED <<dbg, bps, bp>>
  BY ExecFromWait DEF TraceeExec, debugger, book
<1>2. TypeOK'
  <2>1. TraceeTypeOK /\ DebuggerTypeOK
    BY TypeHalves DEF IInv
  <2>2. TraceeTypeOK'
    BY <2>1, TraceeTypes DEF Tracee
  <2>3. mem' \in [Addr -> Byte]
    BY DebuggerAssumption DEF TraceeExec
  <2>4. QED
    BY <1>1, <2>1, <2>2, <2>3, DebuggerTypeFrame, TypeHalvesNext
<1>3. ControlInv'
  BY <1>1 DEF IInv, ControlInv, TraceeExec, Planted, Ended
<1>4. MemoryIntact'
  BY DEF TraceeExec, MemoryIntact
<1>5. FunctionInv' /\ TextRecoverable'
  BY <1>1 DEF IInv, FunctionInv, TextRecoverable
<1>6. QED
  BY <1>2, <1>3, <1>4, <1>5 DEF IInv

(* The steps of the debugger that touch neither a breakpoint nor text.     *)
LEMMA QuietIInv ==
  ASSUME IInv, \/ WaitForExec \/ SkipFunction \/ PlantDone \/ Continue \/ Wait
               \/ Inspect \/ Report \/ Rewind \/ Step \/ WaitForStep
  PROVE  IInv'
<1> USE PtraceAssumption, FuncsType DEF IInv
<1>1. UNCHANGED <<mem, bps, execed>>
  BY DEF WaitForExec, Wait, WaitForStep, WaitForSignal, SkipFunction, PlantDone,
         Continue, Step, Resume, Inspect, Report, Rewind, tracee, others, book
<1>2. FunctionInv' /\ MemoryIntact'
  <2>1. FunctionInv'
    BY <1>1 DEF FunctionInv
  <2>2. MemoryIntact'
    BY <1>1 DEF MemoryIntact, Armed, Planted
  <2>3. QED
    BY <2>1, <2>2
<1>3. CASE WaitForExec \/ Wait \/ WaitForStep
  <2> USE <1>1, <1>3 DEF WaitForExec, Wait, WaitForStep, WaitForSignal, others, book
  <2>1. TypeOK'
    BY DEF TypeOK, Alive, Setup, Loop, Ended
  <2>2. ControlInv' /\ TextRecoverable'
    BY DEF ControlInv, TextRecoverable, Planted, Ended
  <2>3. QED
    BY <1>2, <2>1, <2>2
<1>4. CASE SkipFunction \/ PlantDone
  <2> USE <1>1, <1>4 DEF SkipFunction, PlantDone, tracee, others
  <2>1. TypeOK'
    BY DEF TypeOK, Alive, Setup, Loop, Ended
  <2>2. ControlInv' /\ TextRecoverable'
    BY DEF ControlInv, TextRecoverable, Planted, Ended
  <2>3. QED
    BY <1>2, <2>1, <2>2
<1>5. CASE Continue \/ Step
  <2> USE <1>1, <1>5 DEF Continue, Step, Resume, Attached, others, book
  <2>1. TypeOK'
    BY DEF TypeOK, Alive, Setup, Loop, Ended
  <2>2. ControlInv' /\ TextRecoverable'
    BY DEF ControlInv, TextRecoverable, Planted, Ended
  <2>3. QED
    BY <1>2, <2>1, <2>2
<1>6. CASE Inspect
  <2> USE <1>1, <1>6 DEF Inspect, Attached, tracee, others
  <2>1. TypeOK'
    BY DEF TypeOK, Alive, Setup, Loop, Ended
  <2>2. ControlInv' /\ TextRecoverable'
    BY DEF ControlInv, TextRecoverable, Planted, Ended
  <2>3. QED
    BY <1>2, <2>1, <2>2
<1>7. CASE Report
  <2> USE <1>1, <1>7 DEF Report, Attached, tracee, others
  <2>1. log' \in Seq(Nat)
    <3>1. log \in Seq(Nat) /\ Funcs[bps[bp].fn].low_pc \in Nat
      BY DEF TypeOK, ControlInv, FunctionInv, Planted
    <3>2. Append(log, Funcs[bps[bp].fn].low_pc) \in Seq(Nat)
      BY <3>1, AppendIsSeq
    <3>3. QED
      BY <3>1, <3>2
  <2>2. TypeOK'
    BY <2>1 DEF TypeOK, Alive, Setup, Loop, Ended
  <2>3. ControlInv' /\ TextRecoverable'
    BY DEF ControlInv, TextRecoverable, Planted, Ended
  <2>4. QED
    BY <1>2, <2>2, <2>3
<1>8. CASE Rewind
  <2> USE <1>1, <1>8 DEF Rewind, Attached, others, book
  <2>1. rip' \in Nat
    BY DEF TypeOK, ControlInv, Planted
  <2>2. TypeOK'
    BY <2>1 DEF TypeOK, Alive, Setup, Loop, Ended
  <2>3. ControlInv' /\ TextRecoverable'
    BY DEF ControlInv, TextRecoverable, Planted, Ended
  <2>4. QED
    BY <1>2, <2>2, <2>3
<1>9. QED
  BY <1>3, <1>4, <1>5, <1>6, <1>7, <1>8

(* The byte enable_breakpoint saves is the one it overwrites. *)
LEMMA SavedByteIs ==
  ASSUME NEW m \in [Addr -> Byte], NEW a \in Int
  PROVE  SavedByte(TRUE, m, a) = m[a]
BY PtraceAssumption DEF SavedByte, Peek

LEMMA NewBreakpointIs ==
  ASSUME NEW m \in [Addr -> Byte], NEW a \in Int, NEW fn
  PROVE  Enabled(m, a, NewBreakpoint(fn)) = [orig |-> m[a], enabled |-> TRUE, fn |-> fn]
BY SavedByteIs DEF Enabled, NewBreakpoint

LEMMA PlantIInv == IInv /\ PlantFunction => IInv'
<1> SUFFICES ASSUME IInv, PlantFunction PROVE IInv'
  OBVIOUS
<1> USE DEF IInv
<1> PICK a \in Nat : next_fn \in 1 .. Len(Funcs) /\ a = Funcs[next_fn].low_pc
  BY FuncsType DEF PlantFunction, TypeOK
<1>1. mem \in [Addr -> Byte] /\ a \in Int
  BY DEF TypeOK
<1>2. /\ a \notin DOMAIN bps
      /\ a \in SymAddrs
      /\ dbg = "plant" /\ UNCHANGED <<task, why, rip, hrip, fate, steps, sent, entered, execed, bp, log>>
  BY DEF PlantFunction, Taken, Planted, others
<1>3. CASE dbg' = "abort" /\ UNCHANGED <<mem, bps, next_fn>>
  <2>1. TypeOK'
    <3>1. TraceeTypeOK'
      BY <1>2, TypeHalves DEF TraceeTypeOK
    <3>2. DebuggerTypeOK'
      BY <1>2, <1>3, TypeHalves DEF DebuggerTypeOK, Ended
    <3>3. QED
      BY <1>1, <1>3, <3>1, <3>2, TypeHalvesNext
  <2>2. ControlInv'
    BY <1>2, <1>3 DEF ControlInv, Planted, Ended
  <2>3. FunctionInv' /\ TextRecoverable'
    BY <1>3 DEF FunctionInv, TextRecoverable, Ended
  <2>4. MemoryIntact'
    BY <1>2, <1>3 DEF MemoryIntact, Armed, Planted
  <2>5. QED
    BY <2>1, <2>2, <2>3, <2>4
<1>4. CASE /\ ~PeekFails(mem, a)
           /\ bps' = SetAt(bps, a, Enabled(mem, a, NewBreakpoint(next_fn)))
           /\ mem' = WithInt3(mem, a)
           /\ next_fn' = next_fn + 1
           /\ UNCHANGED dbg
  <2> DEFINE new == [orig |-> mem[a], enabled |-> TRUE, fn |-> next_fn]
  <2>1. a \in Addr /\ mem' = [mem EXCEPT ![a] = INT3]
    BY <1>1, <1>4, WithInt3Is
  <2>2. bps' = SetAt(bps, a, new)
    BY <1>1, <1>4, NewBreakpointIs
  <2>3. /\ DOMAIN bps' = DOMAIN bps \cup {a}
        /\ bps'[a] = new
        /\ \A x \in DOMAIN bps : bps'[x] = bps[x]
    BY <1>2, <2>2 DEF SetAt
  <2>4. mem[a] = Text[a]
    BY <1>2, <2>1 DEF MemoryIntact, Armed, Planted
  <2>5. bps' \in [DOMAIN bps' -> BreakpointRecord]
    <3>1. new \in BreakpointRecord
      BY <1>1, <2>1, FuncsType DEF BreakpointRecord
    <3>2. \A x \in DOMAIN bps' : bps'[x] \in BreakpointRecord
      BY <2>3, <3>1 DEF TypeOK
    <3>3. bps' = [x \in DOMAIN bps' |-> bps'[x]]
      BY <2>2, <2>3 DEF SetAt
    <3>4. QED
      BY <3>2, <3>3
  <2>6. TypeOK'
    <3>1. TraceeTypeOK'
      BY <1>2, TypeHalves DEF TraceeTypeOK
    <3>2. mem' \in [Addr -> Byte]
      BY <1>1, <2>1, PtraceAssumption
    <3>3. next_fn' \in 1 .. (Len(Funcs) + 1)
      BY <1>4, FuncsType
    <3>4. DOMAIN bps' \subseteq SymAddrs \cap Addr
      BY <1>2, <2>1, <2>3 DEF TypeOK
    <3>5. DebuggerTypeOK'
      BY <1>2, <1>4, <2>5, <3>3, <3>4, TypeHalves DEF DebuggerTypeOK
    <3>6. QED
      BY <3>1, <3>2, <3>5, TypeHalvesNext
  <2>7. ControlInv'
    BY <1>2, <1>4, <2>3 DEF ControlInv, Planted, Ended
  <2>8. FunctionInv'
    BY <2>3 DEF FunctionInv
  <2>9. MemoryIntact'
    <3>1. \A x \in Addr : x # a => mem'[x] = mem[x] /\ (Armed(x))' = Armed(x)
      BY <1>1, <2>1, <2>3 DEF Armed, Planted
    <3>2. mem'[a] = INT3 /\ (Armed(a))'
      BY <1>1, <2>1, <2>3 DEF Armed, Planted
    <3>3. QED
      BY <1>2, <3>1, <3>2 DEF MemoryIntact
  <2>10. TextRecoverable'
    BY <1>2, <1>4, <2>3, <2>4 DEF TextRecoverable, Ended
  <2>11. QED
    BY <2>6, <2>7, <2>8, <2>9, <2>10
<1>5. QED
  BY <1>3, <1>4 DEF PlantFunction

LEMMA DisableIInv == IInv /\ Disable => IInv'
<1> SUFFICES ASSUME IInv, Disable PROVE IInv'
  OBVIOUS
<1> USE DEF IInv
<1>1. /\ mem \in [Addr -> Byte] /\ bp \in Int /\ bp \in DOMAIN bps
      /\ bps[bp] \in BreakpointRecord
  BY DEF Disable, TypeOK, ControlInv, Planted
<1>2. /\ dbg = "disable"
      /\ UNCHANGED <<task, why, rip, hrip, fate, steps, sent, entered, execed, next_fn, bp, log>>
  BY DEF Disable, others
<1>3. CASE dbg' = "abort" /\ UNCHANGED <<mem, bps>>
  <2>1. TypeOK'
    <3>1. TraceeTypeOK'
      BY <1>2, TypeHalves DEF TraceeTypeOK
    <3>2. DebuggerTypeOK'
      BY <1>2, <1>3, TypeHalves DEF DebuggerTypeOK, Ended
    <3>3. QED
      BY <1>1, <1>3, <3>1, <3>2, TypeHalvesNext
  <2>2. ControlInv'
    BY <1>2, <1>3 DEF ControlInv, Planted, Ended
  <2>3. FunctionInv' /\ TextRecoverable'
    BY <1>3 DEF FunctionInv, TextRecoverable, Ended
  <2>4. MemoryIntact'
    BY <1>2, <1>3 DEF MemoryIntact, Armed, Planted
  <2>5. QED
    BY <2>1, <2>2, <2>3, <2>4
<1>4. CASE /\ Attached /\ ~PeekFails(mem, bp)
           /\ mem' = WithOriginal(mem, bp, bps[bp])
           /\ bps' = [bps EXCEPT ![bp] = Disabled(@)]
           /\ dbg' = "step"
  <2>1. bp \in Addr /\ mem' = [mem EXCEPT ![bp] = bps[bp].orig]
    BY <1>1, <1>4, WithOriginalIs
  <2>2. /\ DOMAIN bps' = DOMAIN bps
        /\ bps'[bp] = [orig |-> bps[bp].orig, enabled |-> FALSE, fn |-> bps[bp].fn]
        /\ \A x \in DOMAIN bps \ {bp} : bps'[x] = bps[x]
    BY <1>1, <1>4 DEF Disabled, BreakpointRecord
  <2>3. bps[bp].orig = Text[bp] /\ bps[bp].orig \in Byte
    BY <1>1, <1>2 DEF TextRecoverable, BreakpointRecord, Ended
  <2>4. bps' \in [DOMAIN bps' -> BreakpointRecord]
    <3>1. bps'[bp] \in BreakpointRecord
      BY <1>1, <2>2, <2>3 DEF BreakpointRecord
    <3>2. QED
      BY <1>1, <1>4, <2>2, <3>1 DEF TypeOK
  <2>5. TypeOK'
    <3>1. TraceeTypeOK'
      BY <1>2, TypeHalves DEF TraceeTypeOK
    <3>2. DebuggerTypeOK'
      BY <1>2, <1>4, <2>2, <2>4, TypeHalves DEF DebuggerTypeOK, Loop
    <3>3. mem' \in [Addr -> Byte]
      BY <1>1, <2>1, <2>3
    <3>4. QED
      BY <3>1, <3>2, <3>3, TypeHalvesNext
  <2>6. ControlInv'
    BY <1>1, <1>2, <1>4, <2>2 DEF ControlInv, Planted, Ended, Attached
  <2>7. FunctionInv'
    BY <1>1, <2>2 DEF FunctionInv
  <2>8. MemoryIntact'
    <3>1. \A x \in Addr : x # bp => mem'[x] = mem[x] /\ (x \in DOMAIN bps => bps'[x] = bps[x])
      BY <1>1, <2>1, <2>2
    <3>2. mem'[bp] = Text[bp] /\ ~bps'[bp].enabled
      BY <1>1, <2>1, <2>2, <2>3
    <3>3. \A x \in Addr \ {bp} : (Armed(x))' = Armed(x)
      BY <2>2, <3>1 DEF Armed, Planted
    <3>4. ASSUME NEW x \in Addr
          PROVE  /\ mem'[x] # Text[x] => (Armed(x))' /\ mem'[x] = INT3
                 /\ (Armed(x))' /\ ~execed' => mem'[x] = INT3
      <4>1. CASE x = bp
        BY <1>1, <2>2, <3>2, <4>1 DEF Armed, Planted
      <4>2. CASE x # bp
        BY <1>2, <3>1, <3>3, <4>2 DEF MemoryIntact
      <4>3. QED
        BY <4>1, <4>2
    <3>5. QED
      BY <3>4 DEF MemoryIntact
  <2>9. TextRecoverable'
    BY <1>2, <2>2, <2>3 DEF TextRecoverable, Ended
  <2>10. QED
    BY <2>5, <2>6, <2>7, <2>8, <2>9
<1>5. QED
  BY <1>3, <1>4 DEF Disable

LEMMA EnableIInv == IInv /\ Enable => IInv'
<1> SUFFICES ASSUME IInv, Enable PROVE IInv'
  OBVIOUS
<1> USE DEF IInv
<1>1. /\ mem \in [Addr -> Byte] /\ bp \in Int /\ bp \in DOMAIN bps
      /\ bps[bp] \in BreakpointRecord
  BY DEF Enable, TypeOK, ControlInv, Planted
<1>2. /\ dbg = "enable"
      /\ UNCHANGED <<task, why, rip, hrip, fate, steps, sent, entered, execed, next_fn, bp, log>>
  BY DEF Enable, others
<1>3. CASE /\ bps' = [bps EXCEPT ![bp].orig = SavedByte(FALSE, mem, bp)]
           /\ dbg' = "abort"
           /\ UNCHANGED mem
  <2>1. /\ DOMAIN bps' = DOMAIN bps
        /\ bps'[bp] = [orig |-> ONES, enabled |-> bps[bp].enabled, fn |-> bps[bp].fn]
        /\ \A x \in DOMAIN bps \ {bp} : bps'[x] = bps[x]
    BY <1>1, <1>3 DEF SavedByte, BreakpointRecord
  <2>2. bps' \in [DOMAIN bps' -> BreakpointRecord]
    <3>1. bps'[bp] \in BreakpointRecord
      BY <1>1, <2>1, PtraceAssumption DEF BreakpointRecord
    <3>2. QED
      BY <1>1, <1>3, <2>1, <3>1 DEF TypeOK
  <2>3. TypeOK'
    <3>1. TraceeTypeOK'
      BY <1>2, TypeHalves DEF TraceeTypeOK
    <3>2. DebuggerTypeOK'
      BY <1>2, <1>3, <2>1, <2>2, TypeHalves DEF DebuggerTypeOK, Ended
    <3>3. QED
      BY <1>1, <1>3, <3>1, <3>2, TypeHalvesNext
  <2>4. ControlInv'
    BY <1>1, <1>2, <1>3, <2>1 DEF ControlInv, Planted, Ended
  <2>5. FunctionInv'
    BY <1>1, <2>1 DEF FunctionInv
  <2>6. MemoryIntact'
    <3>1. \A x \in DOMAIN bps : bps'[x].enabled = bps[x].enabled
      BY <1>1, <2>1
    <3>2. QED
      BY <1>2, <1>3, <2>1, <3>1 DEF MemoryIntact, Armed, Planted
  <2>7. TextRecoverable'
    BY <1>3 DEF TextRecoverable, Ended
  <2>8. QED
    BY <2>3, <2>4, <2>5, <2>6, <2>7
<1>4. CASE /\ Attached /\ ~PeekFails(mem, bp)
           /\ bps' = [bps EXCEPT ![bp] = Enabled(mem, bp, @)]
           /\ mem' = WithInt3(mem, bp)
           /\ dbg' = "cont"
  <2>1. bp \in Addr /\ mem' = [mem EXCEPT ![bp] = INT3]
    BY <1>1, <1>4, WithInt3Is
  <2>2. /\ DOMAIN bps' = DOMAIN bps
        /\ bps'[bp] = [orig |-> mem[bp], enabled |-> TRUE, fn |-> bps[bp].fn]
        /\ \A x \in DOMAIN bps \ {bp} : bps'[x] = bps[x]
    BY <1>1, <1>4, SavedByteIs DEF Enabled
  <2>3. mem[bp] = Text[bp]
    BY <1>1, <1>2, <2>1 DEF MemoryIntact, Armed, Planted, ControlInv
  <2>4. bps' \in [DOMAIN bps' -> BreakpointRecord]
    <3>1. bps'[bp] \in BreakpointRecord
      BY <1>1, <2>1, <2>2 DEF BreakpointRecord
    <3>2. QED
      BY <1>1, <1>4, <2>2, <3>1 DEF TypeOK
  <2>5. TypeOK'
    <3>1. TraceeTypeOK'
      BY <1>2, TypeHalves DEF TraceeTypeOK
    <3>2. DebuggerTypeOK'
      BY <1>2, <1>4, <2>2, <2>4, TypeHalves DEF DebuggerTypeOK, Loop
    <3>3. mem' \in [Addr -> Byte]
      BY <1>1, <2>1, PtraceAssumption
    <3>4. QED
      BY <3>1, <3>2, <3>3, TypeHalvesNext
  <2>6. ControlInv'
    BY <1>1, <1>2, <1>4, <2>2 DEF ControlInv, Planted, Ended, Attached
  <2>7. FunctionInv'
    BY <1>1, <2>2 DEF FunctionInv
  <2>8. MemoryIntact'
    <3>1. \A x \in Addr : x # bp => mem'[x] = mem[x] /\ (x \in DOMAIN bps => bps'[x] = bps[x])
      BY <1>1, <2>1, <2>2
    <3>2. mem'[bp] = INT3 /\ bps'[bp].enabled
      BY <1>1, <2>1, <2>2, <2>3
    <3>3. \A x \in Addr \ {bp} : (Armed(x))' = Armed(x)
      BY <2>2, <3>1 DEF Armed, Planted
    <3>4. ASSUME NEW x \in Addr
          PROVE  /\ mem'[x] # Text[x] => (Armed(x))' /\ mem'[x] = INT3
                 /\ (Armed(x))' /\ ~execed' => mem'[x] = INT3
      <4>1. CASE x = bp
        BY <1>1, <2>2, <3>2, <4>1 DEF Armed, Planted
      <4>2. CASE x # bp
        BY <1>2, <3>1, <3>3, <4>2 DEF MemoryIntact
      <4>3. QED
        BY <4>1, <4>2
    <3>5. QED
      BY <3>4 DEF MemoryIntact
  <2>9. TextRecoverable'
    BY <1>2, <2>2, <2>3 DEF TextRecoverable, Ended
  <2>10. QED
    BY <2>5, <2>6, <2>7, <2>8, <2>9
<1>5. QED
  BY <1>3, <1>4 DEF Enable

LEMMA StepIInv == IInv /\ [Next]_vars => IInv'
<1> SUFFICES ASSUME IInv, [Next]_vars PROVE IInv'
  OBVIOUS
<1>1. CASE UNCHANGED vars
  BY <1>1 DEF IInv, TypeOK, ControlInv, FunctionInv, MemoryIntact, TextRecoverable, Armed,
              Planted, vars, tracee, others, debugger, book
<1>2. CASE Tracee \/ World \/ Detach
  BY <1>2, WorldIInv, ExecIInv DEF Tracee
<1>3. CASE Dbg
  BY <1>3, QuietIInv, PlantIInv, DisableIInv, EnableIInv DEF Dbg
<1>4. CASE Over
  BY <1>1, <1>4 DEF Over
<1>5. QED
  BY <1>1, <1>2, <1>3, <1>4 DEF Next

THEOREM Invariance == Spec => []IInv
BY InitIInv, StepIInv, PTL DEF Spec

-----------------------------------------------------------------------------
(***************************************************************************)
(* What follows from it.                                                   *)
(***************************************************************************)

(* Every variable keeps its type; in particular every key of m_breakpoints *)
(* is a function symbol in mapped text, and the index a breakpoint keeps   *)
(* is one of the function table.                                           *)
THEOREM TypeCorrect == Spec => []TypeOK
<1>1. IInv => TypeOK
  BY DEF IInv
<1>2. QED
  BY <1>1, Invariance, PTL

(* enable_breakpoint and disable_breakpoint, which transfer whole words,   *)
(* never damage a byte other than the breakpoint's own.                    *)
THEOREM TextPreserved == Spec => []MemoryIntact
<1>1. IInv => MemoryIntact
  BY DEF IInv
<1>2. QED
  BY <1>1, Invariance, PTL

(* While the debugger lives, m_original_data of every breakpoint is the    *)
(* byte of the program it stands on.                                       *)
THEOREM OriginalsKept == Spec => []TextRecoverable
<1>1. IInv => TextRecoverable
  BY DEF IInv
<1>2. QED
  BY <1>1, Invariance, PTL

(* PTRACE_CONT is never issued with a breakpoint disabled, nor             *)
(* PTRACE_SINGLESTEP with one other than that at the program counter.      *)
THEOREM AlwaysArmed == Spec => []ArmedWhileRunning
<1>1. IInv => ArmedWhileRunning
  BY DEF IInv, ControlInv, ArmedWhileRunning, Ended
<1>2. QED
  BY <1>1, Invariance, PTL

-----------------------------------------------------------------------------
(***************************************************************************)
(* Every selected function is planted.                                     *)
(***************************************************************************)

Selected(f) ==
  /\ f.low_pc # 0 /\ f.named /\ f.decl_line = "set"
  /\ [type |-> "func", value |-> f.low_pc] \in Symbols

(* The loop of set_all_function_breakpoints, so far and when it has ended. *)
PlantedInv ==
  /\ dbg \in Loop => next_fn = Len(Funcs) + 1
  /\ \A k \in 1 .. (next_fn - 1) : Selected(Funcs[k]) => Planted(Funcs[k].low_pc)

LEMMA SelectedHasSymbol ==
  ASSUME NEW k \in 1 .. Len(Funcs), Selected(Funcs[k])
  PROVE  Funcs[k].low_pc \in SymAddrs
<1> DEFINE s == [type |-> "func", value |-> Funcs[k].low_pc]
<1>1. s \in Symbols /\ s.type = "func" /\ s.value = Funcs[k].low_pc /\ s.value > 0
  BY FuncsType DEF Selected
<1> HIDE DEF s
<1>2. QED
  BY <1>1 DEF SymAddrs

LEMMA StepPlantedInv == IInv /\ PlantedInv /\ [Next]_vars => PlantedInv'
<1> SUFFICES ASSUME IInv, PlantedInv, [Next]_vars PROVE PlantedInv'
  OBVIOUS
<1>1. next_fn \in 1 .. (Len(Funcs) + 1) /\ Len(Funcs) \in Nat
  BY FuncsType DEF IInv, TypeOK
<1>2. CASE SkipFunction
  <2>1. Selected(Funcs[next_fn]) => Planted(Funcs[next_fn].low_pc)
    BY <1>1, <1>2, SelectedHasSymbol DEF SkipFunction, Taken, Selected
  <2>2. QED
    BY <1>1, <1>2, <2>1 DEF SkipFunction, PlantedInv, Planted, Loop
<1>3. CASE PlantFunction
  <2>1. CASE dbg' = "abort" /\ UNCHANGED <<bps, next_fn>>
    BY <1>1, <2>1 DEF PlantedInv, Planted, Loop
  <2>2. CASE /\ bps' = SetAt(bps, Funcs[next_fn].low_pc,
                            Enabled(mem, Funcs[next_fn].low_pc, NewBreakpoint(next_fn)))
             /\ next_fn' = next_fn + 1
             /\ UNCHANGED dbg
    <3>1. DOMAIN bps' = DOMAIN bps \cup {Funcs[next_fn].low_pc}
      BY <2>2 DEF SetAt
    <3>2. dbg' \notin Loop
      BY <1>3, <2>2 DEF PlantFunction, Loop
    <3>3. ASSUME NEW k \in 1 .. (next_fn' - 1), Selected(Funcs[k])
          PROVE  Funcs[k].low_pc \in DOMAIN bps'
      <4>1. CASE k = next_fn
        BY <3>1, <4>1
      <4>2. CASE k # next_fn
        <5>1. k \in 1 .. (next_fn - 1)
          BY <1>1, <2>2, <4>2
        <5>2. Funcs[k].low_pc \in DOMAIN bps
          BY <3>3, <5>1 DEF PlantedInv, Planted
        <5>3. QED
          BY <3>1, <5>2
      <4>3. QED
        BY <4>1, <4>2
    <3>4. QED
      BY <3>2, <3>3 DEF PlantedInv, Planted
  <2>3. QED
    BY <1>3, <2>1, <2>2 DEF PlantFunction
<1>4. CASE PlantDone
  BY <1>1, <1>4 DEF PlantDone, PlantedInv, Planted
<1>5. CASE Disable \/ Enable
  <2>1. DOMAIN bps' = DOMAIN bps /\ next_fn' = next_fn /\ dbg \in Loop
    BY <1>5 DEF Disable, Enable, Loop
  <2>2. QED
    BY <2>1 DEF PlantedInv, Planted
<1>6. CASE WaitForExec \/ Continue \/ Wait \/ Inspect \/ Report \/ Rewind \/ Step \/ WaitForStep
  <2>1. UNCHANGED <<bps, next_fn>> /\ (dbg' \in Loop => dbg \in Loop)
    BY <1>6 DEF WaitForExec, Continue, Wait, Inspect, Report, Rewind, Step, WaitForStep,
                WaitForSignal, Resume, book, Loop
  <2>2. QED
    BY <2>1 DEF PlantedInv, Planted
<1>7. CASE Tracee \/ World \/ Detach \/ Over \/ UNCHANGED vars
  <2>1. UNCHANGED <<dbg, bps, next_fn>>
    <3>1. CASE TraceeStep \/ TraceeTrap \/ TraceeExit \/ World \/ Detach
      BY <3>1, WorldLeaves DEF debugger, book
    <3>2. CASE TraceeExec
      BY <3>2 DEF TraceeExec, debugger, book
    <3>3. CASE Over \/ UNCHANGED vars
      BY <3>3 DEF Over, vars, debugger, book
    <3>4. QED
      BY <1>7, <3>1, <3>2, <3>3 DEF Tracee
  <2>2. QED
    BY <2>1 DEF PlantedInv, Planted
<1>8. QED
  BY <1>2, <1>3, <1>4, <1>5, <1>6, <1>7 DEF Next, Dbg

(* set_all_function_breakpoints: no function that passes its tests is      *)
(* forgotten, whichever unit it comes from and however many share its      *)
(* address.                                                                *)
THEOREM SelectionComplete == Spec => []AllPlanted
<1>1. Init => PlantedInv
  BY FuncsType DEF Init, PlantedInv, Loop
<1>2. IInv /\ PlantedInv => AllPlanted
  BY FuncsType DEF IInv, PlantedInv, AllPlanted, Selected
<1>3. QED
  BY <1>1, <1>2, StepPlantedInv, Invariance, PTL DEF Spec

-----------------------------------------------------------------------------
(***************************************************************************)
(* Calls are printed once, and a program the debugger did not plant is     *)
(* left alone.  Both need two things of the world: nobody sends the        *)
(* debuggee a SIGTRAP, which would be looked up by rip - 1 like any other, *)
(* and no traced function begins with an int3 of its own                   *)
(* (ProgramAssumption).                                                    *)
(***************************************************************************)

(* After an execve the loop never gets past the lookup. *)
ExecInv ==
  execed =>
    /\ mem = Text
    /\ dbg \in {"cont", "wait", "inspect"} \cup Ended
    /\ dbg \in {"wait", "inspect"} /\ task = "stopped" /\ why # "signal" => ~Planted(rip - 1)
    /\ dbg = "inspect" /\ task = "stopped" => why # "signal"

(* Which of the two, the printing or the call, the loop has got to.        *)
LogInv ==
  /\ dbg \in Setup \cup {"cont", "wait", "inspect", "report"} => log = entered
  /\ dbg \in {"rewind", "disable", "step"} => log = Append(entered, bp)
  /\ task = "stepping" => log = Append(entered, bp)
  /\ dbg = "stepwait" /\ task = "stopped" =>
       \/ why = "trace" /\ log = entered
       \/ why = "signal"
  /\ dbg = "enable" /\ task = "stopped" => log = entered
  /\ ReportedOnce

LEMMA StepExecInv ==
  ASSUME "trap" \notin Signals, IInv, ExecInv, [Next]_vars
  PROVE  ExecInv'
<1>1. CASE TraceeExec
  <2>1. dbg' = "wait" /\ mem' = Text /\ why' = "exec" /\ bps' = bps /\ rip' = Entry
    BY <1>1, ExecFromWait DEF TraceeExec, debugger, book
  <2>2. ~(Planted(rip - 1))'
    BY <2>1, ProgramAssumption DEF Planted, IInv, TypeOK
  <2>3. QED
    BY <2>1, <2>2 DEF ExecInv
<1>2. CASE TraceeStep \/ TraceeTrap \/ TraceeExit \/ World \/ Detach
  <2>1. UNCHANGED <<mem, execed, dbg, bps>>
    BY <1>2, WorldLeaves DEF debugger, book
  <2>2. SUFFICES ASSUME execed PROVE ExecInv'
    BY <2>1 DEF ExecInv
  <2>3. task # "stepping"
    BY <2>2 DEF ExecInv, IInv, ControlInv, Ended
  <2>4. CASE TraceeStep \/ TraceeExit
    <3>1. task' # "stopped"
      BY <2>3, <2>4 DEF TraceeStep, TraceeExit, AfterStep, Running
    <3>2. QED
      BY <2>1, <2>2, <3>1 DEF ExecInv
  <2>5. CASE TraceeTrap
    <3>1. dbg = "wait"
      BY <2>3, <2>5 DEF TraceeTrap, Running, IInv, ControlInv
    <3>2. rip \in Addr /\ Text[rip] = INT3 /\ rip' = rip + 1
      BY <2>2, <2>5, DebuggerAssumption DEF TraceeTrap, ExecInv
    <3>3. rip \notin DOMAIN bps
      BY <3>2, ProgramAssumption DEF IInv, TypeOK
    <3>4. ~(Planted(rip - 1))'
      BY <2>1, <3>2, <3>3, PtraceAssumption DEF Planted
    <3>5. QED
      BY <2>1, <2>2, <3>1, <3>4 DEF ExecInv
  <2>6. CASE \E s \in Signals : Deliver(s)
    <3>1. why' = "signal" /\ dbg = "wait"
      BY <2>3, <2>6, DebuggerAssumption DEF Deliver, Running, IInv, ControlInv
    <3>2. QED
      BY <2>1, <2>2, <3>1 DEF ExecInv
  <2>7. CASE \E h \in Helpers : HelperStart(h) \/ HelperStep(h)
    BY <2>1, <2>2, <2>7 DEF HelperStart, HelperStep, ExecInv, Planted
  <2>8. CASE \/ \E h \in Helpers : HelperTrap(h)
             \/ Kill \/ OrphanStep \/ OrphanEnd \/ Detach
    <3>1. task' # "stopped"
      BY <2>8 DEF HelperTrap, Kill, OrphanStep, OrphanEnd, Detach
    <3>2. QED
      BY <2>1, <2>2, <3>1 DEF ExecInv
  <2>9. QED
    BY <1>2, <2>4, <2>5, <2>6, <2>7, <2>8 DEF World
<1>3. CASE Dbg
  <2>1. SUFFICES ASSUME execed, dbg \in {"cont", "wait", "inspect"} PROVE ExecInv'
    <3>1. execed' = execed /\ dbg \notin Ended
      BY <1>3 DEF Dbg, WaitForExec, Wait, WaitForStep, WaitForSignal, SkipFunction, PlantFunction,
             PlantDone, Continue, Step, Resume, Inspect, Report, Rewind, Disable, Enable,
             tracee, others, Ended
    <3>2. QED
      BY <3>1 DEF ExecInv
  <2>2. Continue \/ Wait \/ Inspect
    BY <1>3, <2>1 DEF Dbg, WaitForExec, WaitForStep, WaitForSignal, SkipFunction, PlantFunction,
           PlantDone, Step, Resume, Report, Rewind, Disable, Enable
  <2>3. UNCHANGED <<mem, execed, rip, bps>>
    BY <2>2 DEF Continue, Wait, Inspect, WaitForSignal, Resume, tracee, others, book
  <2>4. CASE Continue
    BY <2>1, <2>3, <2>4 DEF Continue, Resume, Attached, ExecInv
  <2>5. CASE Wait
    BY <2>1, <2>3, <2>5 DEF Wait, WaitForSignal, ExecInv, Planted, Ended
  <2>6. CASE Inspect
    BY <2>1, <2>3, <2>6 DEF Inspect, Attached, ExecInv, Planted, Ended, tracee
  <2>7. QED
    BY <2>2, <2>4, <2>5, <2>6
<1>4. CASE Over \/ UNCHANGED vars
  BY <1>4 DEF Over, ExecInv, Planted, vars, tracee, others, debugger, book
<1>5. QED
  BY <1>1, <1>2, <1>3, <1>4 DEF Next, Tracee

LEMMA StepLogInv ==
  ASSUME "trap" \notin Signals, IInv, ExecInv, LogInv, [Next]_vars
  PROVE  LogInv'
<1>1. CASE Tracee
  <2> USE DEF LogInv, ReportedOnce, ControlInv, Setup, Ended
  <2>1. ControlInv /\ UNCHANGED <<dbg, bps, bp, log>>
    BY <1>1 DEF IInv, Tracee, TraceeStep, TraceeTrap, TraceeExec, TraceeExit, debugger, book
  <2>2. CASE TraceeStep
    <3>1. CASE task = "running"
      <4>1. ~Planted(rip) \/ execed
        BY <2>1, <2>2, <3>1, DebuggerAssumption DEF TraceeStep, IInv, MemoryIntact, Armed, Planted
      <4>2. entered' = entered /\ dbg = "wait" /\ task' = "running"
        BY <2>1, <2>2, <3>1, <4>1 DEF TraceeStep, AfterStep
      <4>3. QED
        BY <2>1, <4>2
    <3>2. CASE task = "stepping"
      <4>1. dbg = "stepwait" /\ Planted(rip) /\ rip = bp /\ ~execed
        BY <2>1, <3>2 DEF ExecInv
      <4>2. entered' = Append(entered, bp) /\ task' = "stopped" /\ why' = "trace"
        BY <2>2, <3>2, <4>1 DEF TraceeStep, AfterStep
      <4>3. QED
        BY <2>1, <3>2, <4>1, <4>2
    <3>3. QED
      BY <2>2, <3>1, <3>2 DEF TraceeStep, Running
  <2>3. CASE TraceeTrap
    <3>1. CASE task = "running"
      BY <2>1, <2>3, <3>1 DEF TraceeTrap
    <3>2. CASE task = "stepping"
      <4>1. rip = bp /\ bp \in DOMAIN bps /\ ~bps[bp].enabled
        BY <2>1, <3>2 DEF Planted
      <4>2. rip \in SymAddrs \cap Addr /\ mem[rip] = Text[rip]
        BY <4>1 DEF IInv, TypeOK, MemoryIntact, Armed
      <4>3. mem[rip] # INT3
        BY <4>2, ProgramAssumption
      <4>4. QED
        BY <2>3, <4>3 DEF TraceeTrap
    <3>3. QED
      BY <2>3, <3>1, <3>2 DEF TraceeTrap, Running
  <2>4. CASE TraceeExec
    <3>1. task = "running" /\ dbg = "wait"
      BY <2>4, ExecFromWait
    <3>2. QED
      BY <2>1, <2>4, <3>1 DEF TraceeExec
  <2>5. CASE TraceeExit
    BY <2>1, <2>5 DEF TraceeExit
  <2>6. QED
    BY <1>1, <2>2, <2>3, <2>4, <2>5 DEF Tracee
<1>2. CASE World \/ Detach
  <2> USE DEF LogInv, ReportedOnce, Setup, Ended
  <2>1. ControlInv /\ UNCHANGED <<dbg, bps, bp, log>>
    BY <1>2, WorldLeaves DEF IInv, debugger, book
  <2>2. entered' = entered
    BY <1>2 DEF World, HelperStart, HelperStep, HelperTrap, Deliver, Kill, OrphanStep, OrphanEnd,
                Detach
  <2>3. CASE \E s \in Signals : Deliver(s)
    <3>1. why' = "signal" /\ task' = "stopped" /\ dbg \in {"wait", "stepwait"}
      BY <2>1, <2>3, DebuggerAssumption DEF Deliver, Running, ControlInv
    <3>2. QED
      BY <2>1, <2>2, <3>1
  <2>4. CASE \E h \in Helpers : HelperStart(h) \/ HelperStep(h)
    <3>1. UNCHANGED <<task, why>>
      BY <2>4 DEF HelperStart, HelperStep
    <3>2. QED
      BY <2>1, <2>2, <3>1
  <2>5. CASE \/ \E h \in Helpers : HelperTrap(h)
             \/ Kill \/ OrphanStep \/ OrphanEnd \/ Detach
    <3>1. task' \notin {"stopped", "stepping"}
      BY <2>5 DEF HelperTrap, Kill, OrphanStep, OrphanEnd, Detach
    <3>2. QED
      BY <2>1, <2>2, <3>1
  <2>6. QED
    BY <1>2, <2>3, <2>4, <2>5 DEF World
<1>3. CASE Dbg
  <2> USE DEF LogInv, ReportedOnce, Setup, Ended
  <2>1. CASE WaitForExec \/ Wait \/ WaitForStep
    BY <2>1 DEF WaitForExec, Wait, WaitForStep, WaitForSignal, others, book
  <2>2. CASE SkipFunction \/ PlantFunction \/ PlantDone
    BY <2>2 DEF SkipFunction, PlantFunction, PlantDone, tracee, others
  <2>3. CASE Continue \/ Step
    BY <2>3 DEF Continue, Step, Resume, Attached, others, book
  <2>4. CASE Inspect \/ Rewind
    BY <2>4 DEF Inspect, Rewind, tracee, others, book
  <2>5. CASE Report
    <3>1. Funcs[bps[bp].fn].low_pc = bp
      BY <2>5 DEF Report, IInv, ControlInv, FunctionInv, Planted
    <3>2. QED
      BY <2>5, <3>1 DEF Report, tracee, others
  <2>6. CASE Disable \/ Enable
    BY <2>6 DEF Disable, Enable, Attached, others
  <2>7. QED
    BY <1>3, <2>1, <2>2, <2>3, <2>4, <2>5, <2>6 DEF Dbg
<1>4. CASE Over \/ UNCHANGED vars
  BY <1>4 DEF Over, LogInv, ReportedOnce, vars, tracee, others, debugger, book
<1>5. QED
  BY <1>1, <1>2, <1>3, <1>4 DEF Next

(* Neither calls nor execve confuse the loop: what the two theorems below  *)
(* rest on.                                                                *)
LEMMA LoopInvariance ==
  ASSUME "trap" \notin Signals
  PROVE  Spec => [](ExecInv /\ LogInv)
<1>1. Init => ExecInv /\ LogInv
  BY DEF Init, ExecInv, LogInv, ReportedOnce
<1>2. IInv /\ ExecInv /\ LogInv /\ [Next]_vars => (ExecInv /\ LogInv)'
  BY StepExecInv, StepLogInv
<1>3. QED
  BY <1>1, <1>2, Invariance, PTL DEF Spec

(* Every call of a traced function that the debuggee's main thread makes   *)
(* is printed exactly once, in the order of the calls, unless somebody     *)
(* sends the debuggee a SIGTRAP.                                           *)
THEOREM CallsReportedOnce ==
  ASSUME "trap" \notin Signals
  PROVE  Spec => []ReportedOnce
<1>1. LogInv => ReportedOnce
  BY DEF LogInv
<1>2. QED
  BY <1>1, LoopInvariance, PTL

(* A program the debuggee turned into by execve is never written to,       *)
(* however stale m_breakpoints is, unless somebody sends it a SIGTRAP.     *)
THEOREM StaleTableHarmless ==
  ASSUME "trap" \notin Signals
  PROVE  Spec => []StaleHarmless
<1>1. ExecInv => StaleHarmless
  BY DEF ExecInv, StaleHarmless
<1>2. QED
  BY <1>1, LoopInvariance, PTL
=============================================================================
