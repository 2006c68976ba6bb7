----------------------------- MODULE LaunchProofs ---------------------------
(***************************************************************************)
(* What is proved about Launch: what holds at the first breakpoint, for    *)
(* every file, every number of signals and every interleaving of the two   *)
(* processes; and what the disassembler keeps of every file.               *)
(***************************************************************************)
EXTENDS Launch, Induction, SequenceTheorems

(* Where the parent's code stands before and after its wait. *)
Before == {"fork", "open", "dwarf", "wait"}
After  == {"check", "text", "disassemble", "filter", "plant"}

(* The child has asked to be traced. *)
Asked == {"prctl", "exec", "program"}

(* Types, as far as the arguments below need them. *)
PlaceOK ==
  /\ parent \in Before \cup After \cup Ended
  /\ child \in {"none", "personality", "personality2", "traceme"} \cup Asked
  /\ task \in {"none", "running", "stopped", "zombie"}
  /\ why \in {"none", "exec", "user", "signal"}
  /\ tracer \in {"none", "debugger", "reaper"}

(* There is a child from the fork on.                                      *)
Born == parent \in {"fork", "exit_fork"} => child = "none" /\ task = "none"

(* A child that has asked is traced by the debugger while there is one,    *)
(* and only such a child stops.                                            *)
Traced ==
  /\ child \in Asked /\ parent # "gone" => tracer = "debugger"
  /\ tracer # "none" => child \in Asked

(* What a stop may be: the stop of execvp, or a signal.                    *)
Stops ==
  task = "stopped" => why = "signal" \/ (why = "exec" /\ child = "program")

(* From its wait on the parent has a child that does nothing by itself.    *)
Held ==
  parent \in After => task = "zombie" \/ (task = "stopped" /\ why = "exec" /\ child = "program")

(* What holds whatever the child is sent, and what does if it is not sent  *)
(* a SIGTRAP.                                                              *)
LInv == PlaceOK /\ Born /\ Traced /\ NothingRunsUntraced

StopsInv == Stops /\ Held

LEMMA InitLInv == Init => LInv /\ StopsInv
BY DEF Init, LInv, StopsInv, PlaceOK, Before, After, Asked, Ended, Born, Traced, Stops, Held,
       NothingRunsUntraced

(* The child's own steps, in run_debuggee. *)
LEMMA ChildLInv == LInv /\ Child => LInv' /\ (StopsInv => StopsInv')
<1> SUFFICES ASSUME LInv, Child
             PROVE  LInv' /\ (StopsInv => StopsInv')
  OBVIOUS
<1> USE DEF LInv, StopsInv, PlaceOK, Before, After, Asked, Ended, Born, Traced, Stops, Held,
            NothingRunsUntraced, parentv, analysis
<1>1. CASE Personality
  BY <1>1 DEF Personality, SetPersona
<1>2. CASE TraceMe
  BY <1>2 DEF TraceMe
<1>3. CASE Prctl
  BY <1>3 DEF Prctl
<1>4. CASE Exec
  BY <1>4 DEF Exec
<1>5. QED
  BY <1>1, <1>2, <1>3, <1>4 DEF Child

(* Signals and the program's own end. *)
LEMMA WorldLInv ==
  LInv /\ World => LInv' /\ ("trap" \notin Signals /\ StopsInv => StopsInv')
<1> SUFFICES ASSUME LInv, World
             PROVE  LInv' /\ ("trap" \notin Signals /\ StopsInv => StopsInv')
  OBVIOUS
<1> USE DEF LInv, StopsInv, PlaceOK, Before, After, Asked, Ended, Born, Traced, Stops, Held,
            NothingRunsUntraced, parentv, analysis
<1>1. ASSUME NEW s \in Signals, Deliver(s)
      PROVE  LInv' /\ ("trap" \notin Signals /\ StopsInv => StopsInv')
  <2>1. "trap" \notin Signals => s # "trap"
    OBVIOUS
  <2>2. QED
    BY <1>1, <2>1 DEF Deliver
<1>2. CASE ProgramEnds
  BY <1>2 DEF ProgramEnds
<1>3. QED
  BY <1>1, <1>2 DEF World

(* The debugger's steps, from fork to its end. *)
LEMMA ParentLInv == LInv /\ Parent => LInv' /\ (StopsInv => StopsInv')
<1> SUFFICES ASSUME LInv, Parent
             PROVE  LInv' /\ (StopsInv => StopsInv')
  OBVIOUS
<1> USE DEF LInv, StopsInv, PlaceOK, Before, After, Asked, Ended, Born, Traced, Stops, Held,
            NothingRunsUntraced, childv, analysis
<1>1. CASE Fork
  BY <1>1 DEF Fork
<1>2. CASE Open
  BY <1>2 DEF Open
<1>3. CASE Dwarf
  BY <1>3 DEF Dwarf
<1>4. CASE Wait
  BY <1>4 DEF Wait
<1>5. CASE Check
  BY <1>5 DEF Check
<1>6. CASE GetText
  BY <1>6 DEF GetText
<1>7. CASE Disassemble
  BY <1>7 DEF Disassemble
<1>8. CASE Filter
  BY <1>8 DEF Filter
<1>9. CASE Exit
  BY <1>9 DEF Exit
<1>10. QED
  BY <1>1, <1>2, <1>3, <1>4, <1>5, <1>6, <1>7, <1>8, <1>9 DEF Parent

LEMMA StutterLInv == LInv /\ UNCHANGED vars => LInv' /\ (StopsInv => StopsInv')
BY DEF LInv, StopsInv, PlaceOK, Born, Traced, Stops, Held, NothingRunsUntraced, vars, parentv,
       childv, analysis

LEMMA LaunchInvariance == Spec => []LInv
<1>1. Init => LInv
  BY InitLInv
<1>2. LInv /\ [Next]_vars => LInv'
  BY ChildLInv, WorldLInv, ParentLInv, StutterLInv DEF Next
<1>3. QED
  BY <1>1, <1>2, PTL DEF Spec

(***************************************************************************)
(* run(): when set_all_function_breakpoints begins, the debuggee is the    *)
(* program, stopped before its first instruction, or has ended, unless     *)
(* somebody sent it a SIGTRAP before.                                      *)
(***************************************************************************)
THEOREM PlantsOnlyInProgram ==
  ASSUME "trap" \notin Signals
  PROVE  Spec => []PlantsInProgram
<1>1. Init => LInv /\ StopsInv
  BY InitLInv
<1>2. LInv /\ StopsInv /\ [Next]_vars => (LInv /\ StopsInv)'
  BY ChildLInv, WorldLInv, ParentLInv, StutterLInv DEF Next
<1>3. StopsInv => PlantsInProgram
  BY DEF StopsInv, Held, After, PlantsInProgram
<1>4. QED
  BY <1>1, <1>2, <1>3, PTL DEF Spec

(***************************************************************************)
(* run_debuggee: the program executes nothing while the debugger lives and *)
(* has not come to its first breakpoint, whatever signals the child gets.  *)
(***************************************************************************)
THEOREM RunsTracedOnly == Spec => []NothingRunsUntraced
<1>1. LInv => NothingRunsUntraced
  BY DEF LInv
<1>2. QED
  BY <1>1, LaunchInvariance, PTL

-----------------------------------------------------------------------------
(***************************************************************************)
(* What cs_disasm finds.                                                   *)
(***************************************************************************)

LEMMA FileType ==
  ASSUME NEW f \in Files
  PROVE  /\ f.entry \in Nat /\ f.size \in Nat
         /\ Len(f.hdrs) \in Nat /\ DOMAIN f.hdrs = 1 .. Len(f.hdrs)
         /\ \A i \in DOMAIN f.hdrs :
              /\ f.hdrs[i].vaddr \in Nat /\ f.hdrs[i].memsz \in Nat
              /\ f.hdrs[i].offset \in Nat /\ f.hdrs[i].filesz \in Nat
              /\ f.hdrs[i].offset + f.hdrs[i].filesz <= f.size
<1> DEFINE R == [load : BOOLEAN, offset : Nat, vaddr : Nat, filesz : Nat, memsz : Nat]
<1>1. f.hdrs \in Seq(R)
  BY LaunchAssumption
<1>2. \A h \in R : h.vaddr \in Nat /\ h.memsz \in Nat /\ h.offset \in Nat /\ h.filesz \in Nat
  OBVIOUS
<1> HIDE DEF R
<1>3. Len(f.hdrs) \in Nat /\ DOMAIN f.hdrs = 1 .. Len(f.hdrs)
  BY <1>1, LenProperties
<1>4. \A i \in DOMAIN f.hdrs : f.hdrs[i] \in R
  BY <1>1, <1>3, ElementOfSeq
<1>5. QED
  BY <1>2, <1>3, <1>4, LaunchAssumption

(* What cs_disasm may be given: the file, or what it sees of it and around *)
(* it.                                                                     *)
Seen(f) == {f} \cup {With(f, around) : around \in Surroundings}

Decodable(g) ==
  /\ g.entry \in Nat
  /\ \A o \in DOMAIN g.code : o \in Int /\ g.code[o].len \in Nat \ {0}

LEMMA WithIs ==
  ASSUME NEW f \in Files, NEW around \in Surroundings, NEW o \in DOMAIN With(f, around).code
  PROVE  \/ o \in DOMAIN f.code /\ With(f, around).code[o] = f.code[o]
         \/ /\ o \in DOMAIN around /\ With(f, around).code[o] = around[o]
            /\ ~(0 <= o /\ o + around[o].len <= f.size)
BY DEF With

LEMMA SeenType ==
  ASSUME NEW f \in Files, NEW g \in Seen(f)
  PROVE  Decodable(g) /\ g.entry = f.entry
<1>1. \A n \in 1 .. Longest : n \in Nat \ {0}
  OBVIOUS
<1>2. CASE g = f
  BY <1>1, <1>2, LaunchAssumption DEF Decodable
<1>3. CASE \E around \in Surroundings : g = With(f, around)
  <2>1. PICK around \in Surroundings : g = With(f, around)
    BY <1>3
  <2>2. g.entry = f.entry /\ f.entry \in Nat
    BY <2>1, LaunchAssumption DEF With
  <2>3. ASSUME NEW o \in DOMAIN g.code
        PROVE  o \in Int /\ g.code[o].len \in Nat \ {0}
    BY <1>1, <2>1, WithIs, LaunchAssumption
  <2>4. QED
    BY <2>2, <2>3 DEF Decodable
<1>4. QED
  BY <1>2, <1>3 DEF Seen

(* A set of the numbers from 1 to n that is not empty has a greatest. *)
LEMMA GreatestElement ==
  ASSUME NEW n \in Nat, NEW T \in SUBSET (1 .. n), T # {}
  PROVE  \E i \in T : \A j \in T : j <= i
<1> DEFINE S == {k \in Nat : n - k \in T}
<1>1. S \in SUBSET Nat /\ S # {}
  <2>1. PICK i \in T : TRUE
    OBVIOUS
  <2>2. n - i \in Nat /\ n - (n - i) = i
    OBVIOUS
  <2>3. QED
    BY <2>1, <2>2
<1> HIDE DEF S
<1>2. PICK k \in S : \A m \in S : k <= m
  BY <1>1, LeastElement
<1> USE DEF S
<1>3. ASSUME NEW j \in T
      PROVE  j <= n - k
  <2>1. n - j \in Nat /\ n - (n - j) = j
    OBVIOUS
  <2>2. n - j \in S
    BY <2>1
  <2>3. QED
    BY <1>2, <2>1, <2>2
<1>4. QED
  BY <1>2, <1>3

(* get_text_section takes the text from the last segment that begins with  *)
(* the file, if there is one.                                              *)
LEMMA TextSectionIs ==
  ASSUME NEW f \in Files, NEW t \in TextSections(f)
  PROVE  /\ t.size \in Nat /\ t.offset \in Int
         /\ (\E i \in DOMAIN f.hdrs : IsText(f.hdrs[i])) =>
              \E i \in DOMAIN f.hdrs : IsText(f.hdrs[i]) /\ t.offset = f.entry - f.hdrs[i].vaddr
<1> DEFINE T == {i \in DOMAIN f.hdrs : IsText(f.hdrs[i])}
           last == CHOOSE i \in T : \A j \in T : j <= i
<1>1. t \in IF T # {}
            THEN {[offset |-> f.entry - f.hdrs[last].vaddr, size |-> f.hdrs[last].memsz]}
            ELSE {[offset |-> f.entry - vaddr, size |-> size] : vaddr \in Junk, size \in Junk}
  BY DEF TextSections
<1>2. CASE T # {}
  <2>1. \E i \in T : \A j \in T : j <= i
    <3>1. T \in SUBSET (1 .. Len(f.hdrs)) /\ Len(f.hdrs) \in Nat
      BY FileType
    <3> HIDE DEF T
    <3>2. QED
      BY <1>2, <3>1, GreatestElement
  <2>2. last \in T
    BY <2>1
  <2>3. t.offset = f.entry - f.hdrs[last].vaddr /\ t.size = f.hdrs[last].memsz
    BY <1>1, <1>2
  <2> HIDE DEF last
  <2>4. PICK h \in DOMAIN f.hdrs :
          /\ IsText(f.hdrs[h])
          /\ t.offset = f.entry - f.hdrs[h].vaddr /\ t.size = f.hdrs[h].memsz
    BY <2>2, <2>3
  <2>5. f.entry \in Nat /\ f.hdrs[h].vaddr \in Nat /\ f.hdrs[h].memsz \in Nat
    BY FileType
  <2>6. QED
    BY <2>4, <2>5
<1>3. CASE T = {}
  <2>1. PICK vaddr \in Junk, size \in Junk : t = [offset |-> f.entry - vaddr, size |-> size]
    BY <1>1, <1>3
  <2>2. QED
    BY <1>3, <2>1, FileType, LaunchAssumption
<1>4. QED
  BY <1>2, <1>3

(* The instruction i bytes behind the entry point, and whether it is one   *)
(* and ends within the text.                                               *)
Insn(f, t, i) ==
  [address |-> f.entry + i, len |-> f.code[t.offset + i].len, mnemonic |-> f.code[t.offset + i].mnemonic]

Fits(f, t, i) == t.offset + i \in DOMAIN f.code /\ i + f.code[t.offset + i].len <= t.size

Behind(f, t, i) == i + f.code[t.offset + i].len

Decodes(f, t, insns) ==
  insns = [i \in 0 .. t.size |->
             IF Fits(f, t, i) THEN <<Insn(f, t, i)>> \o insns[Behind(f, t, i)] ELSE << >>]

LEMMA BehindIs ==
  ASSUME NEW f, Decodable(f), NEW t, t.size \in Nat, t.offset \in Int,
         NEW i \in 0 .. t.size, Fits(f, t, i)
  PROVE  Behind(f, t, i) \in (i + 1) .. t.size
<1>1. f.code[t.offset + i].len \in Nat \ {0}
  BY DEF Decodable, Fits
<1>2. QED
  BY <1>1 DEF Fits, Behind

LEMMA DecodesExists ==
  ASSUME NEW f, Decodable(f), NEW t, t.size \in Nat, t.offset \in Int
  PROVE  \E insns : Decodes(f, t, insns)
<1> DEFINE W == t.size
           Round(i, g) == IF Fits(f, t, i) THEN <<Insn(f, t, i)>> \o g[Behind(f, t, i)] ELSE << >>
           Upto(n, g) == \A i \in (W - n) .. W : g[i] = Round(i, g)
           S == {n \in 0 .. W : \E g : Upto(n, g)}
<1>1. \A i \in 0 .. W : Fits(f, t, i) => Behind(f, t, i) \in (i + 1) .. W
  BY BehindIs
<1>2. 0 \in S
  <2> DEFINE g == [i \in 0 .. W |-> << >>]
  <2>1. \A i \in (W - 0) .. W : i = W /\ i \in 0 .. W
    OBVIOUS
  <2>2. ~Fits(f, t, W)
    <3>1. W \in 0 .. W /\ (W + 1) .. W = {}
      OBVIOUS
    <3>2. QED
      BY <1>1, <3>1
  <2>3. Upto(0, g)
    BY <2>1, <2>2
  <2> HIDE DEF Upto
  <2>4. QED
    BY <2>3
<1>3. ASSUME NEW n \in 0 .. (W - 1), n \in S
      PROVE  n + 1 \in S
  <2>1. PICK g : Upto(n, g)
    BY <1>3
  <2> DEFINE j == W - (n + 1)
             h == [i \in 0 .. W |-> IF i = j THEN Round(j, g) ELSE g[i]]
  <2>2. j \in 0 .. W /\ \A i \in j .. W : i \in 0 .. W /\ (i = j \/ i \in (W - n) .. W)
    OBVIOUS
  <2>3. ASSUME NEW i \in j .. W
        PROVE  h[i] = Round(i, h)
    <3>1. i \in 0 .. W
      BY <2>2
    <3>2. Fits(f, t, i) => h[Behind(f, t, i)] = g[Behind(f, t, i)]
      <4>1. SUFFICES ASSUME Fits(f, t, i)
                     PROVE  h[Behind(f, t, i)] = g[Behind(f, t, i)]
        OBVIOUS
      <4>2. PICK k : k = Behind(f, t, i) /\ k \in (i + 1) .. W
        BY <1>1, <3>1, <4>1
      <4>3. k \in 0 .. W /\ k # j
        BY <4>2
      <4>4. QED
        BY <4>2, <4>3
    <3>3. Round(i, h) = Round(i, g)
      BY <3>2
    <3> HIDE DEF Round
    <3>4. CASE i = j
      BY <3>1, <3>3, <3>4
    <3>5. CASE i # j
      <4>1. i \in (W - n) .. W
        BY <2>2, <3>5
      <4>2. h[i] = g[i]
        BY <3>1, <3>5
      <4>3. QED
        BY <2>1, <3>3, <4>1, <4>2
    <3>6. QED
      BY <3>4, <3>5
  <2>4. Upto(n + 1, h)
    BY <2>3
  <2>5. n + 1 \in 0 .. W
    OBVIOUS
  <2> HIDE DEF Upto, h
  <2>6. QED
    BY <2>4, <2>5
<1>4. W \in S
  <2> HIDE DEF S
  <2>1. 0 .. W \subseteq S
    BY <1>2, <1>3, SetInductionUpTo
  <2>2. QED
    BY <2>1
<1>5. PICK g : Upto(W, g)
  BY <1>4
<1> DEFINE insns == [i \in 0 .. W |-> g[i]]
<1>6. insns = [i \in 0 .. W |-> Round(i, insns)]
  <2>1. ASSUME NEW i \in 0 .. W
        PROVE  g[i] = Round(i, insns)
    <3>1. g[i] = Round(i, g)
      <4>1. W - W = 0
        OBVIOUS
      <4>2. QED
        BY <1>5, <4>1
    <3>2. Fits(f, t, i) => insns[Behind(f, t, i)] = g[Behind(f, t, i)]
      <4>1. SUFFICES ASSUME Fits(f, t, i)
                     PROVE  insns[Behind(f, t, i)] = g[Behind(f, t, i)]
        OBVIOUS
      <4>2. PICK k : k = Behind(f, t, i) /\ k \in (i + 1) .. W
        BY <1>1, <4>1
      <4>3. k \in 0 .. W
        BY <4>2
      <4>4. QED
        BY <4>2, <4>3
    <3>3. QED
      BY <3>1, <3>2
  <2> HIDE DEF Round
  <2>2. QED
    BY <2>1
<1>7. QED
  BY <1>6 DEF Decodes

Instructions(f, t) ==
  {Insn(f, t, i) : i \in {i \in 0 .. (t.size - 1) : t.offset + i \in DOMAIN f.code}}

(* The addresses in a sequence of instructions increase; those in s are    *)
(* below those in r.                                                       *)
Ordered(s) == \A j, k \in 1 .. Len(s) : j < k => s[j].address < s[k].address

Below(s, r) == \A j \in 1 .. Len(s), k \in 1 .. Len(r) : s[j].address < r[k].address

(* What cs_disasm may find from i bytes behind the entry point on. *)
FoundFrom(f, t, i, s) ==
  /\ s \in Seq(Instructions(f, t))
  /\ Len(s) <= t.size - i
  /\ Ordered(s)
  /\ \A k \in 1 .. Len(s) : s[k].address >= f.entry + i

LEMMA InstructionType ==
  ASSUME NEW f, Decodable(f), NEW t, t.size \in Nat, NEW x \in Instructions(f, t)
  PROVE  x.address \in Nat
BY DEF Decodable, Instructions, Insn

LEMMA FoundOneMore ==
  ASSUME NEW f, Decodable(f), NEW t, t.size \in Nat, t.offset \in Int,
         NEW i \in 0 .. t.size, Fits(f, t, i), NEW s, FoundFrom(f, t, Behind(f, t, i), s)
  PROVE  FoundFrom(f, t, i, <<Insn(f, t, i)>> \o s)
<1>1. PICK b : b = Behind(f, t, i) /\ b \in (i + 1) .. t.size
  BY BehindIs
<1>2. PICK x : x = Insn(f, t, i) /\ x \in Instructions(f, t) /\ x.address = f.entry + i
  <2>1. i \in 0 .. (t.size - 1)
    BY <1>1
  <2>2. Insn(f, t, i) \in Instructions(f, t)
    BY <2>1 DEF Instructions, Fits
  <2>3. Insn(f, t, i).address = f.entry + i
    BY DEF Insn
  <2>4. QED
    BY <2>2, <2>3
<1>3. PICK l \in Nat : l = Len(s)
  BY LenProperties DEF FoundFrom
<1>4. PICK r : r = <<x>> \o s
  OBVIOUS
<1>5. /\ r \in Seq(Instructions(f, t)) /\ Len(r) = l + 1 /\ r[1] = x
      /\ \A k \in 1 .. l : r[k + 1] = s[k]
  <2>1. s \in Seq(Instructions(f, t)) /\ <<x>> \in Seq(Instructions(f, t)) /\ Len(<<x>>) = 1
    BY <1>2 DEF FoundFrom
  <2>2. /\ r \in Seq(Instructions(f, t)) /\ Len(r) = 1 + l
        /\ \A k \in 1 .. (1 + l) : r[k] = IF k <= 1 THEN <<x>>[k] ELSE s[k - 1]
    BY <1>3, <1>4, <2>1, ConcatProperties
  <2>3. \A k \in 1 .. l : k + 1 \in 1 .. (1 + l) /\ ~(k + 1 <= 1) /\ (k + 1) - 1 = k
    BY <1>3
  <2>4. r[1] = <<x>>[1]
    <3>1. 1 \in 1 .. (1 + l) /\ 1 <= 1
      BY <1>3
    <3>2. QED
      BY <2>2, <3>1
  <2>5. QED
    BY <1>3, <2>2, <2>3, <2>4
<1>6. /\ \A k \in 1 .. l : s[k].address >= f.entry + b /\ s[k].address \in Nat
      /\ f.entry \in Nat
  <2>1. \A k \in 1 .. l : s[k] \in Instructions(f, t)
    BY <1>3, ElementOfSeq DEF FoundFrom
  <2>2. QED
    BY <1>1, <1>3, <2>1, InstructionType DEF FoundFrom, Decodable
<1>7. ASSUME NEW k \in 1 .. (l + 1), k # 1
      PROVE  k - 1 \in 1 .. l /\ r[k] = s[k - 1]
  <2>1. k - 1 \in 1 .. l /\ (k - 1) + 1 = k
    BY <1>3, <1>7
  <2>2. QED
    BY <1>5, <2>1
<1>8. Ordered(r)
  <2> SUFFICES ASSUME NEW j \in 1 .. (l + 1), NEW k \in 1 .. (l + 1), j < k
               PROVE  r[j].address < r[k].address
    BY <1>5 DEF Ordered
  <2>1. k # 1
    BY <1>3
  <2>2. k - 1 \in 1 .. l /\ r[k] = s[k - 1]
    BY <1>7, <2>1
  <2>3. CASE j = 1
    BY <1>1, <1>2, <1>5, <1>6, <2>2, <2>3
  <2>4. CASE j # 1
    <3>1. j - 1 \in 1 .. l /\ r[j] = s[j - 1] /\ j - 1 < k - 1
      BY <1>3, <1>7, <2>4
    <3>2. QED
      BY <1>3, <2>2, <3>1 DEF FoundFrom, Ordered
  <2>5. QED
    BY <2>3, <2>4
<1>9. \A k \in 1 .. (l + 1) : r[k].address >= f.entry + i
  <2> SUFFICES ASSUME NEW k \in 1 .. (l + 1)
               PROVE  r[k].address >= f.entry + i
    OBVIOUS
  <2>1. CASE k = 1
    BY <1>2, <1>5, <1>6, <2>1
  <2>2. CASE k # 1
    BY <1>1, <1>6, <1>7, <2>2
  <2>3. QED
    BY <2>1, <2>2
<1>10. Len(r) <= t.size - i
  <2>1. l <= t.size - b
    BY <1>1, <1>3 DEF FoundFrom
  <2>2. QED
    BY <1>1, <1>3, <1>5, <2>1
<1>11. QED
  BY <1>2, <1>4, <1>5, <1>8, <1>9, <1>10 DEF FoundFrom

LEMMA DisasmFinds ==
  ASSUME NEW f, Decodable(f), NEW t, t.size \in Nat, t.offset \in Int
  PROVE  FoundFrom(f, t, 0, cs_disasm(f, t))
<1> DEFINE W == t.size
           insns == CHOOSE insns : Decodes(f, t, insns)
           S == {n \in 0 .. W : \A m \in 0 .. n : FoundFrom(f, t, W - m, insns[W - m])}
<1>1. Decodes(f, t, insns)
  BY DecodesExists
<1>2. cs_disasm(f, t) = insns[0]
  BY DEF cs_disasm, Decodes, Fits, Insn, Behind
<1> HIDE DEF insns
<1>3. \A i \in 0 .. W :
        insns[i] = IF Fits(f, t, i) THEN <<Insn(f, t, i)>> \o insns[Behind(f, t, i)] ELSE << >>
  BY <1>1 DEF Decodes
<1>4. ASSUME NEW n \in 0 .. W, \A m \in 0 .. (n - 1) : FoundFrom(f, t, W - m, insns[W - m])
      PROVE  FoundFrom(f, t, W - n, insns[W - n])
  <2>1. PICK i \in 0 .. W : i = W - n
    OBVIOUS
  <2>2. CASE Fits(f, t, i)
    <3>1. PICK b : b = Behind(f, t, i) /\ b \in (i + 1) .. W
      BY <2>2, BehindIs
    <3>2. W - b \in 0 .. (n - 1) /\ W - (W - b) = b
      BY <2>1, <3>1
    <3>3. FoundFrom(f, t, b, insns[b])
      BY <1>4, <3>2
    <3>4. insns[i] = <<Insn(f, t, i)>> \o insns[b]
      BY <1>3, <2>2, <3>1
    <3>5. QED
      BY <2>1, <2>2, <3>1, <3>3, <3>4, FoundOneMore
  <2>3. CASE ~Fits(f, t, i)
    <3>1. insns[i] = << >> /\ Len(<< >>) = 0 /\ << >> \in Seq(Instructions(f, t))
      BY <1>3, <2>3, EmptySeq
    <3>2. QED
      BY <2>1, <3>1 DEF FoundFrom, Ordered
  <2>4. QED
    BY <2>2, <2>3
<1>5. 0 \in S
  <2>1. FoundFrom(f, t, W - 0, insns[W - 0])
    BY <1>4
  <2>2. 0 \in 0 .. W /\ \A m \in 0 .. 0 : m = 0
    OBVIOUS
  <2>3. QED
    BY <2>1, <2>2
<1>6. ASSUME NEW n \in 0 .. (W - 1), n \in S
      PROVE  n + 1 \in S
  <2>1. n + 1 \in 0 .. W /\ (n + 1) - 1 = n
    OBVIOUS
  <2>2. FoundFrom(f, t, W - (n + 1), insns[W - (n + 1)])
    BY <1>4, <1>6, <2>1
  <2>3. \A m \in 0 .. (n + 1) : m = n + 1 \/ m \in 0 .. n
    OBVIOUS
  <2>4. QED
    BY <1>6, <2>1, <2>2, <2>3
<1>7. W \in S
  <2> HIDE DEF S
  <2>1. 0 .. W \subseteq S
    BY <1>5, <1>6, SetInductionUpTo
  <2>2. QED
    BY <2>1
<1>8. W \in 0 .. W /\ W - W = 0
  OBVIOUS
<1>9. QED
  BY <1>2, <1>7, <1>8

-----------------------------------------------------------------------------
(***************************************************************************)
(* What filter_branch_instruction keeps of it.                             *)
(***************************************************************************)

LEMMA FilteredIs ==
  ASSUME NEW x
  PROVE  Filtered(x) = << >> \/ Filtered(x) = <<x>>
BY DEF Filtered

(* The head of what is left goes to what is kept, or is dropped.           *)
LEMMA KeepHead ==
  ASSUME NEW S, NEW s \in Seq(S), NEW r \in Seq(S), r # << >>, NEW kept \in {<< >>, <<Head(r)>>},
         Ordered(s), Ordered(r), Below(s, r)
  PROVE  /\ s \o kept \in Seq(S) /\ Tail(r) \in Seq(S)
         /\ Len(s \o kept) + Len(Tail(r)) <= Len(s) + Len(r)
         /\ Ordered(s \o kept) /\ Ordered(Tail(r)) /\ Below(s \o kept, Tail(r))
<1>1. PICK n \in Nat : n = Len(s)
  BY LenProperties
<1>2. PICK m \in Nat : m + 1 = Len(r)
  <2>1. Len(r) \in Nat /\ Len(r) # 0
    BY LenProperties, EmptySeq
  <2>2. Len(r) - 1 \in Nat /\ (Len(r) - 1) + 1 = Len(r)
    BY <2>1
  <2>3. QED
    BY <2>2
<1>3. PICK q : q = Tail(r)
  OBVIOUS
<1>4. /\ q \in Seq(S) /\ Len(q) = m /\ Head(r) = r[1] /\ r[1] \in S
      /\ \A k \in 1 .. m : q[k] = r[k + 1]
  <2>1. q \in Seq(S) /\ Len(q) = Len(r) - 1 /\ \A k \in 1 .. Len(q) : q[k] = r[k + 1]
    BY <1>3, HeadTailProperties
  <2>2. Head(r) = r[1] /\ Head(r) \in S
    BY HeadTailProperties
  <2>3. QED
    BY <1>2, <2>1, <2>2
<1>5. \A k \in 1 .. m : k + 1 \in 1 .. Len(r) /\ 1 \in 1 .. Len(r) /\ 1 < k + 1
  BY <1>2
<1>6. Ordered(q) /\ Below(s, q) /\ \A k \in 1 .. m : r[1].address < q[k].address
  <2>1. \A j, k \in 1 .. m : j < k => q[j].address < q[k].address
    <3> SUFFICES ASSUME NEW j \in 1 .. m, NEW k \in 1 .. m, j < k
                 PROVE  q[j].address < q[k].address
      OBVIOUS
    <3>1. j + 1 < k + 1 /\ j + 1 \in 1 .. Len(r) /\ k + 1 \in 1 .. Len(r)
      BY <1>2
    <3>2. QED
      BY <1>4, <3>1 DEF Ordered
  <2>2. QED
    BY <1>1, <1>4, <1>5, <2>1 DEF Ordered, Below
<1>7. CASE kept = << >>
  <2>1. s \o kept = s
    BY <1>7, ConcatEmptySeq
  <2>2. QED
    BY <1>1, <1>2, <1>3, <1>4, <1>6, <2>1
<1>8. CASE kept = <<Head(r)>>
  <2>1. PICK u : u = s \o kept
    OBVIOUS
  <2>2. u \in Seq(S) /\ Len(u) = n + 1 /\ \A k \in 1 .. (n + 1) : u[k] = IF k <= n THEN s[k] ELSE r[1]
    <3>1. <<r[1]>> \in Seq(S) /\ Len(<<r[1]>>) = 1 /\ <<r[1]>>[1] = r[1]
      BY <1>4
    <3>2. /\ u \in Seq(S) /\ Len(u) = n + 1
          /\ \A k \in 1 .. (n + 1) : u[k] = IF k <= n THEN s[k] ELSE <<r[1]>>[k - n]
      BY <1>1, <1>4, <1>8, <2>1, <3>1, ConcatProperties
    <3>3. \A k \in 1 .. (n + 1) : ~(k <= n) => k - n = 1
      BY <1>1
    <3>4. QED
      BY <3>1, <3>2, <3>3
  <2>3. ASSUME NEW j \in 1 .. (n + 1), NEW k \in 1 .. (n + 1), j < k
        PROVE  u[j].address < u[k].address
    <3>1. j \in 1 .. n /\ u[j] = s[j]
      BY <1>1, <2>2, <2>3
    <3>2. CASE k <= n
      <4>1. k \in 1 .. n /\ u[k] = s[k]
        BY <1>1, <2>2, <3>2
      <4>2. QED
        BY <1>1, <2>3, <3>1, <4>1 DEF Ordered
    <3>3. CASE ~(k <= n)
      <4>1. u[k] = r[1] /\ 1 \in 1 .. Len(r)
        BY <1>2, <2>2, <3>3
      <4>2. QED
        BY <1>1, <3>1, <4>1 DEF Below
    <3>4. QED
      BY <3>2, <3>3
  <2>4. ASSUME NEW j \in 1 .. (n + 1), NEW k \in 1 .. m
        PROVE  u[j].address < q[k].address
    <3>1. CASE j <= n
      <4>1. j \in 1 .. n /\ u[j] = s[j]
        BY <1>1, <2>2, <3>1
      <4>2. QED
        BY <1>1, <1>4, <1>6, <4>1 DEF Below
    <3>2. CASE ~(j <= n)
      BY <1>6, <2>2, <3>2
    <3>3. QED
      BY <3>1, <3>2
  <2>5. Ordered(u) /\ Below(u, q)
    BY <1>4, <2>2, <2>3, <2>4 DEF Ordered, Below
  <2>6. QED
    BY <1>1, <1>2, <1>3, <1>4, <1>6, <2>1, <2>2, <2>5
<1>9. QED
  BY <1>7, <1>8

(* What is kept and what is left, instructions of one text.                *)
Sorted(f, t, kept, left) ==
  /\ kept \in Seq(Instructions(f, t)) /\ left \in Seq(Instructions(f, t))
  /\ Len(kept) + Len(left) <= t.size
  /\ Ordered(kept) /\ Ordered(left) /\ Below(kept, left)

BranchInv ==
  /\ file \in Files
  /\ text.size \in Nat /\ text.offset \in Int
  /\ \E g \in Seen(file) : Sorted(g, text, branch_instructions, dis_insns)
  /\ parent \in Before \cup {"check", "text", "disassemble"} =>
       branch_instructions = << >> /\ dis_insns = << >>
  /\ parent = "disassemble" \/ branch_instructions # << >> \/ dis_insns # << >> =>
       text \in TextSections(file)

LEMMA NothingSorted ==
  ASSUME NEW f, NEW t, t.size \in Nat
  PROVE  Sorted(f, t, << >>, << >>)
BY EmptySeq DEF Sorted, Ordered, Below

LEMMA StepBranchInv == LInv /\ BranchInv /\ [Next]_vars => BranchInv'
<1> SUFFICES ASSUME LInv, BranchInv, [Next]_vars
             PROVE  BranchInv'
  OBVIOUS
<1>1. file' = file
  BY DEF Next, Child, World, Parent, Personality, SetPersona, TraceMe, Prctl, Exec, Deliver,
     ProgramEnds, Fork, Open, Dwarf, Wait, Check, GetText, Disassemble, Filter, Exit, parentv,
     vars
<1>2. CASE GetText
  <2>1. /\ parent = "text" /\ UNCHANGED <<dis_insns, branch_instructions>>
        /\ \/ text' \in TextSections(file) /\ parent' = "disassemble"
           \/ parent' = "exit_text" /\ UNCHANGED text
    BY <1>2 DEF GetText
  <2>2. branch_instructions' = << >> /\ dis_insns' = << >>
    BY <2>1 DEF BranchInv
  <2>3. text'.size \in Nat /\ text'.offset \in Int
    BY <2>1, TextSectionIs DEF BranchInv
  <2>4. \E g \in Seen(file) : Sorted(g, text', << >>, << >>)
    BY <2>3, NothingSorted DEF Seen
  <2>5. parent' = "disassemble" => text' \in TextSections(file)
    BY <2>1
  <2>6. QED
    BY <1>1, <2>2, <2>3, <2>4, <2>5 DEF BranchInv
<1>3. CASE Disassemble
  <2>1. /\ parent = "disassemble" /\ UNCHANGED <<text, branch_instructions>>
        /\ \/ parent' \in {"plant", "abort"} /\ UNCHANGED dis_insns
           \/ /\ parent' = "filter"
              /\ \E around \in Surroundings : dis_insns' = cs_disasm(With(file, around), text)
    BY <1>3 DEF Disassemble
  <2>2. branch_instructions = << >> /\ dis_insns = << >> /\ text \in TextSections(file)
    BY <2>1 DEF BranchInv
  <2>3. CASE parent' \in {"plant", "abort"} /\ UNCHANGED dis_insns
    BY <1>1, <2>1, <2>2, <2>3 DEF BranchInv, Before
  <2>4. CASE /\ parent' = "filter"
             /\ \E around \in Surroundings : dis_insns' = cs_disasm(With(file, around), text)
    <3>1. PICK g \in Seen(file) : FoundFrom(g, text, 0, dis_insns')
      <4>1. PICK around \in Surroundings : dis_insns' = cs_disasm(With(file, around), text)
        BY <2>4
      <4>2. With(file, around) \in Seen(file)
        BY DEF Seen
      <4>3. FoundFrom(With(file, around), text, 0, dis_insns')
        BY <4>1, <4>2, SeenType, DisasmFinds DEF BranchInv
      <4>4. QED
        BY <4>2, <4>3
    <3>2. Len(<< >>) + Len(dis_insns') <= text.size
      <4>1. Len(dis_insns') \in Nat /\ Len(<< >>) = 0 /\ Len(dis_insns') <= text.size - 0
        BY <3>1, LenProperties, EmptySeq DEF FoundFrom
      <4>2. QED
        BY <4>1 DEF BranchInv
    <3>3. Sorted(g, text, << >>, dis_insns')
      BY <3>1, <3>2, EmptySeq DEF Sorted, FoundFrom, Ordered, Below
    <3>4. QED
      BY <1>1, <2>1, <2>2, <2>4, <3>3 DEF BranchInv, Before
  <2>5. QED
    BY <2>1, <2>3, <2>4
<1>4. CASE Filter
  <2>1. /\ parent = "filter" /\ UNCHANGED text
        /\ \/ /\ dis_insns # << >> /\ UNCHANGED parent /\ dis_insns' = Tail(dis_insns)
              /\ branch_instructions' = branch_instructions \o Filtered(Head(dis_insns))
           \/ parent' = "plant" /\ UNCHANGED <<dis_insns, branch_instructions>>
    BY <1>4 DEF Filter
  <2>2. CASE parent' = "plant" /\ UNCHANGED <<dis_insns, branch_instructions>>
    BY <1>1, <2>1, <2>2 DEF BranchInv, Before
  <2>3. CASE /\ dis_insns # << >> /\ UNCHANGED parent /\ dis_insns' = Tail(dis_insns)
             /\ branch_instructions' = branch_instructions \o Filtered(Head(dis_insns))
    <3>1. PICK kept \in {<< >>, <<Head(dis_insns)>>} : kept = Filtered(Head(dis_insns))
      BY FilteredIs
    <3>2. text \in TextSections(file)
      BY <2>3 DEF BranchInv
    <3>3. PICK g \in Seen(file) : Sorted(g, text, branch_instructions, dis_insns)
      BY DEF BranchInv
    <3>4. /\ branch_instructions' \in Seq(Instructions(g, text))
          /\ dis_insns' \in Seq(Instructions(g, text))
          /\ Len(branch_instructions') + Len(dis_insns') <= Len(branch_instructions) + Len(dis_insns)
          /\ Ordered(branch_instructions') /\ Ordered(dis_insns')
          /\ Below(branch_instructions', dis_insns')
      BY <2>3, <3>1, <3>3, KeepHead DEF Sorted
    <3>5. Len(branch_instructions') + Len(dis_insns') <= text.size
      <4>1. /\ Len(branch_instructions) + Len(dis_insns) <= text.size /\ text.size \in Nat
            /\ Len(branch_instructions) \in Nat /\ Len(dis_insns) \in Nat
            /\ Len(branch_instructions') \in Nat /\ Len(dis_insns') \in Nat
        BY <3>3, <3>4, LenProperties DEF BranchInv, Sorted
      <4>2. QED
        BY <3>4, <4>1
    <3>6. Sorted(g, text, branch_instructions', dis_insns')
      BY <3>4, <3>5 DEF Sorted
    <3>7. QED
      BY <1>1, <2>1, <2>3, <3>2, <3>6 DEF BranchInv, Before
  <2>4. QED
    BY <2>1, <2>2, <2>3
<1>5. CASE Child \/ World
  <2>1. UNCHANGED <<parent, text, dis_insns, branch_instructions>>
    BY <1>5 DEF Child, World, Personality, SetPersona, TraceMe, Prctl, Exec, Deliver,
       ProgramEnds, parentv, analysis
  <2>2. QED
    BY <1>1, <2>1 DEF BranchInv
<1>6. CASE Fork \/ Open \/ Dwarf \/ Wait \/ Check \/ Exit \/ UNCHANGED vars
  <2>1. UNCHANGED <<text, dis_insns, branch_instructions>>
    BY <1>6 DEF Fork, Open, Dwarf, Wait, Check, Exit, vars, parentv, analysis
  <2>2. /\ parent' \in Before \cup {"check", "text", "disassemble"} =>
             parent \in Before \cup {"check", "text", "disassemble"}
        /\ parent' = "disassemble" => parent = "disassemble"
    BY <1>6 DEF Fork, Open, Dwarf, Wait, Check, Exit, vars, parentv, Before, Ended
  <2>3. QED
    BY <1>1, <2>1, <2>2 DEF BranchInv
<1>7. QED
  BY <1>2, <1>3, <1>4, <1>5, <1>6 DEF Next, Parent

LEMMA BranchInvariance == Spec => []BranchInv
<1>1. Init => BranchInv
  <2> SUFFICES ASSUME Init
               PROVE  BranchInv
    OBVIOUS
  <2>1. /\ file \in Files /\ text.size = 0 /\ text.offset = 0 /\ parent = "fork"
        /\ branch_instructions = << >> /\ dis_insns = << >>
    BY DEF Init
  <2>2. Sorted(file, text, << >>, << >>) /\ file \in Seen(file)
    BY <2>1, NothingSorted DEF Seen
  <2>3. QED
    BY <2>1, <2>2 DEF BranchInv
<1>2. LInv /\ BranchInv /\ [Next]_vars => BranchInv'
  BY StepBranchInv
<1>3. QED
  BY <1>1, <1>2, LaunchInvariance, PTL DEF Spec

(* The rest of the types. *)
FlagsOK ==
  /\ m_debug_info \in BOOLEAN
  /\ persona \subseteq {"no_randomize", "compat_layout"}
  /\ pdeathsig \in BOOLEAN
  /\ sent \in Nat

LEMMA StepFlagsOK ==
  ASSUME FlagsOK, [Next]_vars
  PROVE  FlagsOK'
<1>1. CASE Child \/ UNCHANGED vars
  BY <1>1 DEF FlagsOK, Child, Personality, SetPersona, TraceMe, Prctl, Exec, parentv, childv, analysis,
     vars
<1>2. CASE World
  <2>1. UNCHANGED <<m_debug_info, persona, pdeathsig>>
    BY <1>2 DEF World, Deliver, ProgramEnds, parentv, analysis
  <2>2. sent' \in Nat
    <3>1. sent' \in {sent, sent + 1}
      BY <1>2 DEF World, Deliver, ProgramEnds
    <3>2. QED
      BY <3>1 DEF FlagsOK
  <2>3. QED
    BY <2>1, <2>2 DEF FlagsOK
<1>3. CASE Parent
  BY <1>3 DEF FlagsOK, Parent, Fork, Open, Dwarf, Wait, Check, GetText, Disassemble, Filter, Exit,
     childv, analysis
<1>4. QED
  BY <1>1, <1>2, <1>3 DEF Next

(***************************************************************************)
(* Types; cs_disasm never finds more instructions than the text has bytes, *)
(* nor are more kept than it finds.                                        *)
(***************************************************************************)
THEOREM LaunchTypeCorrect == Spec => []TypeOK
<1>1. Init => FlagsOK
  <2> SUFFICES ASSUME Init
               PROVE  FlagsOK
    OBVIOUS
  <2>1. m_debug_info \in BOOLEAN /\ pdeathsig \in BOOLEAN
    <3>1. m_debug_info = FALSE /\ pdeathsig = FALSE
      BY DEF Init
    <3>2. QED
      BY <3>1, Zenon
  <2>2. persona \subseteq {"no_randomize", "compat_layout"} /\ sent \in Nat
    <3>1. persona = {} /\ sent = 0
      BY DEF Init
    <3>2. QED
      BY <3>1
  <2>3. QED
    BY <2>1, <2>2 DEF FlagsOK
<1>2. LInv /\ BranchInv /\ FlagsOK => TypeOK
  <2> SUFFICES ASSUME LInv, BranchInv, FlagsOK
               PROVE  TypeOK
    OBVIOUS
  <2>1. Len(branch_instructions) + Len(dis_insns) <= text.size /\ text.size >= 0
    BY DEF BranchInv, Sorted
  <2>2. QED
    BY <2>1 DEF LInv, PlaceOK, Before, After, Asked, BranchInv, FlagsOK, TypeOK
<1>3. FlagsOK /\ [Next]_vars => FlagsOK'
  BY StepFlagsOK
<1>4. QED
  BY <1>1, <1>2, <1>3, LaunchInvariance, BranchInvariance, PTL DEF Spec

(***************************************************************************)
(* Whatever lies in the file and around its mapping: no branch is kept     *)
(* twice, and one at an address where the loader puts bytes of the file as *)
(* far behind its beginning as they lie in it is a branch of the file at   *)
(* that place, even if the text taken goes on behind the segment it is     *)
(* taken from.                                                             *)
(***************************************************************************)
THEOREM BranchesAreReal == Spec => []BranchesReal
<1>1. BranchInv => BranchesReal
  <2> SUFFICES ASSUME BranchInv, NEW k \in DOMAIN branch_instructions
               PROVE  /\ \A j \in DOMAIN branch_instructions :
                           j < k => branch_instructions[j].address < branch_instructions[k].address
                      /\ \A s \in InPlace(file) : LiesIn(branch_instructions[k], s) =>
                           LET o == branch_instructions[k].address - s.vaddr + s.offset IN
                             /\ o \in DOMAIN file.code
                             /\ file.code[o].mnemonic = branch_instructions[k].mnemonic
    BY DEF BranchesReal
  <2>1. PICK g \in Seen(file) : Sorted(g, text, branch_instructions, dis_insns)
    BY DEF BranchInv
  <2>2. /\ branch_instructions \in Seq(Instructions(g, text))
        /\ DOMAIN branch_instructions = 1 .. Len(branch_instructions)
        /\ Ordered(branch_instructions) /\ branch_instructions # << >>
    <3>1. branch_instructions \in Seq(Instructions(g, text)) /\ Ordered(branch_instructions)
      BY <2>1 DEF Sorted
    <3>2. DOMAIN branch_instructions = 1 .. Len(branch_instructions)
      BY <3>1, LenProperties
    <3>3. branch_instructions # << >>
      OBVIOUS
    <3>4. QED
      BY <3>1, <3>2, <3>3
  <2>3. branch_instructions[k] \in Instructions(g, text)
    BY <2>2, ElementOfSeq
  <2>4. PICK i \in Nat : text.offset + i \in DOMAIN g.code /\ branch_instructions[k] = Insn(g, text, i)
    BY <2>3 DEF Instructions, BranchInv
  <2>5. file \in Files /\ text \in TextSections(file) /\ text.offset \in Int
    BY <2>2 DEF BranchInv
  <2>6. ASSUME NEW s \in InPlace(file), LiesIn(branch_instructions[k], s)
        PROVE  /\ branch_instructions[k].address - s.vaddr + s.offset \in DOMAIN file.code
               /\ file.code[branch_instructions[k].address - s.vaddr + s.offset].mnemonic
                    = branch_instructions[k].mnemonic
    <3>1. PICK h \in DOMAIN file.hdrs :
            /\ text.offset = file.entry - file.hdrs[h].vaddr
            /\ s.vaddr - s.offset = file.hdrs[h].vaddr
      <4>1. PICK h \in DOMAIN file.hdrs : IsText(file.hdrs[h])
        BY <2>6 DEF InPlace, IsText
      <4>2. PICK e \in DOMAIN file.hdrs :
              IsText(file.hdrs[e]) /\ text.offset = file.entry - file.hdrs[e].vaddr
        BY <2>5, <4>1, TextSectionIs
      <4>3. s.vaddr - s.offset = file.hdrs[e].vaddr
        BY <2>6, <4>2 DEF InPlace, IsText
      <4>4. QED
        BY <4>2, <4>3
    <3>2. PICK m \in DOMAIN file.hdrs : s = file.hdrs[m]
      BY <2>6 DEF InPlace
    <3>3. /\ s.vaddr \in Nat /\ s.offset \in Nat /\ s.filesz \in Nat /\ file.size \in Nat
          /\ s.offset + s.filesz <= file.size /\ file.hdrs[h].vaddr \in Nat
          /\ file.entry \in Nat /\ g.entry = file.entry
      BY <2>1, <2>5, <3>1, <3>2, FileType, SeenType
    <3>4. PICK o \in DOMAIN g.code : o = text.offset + i
      BY <2>4
    <3>5. /\ branch_instructions[k].address = file.entry + i
          /\ branch_instructions[k].len = g.code[o].len
          /\ branch_instructions[k].mnemonic = g.code[o].mnemonic
      BY <2>4, <3>3, <3>4 DEF Insn
    <3>6. PICK len \in Nat \ {0} : len = g.code[o].len /\ o \in Int
      BY <2>1, <2>5, <3>4, SeenType DEF Decodable
    <3>7. /\ branch_instructions[k].address - s.vaddr + s.offset = o
          /\ 0 <= o /\ o + len <= file.size
      <4>1. s.vaddr <= file.entry + i /\ file.entry + i + len <= s.vaddr + s.filesz
        BY <2>6, <3>5, <3>6 DEF LiesIn
      <4>2. QED
        BY <2>5, <3>1, <3>3, <3>4, <3>5, <3>6, <4>1
    <3>8. o \in DOMAIN file.code /\ file.code[o] = g.code[o]
      <4>1. CASE g = file
        BY <3>4, <4>1
      <4>2. CASE \E around \in Surroundings : g = With(file, around)
        <5>1. PICK around \in Surroundings : g = With(file, around)
          BY <4>2
        <5>2. QED
          BY <2>5, <3>4, <3>6, <3>7, <5>1, WithIs
      <4>3. QED
        BY <2>1, <4>1, <4>2 DEF Seen
    <3>9. QED
      BY <3>5, <3>7, <3>8
  <2>7. QED
    BY <2>2, <2>6 DEF Ordered
<1>2. QED
  BY <1>1, BranchInvariance, PTL
=============================================================================
