------------------------------- MODULE Ptrace -------------------------------
(***************************************************************************)
(* The debuggee's memory as PTRACE_PEEKDATA and PTRACE_POKEDATA show it:   *)
(* whole words at any byte address.  The debugger never writes a byte, it  *)
(* reads a word, replaces the low byte and writes the word back, so every  *)
(* breakpoint also rewrites the WordSize - 1 bytes behind it, which may    *)
(* hold other breakpoints.                                                 *)
(***************************************************************************)
EXTENDS Integers

CONSTANTS
  Addr,      (* The mapped text addresses of the debuggee.                 *)
  Byte,      (* The values of a byte.                                      *)
  WordSize,  (* sizeof(long): 8 on x86_64, smaller in the model instances. *)
  INT3,      (* 0xcc, the trap instruction.                                *)
  ONES       (* 0xff: a word made of it equals -1, ptrace's error value.   *)

ASSUME PtraceAssumption ==
  /\ Addr \subseteq Nat \ {0}
  /\ WordSize \in Nat \ {0}
  /\ {INT3, ONES} \subseteq Byte
  /\ INT3 # ONES

(* The byte addresses of the word at a. *)
Cells(a) == a .. (a + WordSize - 1)

(* A word is transferred only if all of it is mapped (EIO otherwise). *)
Readable(a) == Cells(a) \subseteq Addr

(* PTRACE_PEEKDATA of a readable word; offset 0 is the bottom byte. *)
Peek(m, a) == [i \in 0 .. (WordSize - 1) |-> m[a + i]]

(* What the callers take for a failed read: the call fails, or the word    *)
(* read happens to be -1 (they compare the data and never look at errno).  *)
PeekFails(m, a) == Readable(a) => \A i \in 0 .. (WordSize - 1) : m[a + i] = ONES

(* Faulty variant: the mask clears two bytes. *)
WithLowByte_WideMask(w, b) == [w EXCEPT ![0] = b, ![1] = 0]

(* ((data & 0xFFFFFFFFFFFFFF00) | b) *)
WithLowByte(w, b) == [w EXCEPT ![0] = b]

(* PTRACE_POKEDATA of the word w at a. *)
Poke(m, a, w) == [x \in Addr |-> IF x \in Cells(a) THEN w[x - a] ELSE m[x]]
=============================================================================
