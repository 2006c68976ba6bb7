---------------------------- MODULE Disassembler ----------------------------
(***************************************************************************)
(* poc::disasm (src/disassembler.cc): which bytes of the program's file    *)
(* are taken for its text, and which of the instructions in them are kept  *)
(* as branches.  Of a file                                                 *)
(*   hdrs   the program headers: [load, offset, vaddr, filesz, memsz];     *)
(*          load tells whether p_type is PT_LOAD                           *)
(*   entry  e_entry                                                        *)
(*   size   the length of its mapping, the last page's padding included    *)
(*   code   what its bytes decode to: [len, mnemonic] by offset, where     *)
(*          they decode to anything                                        *)
(***************************************************************************)
EXTENDS Integers, Sequences

CONSTANTS
  Junk,         (* What an uninitialised integer may hold.                 *)
  Surroundings, (* What may lie around a file's mapping: what decodes      *)
                (* there, as in code, also of what begins in the file's    *)
                (* last bytes and ends behind them.                        *)
  Longest       (* The length of the longest instruction: 15, less in the  *)
                (* model instances.                                        *)

(* The mnemonics of branch_type_table; "jmp" is there twice. *)
branch_type_table ==
  <<"jo", "jno", "jb", "jnae", "jc", "jnb", "jae", "jnc", "jz", "je", "jnz", "jne", "jbe",
    "jna", "jnbe", "ja", "js", "jns", "jp", "jpe", "jnp", "jpo", "jl", "jnge", "jnl", "jge",
    "jle", "jng", "jnle", "jg", "jmp", "jmp", "jmpf", "">>

(* Faulty variant: any segment's. *)
IsText_Any(h) == h.load

(* A header get_text_section takes textVaddr and textSize from. *)
IsText(h) == h.load /\ h.offset = 0

(* get_text_section: the last such header decides; without one the two are *)
(* what the stack held.  The text begins at the entry point and is as long *)
(* as the whole segment (less than 2^32), wherever in it that point is.    *)
TextSections(f) ==
  LET text == {i \in DOMAIN f.hdrs : IsText(f.hdrs[i])}
      last == CHOOSE i \in text : \A j \in text : j <= i
      Section(vaddr, size) == [offset |-> f.entry - vaddr, size |-> size]
  IN  IF text # {} THEN {Section(f.hdrs[last].vaddr, f.hdrs[last].memsz)}
      ELSE {Section(vaddr, size) : vaddr \in Junk, size \in Junk}

(* cs_disasm (external) numbers the instructions from the entry point and  *)
(* ends with the text or at the first byte that begins no instruction.     *)
cs_disasm(f, t) ==
  LET insns[i \in 0 .. t.size] ==
        LET o == t.offset + i IN
        IF o \in DOMAIN f.code /\ i + f.code[o].len <= t.size
        THEN <<[address |-> f.entry + i, len |-> f.code[o].len, mnemonic |-> f.code[o].mnemonic]>>
               \o insns[i + f.code[o].len]
        ELSE << >>
  IN  insns[0]

(* What cs_disasm sees of the file when its mapping is surrounded by       *)
(* around.                                                                 *)
With(f, around) ==
  LET IsOutside(o) == ~(0 <= o /\ o + around[o].len <= f.size)
      outside == {o \in DOMAIN around \ DOMAIN f.code : IsOutside(o)}
  IN  [entry |-> f.entry,
       code  |-> [o \in DOMAIN f.code \cup outside |->
                    IF o \in DOMAIN f.code THEN f.code[o] ELSE around[o]]]

(* It reads outside the mapping: the instruction at which the file's own   *)
(* code ends is not there, or may be cut off by the mapping's end.         *)
Overruns(f, t) ==
  LET insns == cs_disasm(f, t)
      stop == IF insns = << >> THEN 0
              ELSE insns[Len(insns)].address + insns[Len(insns)].len - f.entry
      o == t.offset + stop
  IN  stop < t.size /\ o \notin DOMAIN f.code /\ o \notin 0 .. (f.size - Longest)

(* What filter_branch_instruction adds to branch_instructions. *)
Filtered(insn) ==
  IF \E k \in DOMAIN branch_type_table : branch_type_table[k] = insn.mnemonic
  THEN << insn >> ELSE << >>
=============================================================================
