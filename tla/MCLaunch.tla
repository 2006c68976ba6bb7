------------------------------ MODULE MCLaunch ------------------------------
(***************************************************************************)
(* Files for Launch.  Linked is laid out as linkers do now: the headers,   *)
(* the code, data that is loaded elsewhere and debug information that is   *)
(* not loaded, all of which decode.  OneSegment is of one segment,         *)
(* NoStart has none that begins with the file, Cut ends with a byte of an  *)
(* instruction; and some files fail at one of the steps that look at them. *)
(***************************************************************************)
EXTENDS Launch

MCJunk == {0, 4, 99}

Header(load, offset, vaddr, filesz, memsz) ==
  [load |-> load, offset |-> offset, vaddr |-> vaddr, filesz |-> filesz, memsz |-> memsz]

Insn_(len, mnemonic) == [len |-> len, mnemonic |-> mnemonic]

File(hdrs, entry, size, code, opens, execs, elf, info) ==
  [hdrs |-> hdrs, entry |-> entry, size |-> size, code |-> code,
   opens |-> opens, execs |-> execs, elf |-> elf, info |-> info]

(* "\x7fE" decodes to a jg. *)
Linked ==
  File(<<Header(FALSE, 0, 100, 7, 7), Header(TRUE, 0, 100, 7, 7), Header(TRUE, 8, 108, 4, 4),
         Header(TRUE, 12, 114, 2, 3)>>,
       108, 16,
       [o \in {0, 8, 9, 11, 12, 14} |->
          CASE o = 0 -> Insn_(2, "jg") [] o = 8 -> Insn_(1, "mov") [] o = 9 -> Insn_(2, "je")
            [] o = 11 -> Insn_(1, "ret") [] o = 12 -> Insn_(2, "jmp") [] o = 14 -> Insn_(1, "jne")],
       TRUE, TRUE, TRUE, TRUE)

(* mov; je; jmp; ret. *)
Code ==
  [o \in {4, 5, 7, 9} |->
     CASE o = 4 -> Insn_(1, "mov") [] o = 5 -> Insn_(2, "je")
       [] o = 7 -> Insn_(2, "jmp") [] o = 9 -> Insn_(1, "ret")]

Segment(opens, execs, elf, info) ==
  File(<<Header(TRUE, 0, 100, 10, 12)>>, 104, 10, Code, opens, execs, elf, info)

OneSegment == Segment(TRUE, TRUE, TRUE, TRUE)
NoStart    == File(<<Header(TRUE, 4, 104, 6, 6)>>, 104, 12, Code, TRUE, TRUE, TRUE, TRUE)
Cut        == File(<<Header(TRUE, 0, 100, 11, 11)>>, 104, 11, Code, TRUE, TRUE, TRUE, TRUE)

MCFiles ==
  {Linked, OneSegment, NoStart, Cut, Segment(FALSE, TRUE, TRUE, TRUE), Segment(TRUE, FALSE, TRUE, TRUE),
   Segment(TRUE, TRUE, FALSE, FALSE), Segment(TRUE, TRUE, TRUE, FALSE)}

(* Nothing; branches before, at the end of and behind the file. *)
MCSurroundings ==
  {<< >>, [o \in {0 - 6, 0 - 2, 0, 5, 10, 12, 14} |-> Insn_(2, "js")]}
=============================================================================
