------------------------------- MODULE Extract ------------------------------
(***************************************************************************)
(* poc::parameter_extractor (src/parameter_extractor.cc) and the end of    *)
(* datatype_value_to_string that calls it: what is shown of the memory a   *)
(* parameter points to.  No length is known; each loop reads words of the  *)
(* stopped debuggee until something in them, or a failed read, stops it.   *)
(*                                                                         *)
(* Half a word stands for the 32 bits of an int.  A byte has two hex       *)
(* digits, so a word prints with all its digits ("0x" and 16 of them, size *)
(* 18) when its top byte is 16 or more.  Characters are shown as           *)
(* std::to_string shows them, by their codes.                              *)
(***************************************************************************)
EXTENDS Ptrace, Sequences, FiniteSets

CONSTANTS
  Memories,  (* The contents of memory there may be.                       *)
  Params,    (* The parameters: [value, pointers, kind, byte_size], value  *)
             (* the word in its register, pointers its pointer_count, kind *)
             (* "number" or "string", byte_size that of its type or 0.     *)
  Junk       (* What the uninitialised index of get_char_data may hold.    *)

ASSUME ExtractAssumption ==
  /\ WordSize % 2 = 0 /\ ONES = 255 /\ Byte \subseteq 0 .. 255
  /\ Memories \subseteq [Addr -> Byte]
  /\ Params \subseteq [value : Int, pointers : Nat, kind : {"number", "string"}, byte_size : Nat]
  /\ Junk \subseteq Int

VARIABLES
  mem, param,
  alive,     (* The debuggee has not been killed.                          *)
  at,        (* Where the code stands: "dispatch", "pointers", "entry",    *)
             (* "numbers", "chars", "done".                                *)
  alias,     (* value_alias: NoAlias, "-1", "NULL", or "data": what        *)
             (* entries has.                                               *)
  addrs,     (* get_address_data's result.                                 *)
  entries,   (* What has been read through each pointer.                   *)
  addr, index, data (* The loop being run: its argument, its position, its *)
                    (* result.                                             *)

loop == <<addr, index, data>>
vars == <<mem, param, alive, at, alias, addrs, entries, loop>>

NoAlias == ""

Half == WordSize \div 2

(* The value of a word, as a long: addresses are added to and wrap, so     *)
(* that one in the upper half is as good as the negative number.           *)
Number(w) ==
  LET sign == IF w[WordSize - 1] > 127 THEN 0 - 1 ELSE 0
      from[i \in 0 .. WordSize] == IF i = WordSize THEN sign ELSE w[i] + 256 * from[i + 1]
  IN  from[0]

MinusOne == Number([i \in 0 .. (WordSize - 1) |-> ONES])

(* ptrace yields -1. *)
Fails(a) == ~alive \/ PeekFails(mem, a)

(* read_memory, whose callers take its -1 for a value. *)
read_memory(a) == IF Fails(a) THEN MinusOne ELSE Number(Peek(mem, a))

(* The int that (int32_t) leaves of the word at a, as bytes. *)
Int32(a) == [i \in 0 .. (Half - 1) |-> mem[a + i]]

IsZero(bytes) == \A i \in DOMAIN bytes : bytes[i] = 0

(* long_to_hex_string has 18 or 10 characters: the word, or the int and    *)
(* nothing above it, needs all its digits.                                 *)
FullDigits(w) ==
  \/ w[WordSize - 1] >= 16
  \/ w[Half - 1] >= 16 /\ \A i \in Half .. (WordSize - 1) : w[i] = 0

(* isprint, and the end of line is none. *)
Printable(c) == c \in 32 .. 126

-----------------------------------------------------------------------------
(* A call of get_number_data or get_char_data on a.  Only the first sets   *)
(* its index to 0.                                                         *)
Call(a) ==
  /\ addr' = a
  /\ data' = << >>
  /\ \/ param.kind = "number" /\ index' = 0 /\ at' = "numbers"
     \/ param.kind = "string" /\ index' \in Junk /\ at' = "chars"

(* datatype_value_to_string, once it knows pointer_count.  The test for a  *)
(* null pointer is on the printed value and never succeeds; the one for a  *)
(* null value there takes a failed read for a value.                       *)
Dispatch ==
  /\ at = "dispatch"
  /\ LET null == read_memory(param.value) = 0
         Nothing(a) == alias' = a /\ at' = "done" /\ UNCHANGED <<entries, loop>>
     IN \/ param.pointers = 0 /\ Nothing(NoAlias)
        \/ param.pointers > 0 /\ param.value = MinusOne /\ Nothing("-1")
        \/ param.pointers > 0 /\ param.value # MinusOne /\ null /\ Nothing("NULL")
        \/ /\ param.pointers = 1 /\ param.value # MinusOne /\ ~null
           /\ IF param.kind = "number" /\ param.value = 0 THEN Nothing(NoAlias)
              ELSE alias' = "data" /\ Call(param.value) /\ UNCHANGED entries
        \/ /\ param.pointers = 2 /\ param.value # MinusOne /\ ~null
           /\ alias' = "data" /\ at' = "pointers"
           /\ addr' = param.value /\ index' = 0
           /\ UNCHANGED <<data, entries>>
        \/ param.pointers > 2 /\ param.value # MinusOne /\ ~null /\ Nothing(NoAlias)
  /\ UNCHANGED <<mem, param, alive, addrs>>

(* One round of a loop over pointers: IsNull ends it, Item is kept. *)
PointerRound(IsNull(_), Item(_)) ==
  /\ at = "pointers"
  /\ LET a == addr + index * WordSize IN
       IF Fails(a) \/ IsNull(a)
       THEN at' = "entry" /\ UNCHANGED <<addrs, index>>
       ELSE addrs' = Append(addrs, Item(a)) /\ index' = index + 1 /\ UNCHANGED at
  /\ UNCHANGED <<mem, param, alive, alias, entries, addr, data>>

(* Faulty variants: the word is looked at as an int; the pointer is kept,  *)
(* not where it is.                                                        *)
ReadPointer_Int == PointerRound(LAMBDA a : IsZero(Int32(a)), LAMBDA a : a)
ReadPointer_Value == PointerRound(LAMBDA a : IsZero(Peek(mem, a)), read_memory)

(* get_address_data: one round of its loop. *)
ReadPointer == PointerRound(LAMBDA a : IsZero(Peek(mem, a)), LAMBDA a : a)

(* get_multi_number_value and get_multi_string_value: one round. *)
NextEntry ==
  /\ at = "entry"
  /\ \/ Len(entries) < Len(addrs) /\ Call(read_memory(addrs[Len(entries) + 1]))
     \/ Len(entries) = Len(addrs) /\ at' = "done" /\ UNCHANGED loop
  /\ UNCHANGED <<mem, param, alive, alias, addrs, entries>>

(* The loop returns result. *)
ReturnData(result) ==
  /\ entries' = Append(entries, result)
  /\ at' = IF param.pointers = 2 THEN "entry" ELSE "done"

Stride == IF param.byte_size # 0 THEN param.byte_size ELSE Half

(* One round of a loop over numbers. *)
NumberRound(stride, IsEnd(_)) ==
  /\ at = "numbers"
  /\ LET a == addr + index * stride IN
       IF Fails(a) \/ IsEnd(a) \/ FullDigits(Peek(mem, a))
       THEN ReturnData(data) /\ UNCHANGED loop
       ELSE data' = Append(data, Int32(a)) /\ index' = index + 1 /\ UNCHANGED <<at, entries, addr>>
  /\ UNCHANGED <<mem, param, alive, alias, addrs>>

(* Faulty variants: two numbers are a word apart; the whole word is        *)
(* compared with 0.                                                        *)
ReadNumber_Word == NumberRound(WordSize, LAMBDA a : IsZero(Int32(a)))
ReadNumber_Long == NumberRound(Stride, LAMBDA a : IsZero(Peek(mem, a)))

(* get_number_data: one round of its loop.  Besides a 0 it stops at a word *)
(* whose digits are all in use, which is to say at an address, but also    *)
(* before a negative number.                                               *)
ReadNumber == NumberRound(Stride, LAMBDA a : IsZero(Int32(a)))

(* The characters of the word w before the first that is not shown. *)
Shown(w) ==
  LET n == CHOOSE n \in 0 .. WordSize :
             /\ \A i \in 0 .. (n - 1) : Printable(w[i])
             /\ n = WordSize \/ ~Printable(w[n])
  IN  [i \in 1 .. n |-> w[i - 1]]

(* Faulty variant: what is not printable only ends its word. *)
GoesOn_Always(w) == {TRUE}

(* Whether get_char_data goes on after the word w.  When all of it is      *)
(* printable, that depends on the byte behind it in the debugger's own     *)
(* stack (chars[8]).                                                       *)
GoesOn(w) == IF Len(Shown(w)) = WordSize THEN BOOLEAN ELSE {FALSE}

(* One round of a loop over words of characters. *)
CharRound(AfterFailure) ==
  /\ at = "chars"
  /\ LET a == addr + index * WordSize
         text == data \o Shown(Peek(mem, a))
     IN IF Fails(a) THEN AfterFailure /\ UNCHANGED loop
        ELSE \E more \in GoesOn(Peek(mem, a)) :
               IF more THEN data' = text /\ index' = index + 1 /\ UNCHANGED <<at, entries, addr>>
               ELSE ReturnData(text) /\ UNCHANGED loop
  /\ UNCHANGED <<mem, param, alive, alias, addrs>>

(* Faulty variant: after a failed read the loop goes on. *)
ReadChars_Retry == CharRound(UNCHANGED <<at, entries>>)

(* get_char_data: one round of its loop. *)
ReadChars == CharRound(ReturnData(data))

(* SIGKILL reaches the stopped debuggee (external). *)
Killed ==
  /\ alive /\ at # "done"
  /\ alive' = FALSE
  /\ UNCHANGED <<mem, param, at, alias, addrs, entries, loop>>

Init ==
  /\ mem \in Memories
  /\ param \in Params
  /\ alive = TRUE
  /\ at = "dispatch"
  /\ alias = NoAlias
  /\ addrs = << >>
  /\ entries = << >>
  /\ addr = 0 /\ index = 0 /\ data = << >>

Debugger == Dispatch \/ ReadPointer \/ NextEntry \/ ReadNumber \/ ReadChars

Next == Debugger \/ Killed

Spec == Init /\ [][Next]_vars

(* The debugger runs; nobody has to kill the debuggee. *)
FairSpec == Spec /\ WF_vars(Debugger)

-----------------------------------------------------------------------------
(***************************************************************************)
(* Properties.                                                             *)
(***************************************************************************)

(* The type invariant; get_multi_number_value and get_multi_string_value   *)
(* can read every address they are given.                                  *)
TypeOK ==
  /\ mem \in [Addr -> Byte]
  /\ param \in Params
  /\ alive \in BOOLEAN
  /\ at \in {"dispatch", "pointers", "entry", "numbers", "chars", "done"}
  /\ alias \in {NoAlias, "-1", "NULL", "data"}
  /\ addrs \in Seq({a \in Addr : Readable(a)})
  /\ addr \in Int
  /\ index \in Int

(* What is being shown while memory is read stops the debuggee: the loops  *)
(* end whatever memory holds, wherever get_char_data starts and whenever   *)
(* the debuggee is killed.                                                 *)
Finishes == <>(at = "done")

(* The addresses the entries shown were read through. *)
Base(k) ==
  IF param.pointers = 1 THEN param.value ELSE Number(Peek(mem, addrs[k]))

Shows(kind) == at = "done" /\ alive /\ alias = "data" /\ param.kind = kind

(* Of an array of elements that are as wide as an int, or wider and at     *)
(* most a word, what is shown are its elements, in order, none left out    *)
(* and none of them behind the first 0: the ints whole, of wider ones the  *)
(* lower half.  Behind the last one shown is an end: unreadable memory, an *)
(* element whose lower half is 0, or a word whose digits are all in use.   *)
(* Of narrower elements nothing is said: what is shown of them are ints    *)
(* put together from several.                                              *)
Element(a) == [i \in 0 .. (Stride - 1) |-> mem[a + i]]

NumbersArePrefix ==
  Shows("number") /\ Stride \in Half .. WordSize =>
    \A k \in DOMAIN entries :
      LET At(i) == Base(k) + (i - 1) * Stride
          next == At(Len(entries[k]) + 1)
      IN  /\ \A i \in DOMAIN entries[k] :
               /\ ~IsZero(Element(At(i)))
               /\ \A j \in 0 .. (Half - 1) : entries[k][i][j] = Element(At(i))[j]
          /\ PeekFails(mem, next) \/ IsZero(Int32(next)) \/ FullDigits(Peek(mem, next))

(* An array of ints that ends with a 0 and has no number of eight hex      *)
(* digits in it is shown up to its end.                                    *)
SmallArrayAt(a, n) ==
  /\ \A i \in 0 .. n : Readable(a + i * Half) /\ mem[a + i * Half + Half - 1] \in 0 .. 15
  /\ IsZero(Int32(a + n * Half))

SmallArraysWhole ==
  Shows("number") /\ Stride = Half =>
    \A k \in DOMAIN entries : \A n \in 0 .. Cardinality(Addr) :
      SmallArrayAt(Base(k), n) => \E i \in 0 .. n : Len(entries[k]) = i /\ IsZero(Int32(Base(k) + i * Half))

(* A string shown is an unbroken run of printable bytes; nothing behind an *)
(* end of line, a terminator or unreadable memory is added to it.          *)
StringsUnbroken ==
  Shows("string") =>
    \A k \in DOMAIN entries : \E start \in Junk :
      LET a == Base(k) + start * WordSize IN
        \A i \in DOMAIN entries[k] :
          a + i - 1 \in Addr /\ entries[k][i] = mem[a + i - 1] /\ Printable(mem[a + i - 1])

(* Of an array of pointers every one up to the first null or unreadable    *)
(* one has its entry.                                                      *)
EveryPointerShown ==
  at = "done" /\ alive /\ alias = "data" /\ param.pointers = 2 =>
    LET Word(k) == param.value + k * WordSize IN
      /\ \A k \in 0 .. (Len(entries) - 1) : Readable(Word(k)) /\ ~IsZero(Peek(mem, Word(k)))
      /\ PeekFails(mem, Word(Len(entries))) \/ IsZero(Peek(mem, Word(Len(entries))))
=============================================================================
