---------------------------- MODULE ExtractProofs ---------------------------
(***************************************************************************)
(* Proofs about Extract, for every memory, every parameter and words of    *)
(* any even size.                                                          *)
(***************************************************************************)
EXTENDS Extract, Induction, SequenceTheorems

-----------------------------------------------------------------------------
(***************************************************************************)
(* Words and their values.                                                 *)
(***************************************************************************)

LEMMA HalfIs == Half \in Nat \ {0} /\ WordSize = 2 * Half
<1>1. WordSize \in Nat \ {0} /\ WordSize % 2 = 0
  BY PtraceAssumption, ExtractAssumption
<1>2. QED
  BY <1>1 DEF Half

(* Number sums its word up from the top, from what extends its sign. *)
Sign(w) == IF w[WordSize - 1] > 127 THEN 0 - 1 ELSE 0

Sums(w, from) ==
  from = [i \in 0 .. WordSize |-> IF i = WordSize THEN Sign(w) ELSE w[i] + 256 * from[i + 1]]

LEMMA SumsExist ==
  ASSUME NEW w \in [0 .. (WordSize - 1) -> Nat]
  PROVE  \E from : Sums(w, from)
<1>0. PICK sgn \in Int : sgn = Sign(w)
  BY DEF Sign
<1> DEFINE W == WordSize
           Upto(n, g) == /\ g \in [(W - n) .. W -> Int]
                         /\ \A i \in (W - n) .. W :
                              g[i] = IF i = W THEN sgn ELSE w[i] + 256 * g[i + 1]
           S == {n \in 0 .. W : \E g : Upto(n, g)}
<1>1. W \in Nat
  BY PtraceAssumption
<1>2. 0 \in S
  <2>1. Upto(0, [i \in W .. W |-> sgn])
    BY <1>1
  <2> HIDE DEF Upto
  <2>2. QED
    BY <1>1, <2>1
<1>3. ASSUME NEW n \in 0 .. (W - 1), n \in S
      PROVE  n + 1 \in S
  <2>1. PICK g : Upto(n, g)
    BY <1>3
  <2>2. /\ W - (n + 1) \in 0 .. (W - 1) /\ W - n \in (W - n) .. W
        /\ (W - (n + 1)) .. W = {W - (n + 1)} \cup ((W - n) .. W)
        /\ (W - (n + 1)) + 1 = W - n
    <3>1. n \in Nat /\ n + 1 <= W /\ W \in Nat
      BY <1>1
    <3>2. PICK b : b = W - (n + 1)
      OBVIOUS
    <3>3. /\ b \in 0 .. (W - 1) /\ W - n = b + 1 /\ b + 1 <= W /\ b \in Int
      BY ONLY <3>1, <3>2
    <3>4. W - n \in (W - n) .. W
      BY ONLY <3>1, <3>3
    <3>5. b .. W = {b} \cup ((b + 1) .. W)
      BY ONLY <3>1, <3>3
    <3>6. QED
      BY <3>2, <3>3, <3>4, <3>5
  <2> DEFINE h == [i \in (W - (n + 1)) .. W |->
                     IF i = W - (n + 1) THEN w[i] + 256 * g[i + 1] ELSE g[i]]
  <2>3. w[W - (n + 1)] + 256 * g[W - n] \in Int
    <3>1. w[W - (n + 1)] \in Nat /\ g[W - n] \in Int
      BY <2>1, <2>2
    <3>2. QED
      BY <3>1
  <2>4. h \in [(W - (n + 1)) .. W -> Int]
    BY <1>1, <2>1, <2>2, <2>3
  <2>5. ASSUME NEW i \in (W - (n + 1)) .. W
        PROVE  h[i] = IF i = W THEN sgn ELSE w[i] + 256 * h[i + 1]
    <3>1. CASE i = W - (n + 1)
      <4>1. h[i] = w[i] + 256 * g[i + 1] /\ i # W /\ i + 1 = W - n /\ h[i + 1] = g[i + 1]
        BY <1>1, <2>2, <3>1
      <4>2. QED
        BY <4>1
    <3>2. CASE i # W - (n + 1)
      <4>1. i \in (W - n) .. W /\ h[i] = g[i]
        BY <1>1, <2>2, <3>2
      <4>2. i # W => i + 1 \in (W - n) .. W /\ i + 1 # W - (n + 1)
        BY <1>1, <3>2, <4>1
      <4>3. i # W => h[i + 1] = g[i + 1]
        BY <2>2, <4>2
      <4>4. QED
        BY <2>1, <4>1, <4>3
    <3>3. QED
      BY <3>1, <3>2
  <2> HIDE DEF h
  <2>6. Upto(n + 1, h)
    BY <2>4, <2>5
  <2>7. n + 1 \in 0 .. W
    BY <1>1
  <2> HIDE DEF Upto
  <2>8. QED
    BY <2>6, <2>7
<1>4. W \in S
  <2> HIDE DEF S
  <2>1. 0 .. W \subseteq S
    BY <1>1, <1>2, <1>3, SetInductionUpTo
  <2>2. QED
    BY <1>1, <2>1
<1>5. PICK from : Upto(W, from)
  BY <1>4
<1>6. W - W = 0
  BY <1>1
<1>7. /\ from \in [0 .. W -> Int]
      /\ \A i \in 0 .. W : from[i] = IF i = W THEN sgn ELSE w[i] + 256 * from[i + 1]
  BY <1>5, <1>6
<1>8. from = [i \in 0 .. W |-> IF i = W THEN sgn ELSE w[i] + 256 * from[i + 1]]
  BY <1>7
<1>9. Sums(w, from)
  BY <1>0, <1>8 DEF Sums
<1>10. QED
  BY <1>9

LEMMA NumberType ==
  ASSUME NEW w \in [0 .. (WordSize - 1) -> Nat]
  PROVE  Number(w) \in Int
<1>1. WordSize \in Nat
  BY PtraceAssumption
<1>2. ASSUME NEW from, Sums(w, from)
      PROVE  from[0] \in Int
  <2> DEFINE S == {n \in 0 .. WordSize : from[WordSize - n] \in Int}
  <2>1. \A i \in 0 .. WordSize : from[i] = IF i = WordSize THEN Sign(w) ELSE w[i] + 256 * from[i + 1]
    BY <1>2 DEF Sums
  <2>2. 0 \in S
    <3>1. WordSize - 0 = WordSize /\ WordSize \in 0 .. WordSize
      BY <1>1
    <3>2. QED
      BY <1>1, <2>1, <3>1 DEF Sign
  <2>3. ASSUME NEW n \in 0 .. (WordSize - 1), n \in S
        PROVE  n + 1 \in S
    <3> DEFINE i == WordSize - (n + 1)
    <3>1. i \in 0 .. (WordSize - 1) /\ i \in 0 .. WordSize /\ i # WordSize /\ i + 1 = WordSize - n
      BY <1>1
    <3>2. w[i] \in Nat /\ from[i + 1] \in Int /\ from[i] = w[i] + 256 * from[i + 1]
      BY <2>1, <2>3, <3>1
    <3>3. from[i] \in Int
      BY <3>2
    <3>4. n + 1 \in 0 .. WordSize
      BY <1>1
    <3>5. QED
      BY <3>3, <3>4
  <2> HIDE DEF S
  <2>4. WordSize \in S
    <3>1. 0 .. WordSize \subseteq S
      BY <1>1, <2>2, <2>3, SetInductionUpTo
    <3>2. QED
      BY <1>1, <3>1
  <2>5. WordSize - WordSize = 0
    BY <1>1
  <2>6. QED
    BY <2>4, <2>5 DEF S
<1> DEFINE from == CHOOSE from : Sums(w, from)
<1>3. Sums(w, from)
  BY SumsExist
<1>4. Number(w) = from[0]
  BY DEF Number, Sums, Sign
<1> HIDE DEF from
<1>5. QED
  BY <1>2, <1>3, <1>4

LEMMA MinusOneType == MinusOne \in Int
<1>1. [i \in 0 .. (WordSize - 1) |-> ONES] \in [0 .. (WordSize - 1) -> Nat]
  BY ExtractAssumption
<1>2. QED
  BY <1>1, NumberType DEF MinusOne

LEMMA MemoryType ==
  ASSUME TypeOK
  PROVE  mem \in [Addr -> 0 .. 255]
BY ExtractAssumption DEF TypeOK

LEMMA ParamType ==
  ASSUME TypeOK
  PROVE  /\ param.value \in Int /\ param.pointers \in Nat
         /\ param.kind \in {"number", "string"} /\ param.byte_size \in Nat
BY ExtractAssumption DEF TypeOK

LEMMA StrideType ==
  ASSUME TypeOK
  PROVE  Stride \in Nat \ {0}
BY ParamType, HalfIs DEF Stride

(* What can be read of memory. *)
LEMMA ReadableWord ==
  ASSUME TypeOK, NEW a \in Int, Readable(a)
  PROVE  /\ a \in Addr /\ a \in Nat
         /\ \A i \in 0 .. (WordSize - 1) : a + i \in Addr /\ mem[a + i] \in 0 .. 255
         /\ Peek(mem, a) \in [0 .. (WordSize - 1) -> Nat]
         /\ Int32(a) \in [0 .. (Half - 1) -> 0 .. 255]
<1>1. WordSize \in Nat \ {0} /\ Addr \subseteq Nat
  BY PtraceAssumption
<1>2. \A i \in 0 .. (WordSize - 1) : a + i \in Addr /\ mem[a + i] \in 0 .. 255
  <2>1. \A i \in 0 .. (WordSize - 1) : a + i \in Cells(a)
    BY <1>1 DEF Cells
  <2>2. QED
    BY <2>1, MemoryType DEF Readable
<1>3. a \in Addr
  <2>1. 0 \in 0 .. (WordSize - 1) /\ a + 0 = a
    BY <1>1
  <2>2. QED
    BY <1>2, <2>1
<1>4. \A i \in 0 .. (Half - 1) : i \in 0 .. (WordSize - 1)
  BY <1>1, HalfIs
<1>5. QED
  BY <1>1, <1>2, <1>3, <1>4, SMTT(30) DEF Peek, Int32

LEMMA ReadWord ==
  ASSUME TypeOK, NEW a \in Int, ~Fails(a)
  PROVE  alive /\ Readable(a) /\ ~PeekFails(mem, a)
BY DEF Fails, PeekFails

LEMMA ReadMemoryType ==
  ASSUME TypeOK, NEW a \in Int
  PROVE  read_memory(a) \in Int
<1>1. CASE Fails(a)
  BY <1>1, MinusOneType DEF read_memory
<1>2. CASE ~Fails(a)
  BY <1>2, ReadWord, ReadableWord, NumberType DEF read_memory
<1>3. QED
  BY <1>1, <1>2

(* Memory and the parameter do not change. *)
LEMMA Steady ==
  ASSUME [Next]_vars
  PROVE  mem' = mem /\ param' = param
BY DEF Next, Debugger, vars, Dispatch, ReadPointer, PointerRound, NextEntry, ReadNumber,
   NumberRound, ReadChars, CharRound, Killed

(* The addresses get_address_data collects. *)
Pointers == {a \in Addr : Readable(a)}

LEMMA ReadPointerEffect ==
  ASSUME TypeOK, ReadPointer
  PROVE  LET a == addr + index * WordSize IN
           /\ at = "pointers" /\ UNCHANGED <<mem, param, alive, alias, entries, addr, data>>
           /\ \/ /\ at' = "entry" /\ UNCHANGED <<addrs, index>>
                 /\ Fails(a) \/ IsZero(Peek(mem, a))
              \/ /\ at' = at /\ index' = index + 1 /\ addrs' = Append(addrs, a)
                 /\ ~Fails(a) /\ ~IsZero(Peek(mem, a)) /\ a \in Pointers
<1> DEFINE a == addr + index * WordSize
<1>1. a \in Int
  <2>1. addr \in Int /\ index \in Int /\ WordSize \in Int
    BY PtraceAssumption DEF TypeOK
  <2>2. index * WordSize \in Int
    BY <2>1
  <2>3. QED
    BY <2>1, <2>2
<1>2. ~Fails(a) => a \in Pointers
  BY <1>1, ReadWord, ReadableWord DEF Pointers
<1> HIDE DEF a
<1>3. /\ at = "pointers" /\ UNCHANGED <<mem, param, alive, alias, entries, addr, data>>
      /\ IF Fails(a) \/ IsZero(Peek(mem, a))
         THEN at' = "entry" /\ UNCHANGED <<addrs, index>>
         ELSE addrs' = Append(addrs, a) /\ index' = index + 1 /\ UNCHANGED at
  BY DEF ReadPointer, PointerRound, a
<1>4. QED
  BY <1>2, <1>3 DEF a

LEMMA ReadNumberEffect ==
  ASSUME TypeOK, ReadNumber
  PROVE  LET a == addr + index * Stride IN
           /\ a \in Int
           /\ at = "numbers" /\ UNCHANGED <<mem, param, alive, alias, addrs>>
           /\ \/ /\ ReturnData(data) /\ UNCHANGED loop
                 /\ Fails(a) \/ IsZero(Int32(a)) \/ FullDigits(Peek(mem, a))
              \/ /\ UNCHANGED <<at, entries, addr>>
                 /\ data' = Append(data, Int32(a)) /\ index' = index + 1
                 /\ ~Fails(a) /\ ~IsZero(Int32(a))
<1> DEFINE a == addr + index * Stride
<1>1. a \in Int
  <2>1. addr \in Int /\ index \in Int /\ Stride \in Int
    BY StrideType DEF TypeOK
  <2>2. index * Stride \in Int
    BY <2>1
  <2>3. QED
    BY <2>1, <2>2
<1> HIDE DEF a
<1>2. /\ at = "numbers" /\ UNCHANGED <<mem, param, alive, alias, addrs>>
      /\ IF Fails(a) \/ IsZero(Int32(a)) \/ FullDigits(Peek(mem, a))
         THEN ReturnData(data) /\ UNCHANGED loop
         ELSE data' = Append(data, Int32(a)) /\ index' = index + 1 /\ UNCHANGED <<at, entries, addr>>
  BY DEF ReadNumber, NumberRound, a
<1>3. QED
  BY <1>1, <1>2 DEF a

(* Shown keeps the printable bytes at the start of a word. *)
LEMMA ShownIs ==
  ASSUME NEW w
  PROVE  \E n \in 0 .. WordSize :
           /\ Shown(w) \in Seq(0 .. 255) /\ Len(Shown(w)) = n
           /\ \A i \in 1 .. n : Shown(w)[i] = w[i - 1] /\ Printable(w[i - 1])
<1> DEFINE W == WordSize
           Ends(n) == n = W \/ ~Printable(w[n])
           First(n) == (\A i \in 0 .. (n - 1) : Printable(w[i])) /\ Ends(n)
           T == {n \in 0 .. W : Ends(n)}
<1>1. W \in Nat
  BY PtraceAssumption
<1>2. \E n \in 0 .. W : First(n)
  <2>1. T \in SUBSET Nat /\ W \in T
    BY <1>1
  <2>2. PICK n \in T : \A m \in T : n <= m
    <3> HIDE DEF T
    <3>1. QED
      BY <2>1, LeastElement
  <2>3. \A i \in 0 .. (n - 1) : Printable(w[i])
    <3>1. ASSUME NEW i \in 0 .. (n - 1)
          PROVE  i \in 0 .. W /\ ~(n <= i)
      BY <1>1
    <3>2. QED
      BY <2>2, <3>1
  <2>4. QED
    BY <2>3
<1> DEFINE n == CHOOSE n \in 0 .. W : First(n)
<1>3. n \in 0 .. W /\ First(n)
  BY <1>2
<1>4. Shown(w) = [i \in 1 .. n |-> w[i - 1]]
  BY DEF Shown
<1> HIDE DEF n
<1>5. \A i \in 1 .. n : i - 1 \in 0 .. (n - 1)
  BY <1>1, <1>3
<1>6. \A i \in 1 .. n : Printable(w[i - 1]) /\ w[i - 1] \in 0 .. 255
  BY <1>3, <1>5 DEF Printable
<1>7. Shown(w) \in [1 .. n -> 0 .. 255] /\ n \in Nat
  BY <1>1, <1>3, <1>4, <1>6
<1>8. Shown(w) \in Seq(0 .. 255) /\ Len(Shown(w)) = n
  BY <1>7, SeqDef, LenProperties
<1>9. QED
  BY <1>3, <1>4, <1>6, <1>8

LEMMA ReadCharsEffect ==
  ASSUME TypeOK, ReadChars
  PROVE  LET a    == addr + index * WordSize
             text == data \o Shown(Peek(mem, a))
         IN /\ a \in Int
            /\ at = "chars" /\ UNCHANGED <<mem, param, alive, alias, addrs>>
            /\ \/ Fails(a) /\ ReturnData(data) /\ UNCHANGED loop
               \/ ~Fails(a) /\ ReturnData(text) /\ UNCHANGED loop
               \/ /\ ~Fails(a) /\ Len(Shown(Peek(mem, a))) = WordSize
                  /\ data' = text /\ index' = index + 1 /\ UNCHANGED <<at, entries, addr>>
<1> DEFINE a    == addr + index * WordSize
           text == data \o Shown(Peek(mem, a))
<1>1. a \in Int
  <2>1. addr \in Int /\ index \in Int /\ WordSize \in Int
    BY PtraceAssumption DEF TypeOK
  <2>2. index * WordSize \in Int
    BY <2>1
  <2>3. QED
    BY <2>1, <2>2
<1>2. /\ at = "chars" /\ UNCHANGED <<mem, param, alive, alias, addrs>>
      /\ IF Fails(a) THEN ReturnData(data) /\ UNCHANGED loop
         ELSE \E more \in GoesOn(Peek(mem, a)) :
                IF more THEN data' = text /\ index' = index + 1 /\ UNCHANGED <<at, entries, addr>>
                ELSE ReturnData(text) /\ UNCHANGED loop
  BY DEF ReadChars, CharRound
<1>3. \A more \in GoesOn(Peek(mem, a)) : more => Len(Shown(Peek(mem, a))) = WordSize
  BY DEF GoesOn
<1> HIDE DEF a, text
<1>4. QED
  BY <1>1, <1>2, <1>3 DEF a, text

-----------------------------------------------------------------------------
(***************************************************************************)
(* Types.                                                                  *)
(***************************************************************************)

(* What entries are made of: numbers or characters. *)
Items == [0 .. (Half - 1) -> 0 .. 255] \cup (0 .. 255)

TypeInv ==
  /\ TypeOK
  /\ data \in Seq(Items)
  /\ entries \in Seq(Seq(Items))

LEMMA CallType ==
  ASSUME TypeOK, NEW a \in Int, Call(a)
  PROVE  addr' = a /\ data' = << >> /\ index' \in Int /\ at' \in {"numbers", "chars"}
<1>1. Junk \subseteq Int /\ 0 \in Int
  BY ExtractAssumption
<1>2. /\ addr' = a /\ data' = << >>
      /\ \/ index' = 0 /\ at' = "numbers"
         \/ index' \in Junk /\ at' = "chars"
  BY DEF Call
<1>3. QED
  BY <1>1, <1>2

(* What NextEntry calls. *)
LEMMA NextEntryEffect ==
  ASSUME TypeInv, NextEntry
  PROVE  /\ at = "entry" /\ UNCHANGED <<mem, param, alive, alias, addrs, entries>>
         /\ \/ /\ Len(entries) < Len(addrs) /\ Len(entries) + 1 \in 1 .. Len(addrs)
               /\ addrs[Len(entries) + 1] \in Pointers
               /\ read_memory(addrs[Len(entries) + 1]) \in Int
               /\ Call(read_memory(addrs[Len(entries) + 1]))
            \/ Len(entries) = Len(addrs) /\ at' = "done" /\ UNCHANGED loop
<1>1. CASE Len(entries) = Len(addrs) /\ at' = "done" /\ UNCHANGED loop
  BY <1>1 DEF NextEntry
<1>2. CASE Len(entries) < Len(addrs) /\ Call(read_memory(addrs[Len(entries) + 1]))
  <2>1. /\ addrs \in Seq(Pointers) /\ Len(addrs) \in Nat /\ Len(entries) \in Nat
        /\ Pointers \subseteq Int
    <3>1. addrs \in Seq(Pointers) /\ entries \in Seq(Seq(Items))
      BY DEF TypeInv, TypeOK, Pointers
    <3>2. Pointers \subseteq Int
      <4>1. \A a \in Addr : a \in Int
        BY PtraceAssumption
      <4>2. \A a \in Pointers : a \in Addr
        BY DEF Pointers
      <4>3. QED
        BY <4>1, <4>2
    <3>3. QED
      BY <3>1, <3>2, LenProperties
  <2>2. Len(entries) + 1 \in 1 .. Len(addrs)
    BY <1>2, <2>1
  <2>3. addrs[Len(entries) + 1] \in Pointers
    BY <2>1, <2>2, ElementOfSeq
  <2>4. read_memory(addrs[Len(entries) + 1]) \in Int
    BY <2>1, <2>3, ReadMemoryType DEF TypeInv
  <2>5. QED
    BY <1>2, <2>2, <2>3, <2>4 DEF NextEntry
<1>3. QED
  BY <1>1, <1>2 DEF NextEntry

LEMMA ReturnDataType ==
  ASSUME TypeInv, NEW result \in Seq(Items), ReturnData(result)
  PROVE  /\ entries' = Append(entries, result) /\ entries' \in Seq(Seq(Items))
         /\ at' \in {"entry", "done"}
BY AppendProperties DEF ReturnData, TypeInv

LEMMA StepTypeInv == TypeInv /\ [Next]_vars => TypeInv'
<1> SUFFICES ASSUME TypeInv, [Next]_vars
             PROVE  TypeInv'
  OBVIOUS
<1>1. /\ mem' = mem /\ param' = param /\ mem \in [Addr -> Byte] /\ param \in Params
      /\ addrs \in Seq(Pointers) /\ addr \in Int /\ index \in Int /\ Pointers' = Pointers
      /\ param.value \in Int
      /\ alive \in BOOLEAN
      /\ at \in {"dispatch", "pointers", "entry", "numbers", "chars", "done"}
      /\ alias \in {NoAlias, "-1", "NULL", "data"}
      /\ data \in Seq(Items) /\ entries \in Seq(Seq(Items)) /\ Items' = Items
      /\ TypeOK /\ << >> \in Seq(Items)
  BY Steady, ParamType, EmptySeq DEF TypeInv, TypeOK, Pointers, Items
<1>2. SUFFICES
        /\ addrs' \in Seq(Pointers) /\ addr' \in Int /\ index' \in Int
        /\ alive' \in BOOLEAN
        /\ at' \in {"dispatch", "pointers", "entry", "numbers", "chars", "done"}
        /\ alias' \in {NoAlias, "-1", "NULL", "data"}
        /\ data' \in Seq(Items) /\ entries' \in Seq(Seq(Items))
  BY <1>1 DEF TypeInv, TypeOK, Pointers
<1>3. CASE Dispatch
  <2>1. alive' = alive /\ addrs' = addrs /\ entries' = entries
    BY <1>3 DEF Dispatch
  <2>2. /\ alias' \in {NoAlias, "-1", "NULL", "data"}
        /\ \/ at' = "done" /\ UNCHANGED loop
           \/ Call(param.value)
           \/ at' = "pointers" /\ addr' = param.value /\ index' = 0 /\ data' = data
    BY <1>3 DEF Dispatch
  <2>3. /\ addr' \in Int /\ index' \in Int /\ data' \in Seq(Items)
        /\ at' \in {"numbers", "chars", "done", "pointers"}
    <3>1. CASE at' = "done" /\ UNCHANGED loop
      BY <1>1, <3>1 DEF loop
    <3>2. CASE Call(param.value)
      BY <1>1, <3>2, CallType
    <3>3. CASE at' = "pointers" /\ addr' = param.value /\ index' = 0 /\ data' = data
      BY <1>1, <3>3
    <3>4. QED
      BY <2>2, <3>1, <3>2, <3>3
  <2>4. QED
    BY <1>1, <2>1, <2>2, <2>3
<1>4. CASE ReadPointer
  <2>1. /\ UNCHANGED <<alive, alias, addr, data, entries>> /\ at' \in {"entry", at}
        /\ index' \in {index, index + 1}
        /\ addrs' = addrs \/ \E a \in Pointers : addrs' = Append(addrs, a)
    BY <1>1, <1>4, ReadPointerEffect
  <2>2. addrs' \in Seq(Pointers)
    <3>1. CASE addrs' = addrs
      BY <1>1, <3>1
    <3>2. ASSUME NEW a \in Pointers, addrs' = Append(addrs, a)
          PROVE  addrs' \in Seq(Pointers)
      <4>1. addrs \in Seq(Pointers)
        BY <1>1
      <4>2. QED
        BY <3>2, <4>1, AppendProperties
    <3>3. QED
      BY <2>1, <3>1, <3>2
  <2>3. index' \in Int
    BY <1>1, <2>1
  <2>4. QED
    BY <1>1, <2>1, <2>2, <2>3
<1>5. CASE NextEntry
  <2>1. UNCHANGED <<alive, alias, addrs, entries>>
    BY <1>5 DEF NextEntry
  <2>2. \/ \E a \in Int : Call(a)
        \/ at' = "done" /\ UNCHANGED loop
    BY <1>5, NextEntryEffect
  <2>3. /\ addr' \in Int /\ index' \in Int /\ data' \in Seq(Items)
        /\ at' \in {"numbers", "chars", "done"}
    BY <1>1, <2>2, CallType DEF loop
  <2>4. QED
    BY <1>1, <2>1, <2>3
<1>6. CASE ReadNumber
  <2>1. PICK a \in Int :
          /\ UNCHANGED <<alive, alias, addrs>>
          /\ \/ ReturnData(data) /\ UNCHANGED loop
             \/ /\ UNCHANGED <<at, entries, addr>> /\ ~Fails(a)
                /\ data' = Append(data, Int32(a)) /\ index' = index + 1
    <3> DEFINE a == addr + index * Stride
    <3>1. /\ a \in Int
          /\ UNCHANGED <<alive, alias, addrs>>
          /\ \/ ReturnData(data) /\ UNCHANGED loop
             \/ /\ UNCHANGED <<at, entries, addr>> /\ ~Fails(a)
                /\ data' = Append(data, Int32(a)) /\ index' = index + 1
      BY <1>1, <1>6, ReadNumberEffect
    <3> HIDE DEF a
    <3>2. QED
      BY <3>1
  <2>2. CASE ReturnData(data) /\ UNCHANGED loop
    BY <1>1, <2>1, <2>2, ReturnDataType DEF loop
  <2>3. CASE /\ UNCHANGED <<at, entries, addr>> /\ ~Fails(a)
             /\ data' = Append(data, Int32(a)) /\ index' = index + 1
    <3>1. Int32(a) \in Items
      BY <1>1, <2>3, ReadWord, ReadableWord DEF Items
    <3>2. data' \in Seq(Items)
      BY <1>1, <2>3, <3>1, AppendProperties
    <3>3. QED
      BY <1>1, <2>1, <2>3, <3>2
  <2>4. QED
    BY <2>1, <2>2, <2>3
<1>7. CASE ReadChars
  <2>1. PICK w :
          /\ UNCHANGED <<alive, alias, addrs>>
          /\ \/ ReturnData(data) /\ UNCHANGED loop
             \/ ReturnData(data \o Shown(w)) /\ UNCHANGED loop
             \/ /\ UNCHANGED <<at, entries, addr>>
                /\ data' = data \o Shown(w) /\ index' = index + 1
    BY <1>1, <1>7, ReadCharsEffect
  <2>2. data \o Shown(w) \in Seq(Items)
    <3>1. Shown(w) \in Seq(0 .. 255) /\ 0 .. 255 \subseteq Items
      BY ShownIs DEF Items
    <3>2. Shown(w) \in Seq(Items)
      BY <3>1, SeqMonotonic
    <3>3. QED
      BY <1>1, <3>2, ConcatProperties
  <2>3. \/ UNCHANGED loop /\ \E result \in Seq(Items) : ReturnData(result)
        \/ UNCHANGED <<at, entries, addr>> /\ data' \in Seq(Items) /\ index' = index + 1
    BY <1>1, <2>1, <2>2
  <2>4. CASE UNCHANGED loop /\ \E result \in Seq(Items) : ReturnData(result)
    BY <1>1, <2>1, <2>4, ReturnDataType DEF loop
  <2>5. CASE UNCHANGED <<at, entries, addr>> /\ data' \in Seq(Items) /\ index' = index + 1
    BY <1>1, <2>1, <2>5
  <2>6. QED
    BY <2>3, <2>4, <2>5
<1>8. CASE Killed \/ UNCHANGED vars
  BY <1>1, <1>8 DEF Killed, vars, loop
<1>9. QED
  BY <1>3, <1>4, <1>5, <1>6, <1>7, <1>8 DEF Next, Debugger

LEMMA InitTypeInv == Init => TypeInv
<1>1. Init => << >> \in Seq(Pointers) /\ << >> \in Seq(Items) /\ << >> \in Seq(Seq(Items))
  BY EmptySeq
<1>2. QED
  BY <1>1, ExtractAssumption DEF Init, TypeInv, TypeOK, Pointers

(***************************************************************************)
(* Every address get_address_data collects can be read, whatever memory    *)
(* holds; what the loops of datatype_value_to_string work on are addresses *)
(* and positions.                                                          *)
(***************************************************************************)
THEOREM ExtractTypeCorrect == Spec => []TypeOK
<1>1. TypeInv => TypeOK
  BY DEF TypeInv
<1>2. QED
  BY InitTypeInv, StepTypeInv, <1>1, PTL DEF Spec

-----------------------------------------------------------------------------
(***************************************************************************)
(* Every pointer of an array of pointers has its entry.                    *)
(***************************************************************************)

(* Where the code stands with how much done. *)
PhaseInv ==
  /\ at = "dispatch" => alias = NoAlias /\ addrs = << >> /\ entries = << >>
  /\ at = "numbers" => param.kind = "number"
  /\ at = "chars" => param.kind = "string"
  /\ at \in {"pointers", "entry", "numbers", "chars"} => alias = "data"
  /\ at \in {"pointers", "entry"} => param.pointers = 2
  /\ alias = "data" => \/ /\ param.pointers = 1 /\ at \in {"numbers", "chars", "done"}
                          /\ Len(entries) = IF at = "done" THEN 1 ELSE 0
                       \/ /\ param.pointers = 2
                          /\ at = "pointers" => entries = << >>
                          /\ Len(entries) <= Len(addrs)
                          /\ at \in {"numbers", "chars"} => Len(entries) < Len(addrs)
                          /\ at = "done" => Len(entries) = Len(addrs)

(* Where the k-th pointer is. *)
Word(k) == param.value + k * WordSize

PointersInv ==
  alias = "data" /\ param.pointers = 2 =>
    /\ \A k \in 1 .. Len(addrs) :
         /\ addrs[k] = Word(k - 1)
         /\ Readable(addrs[k]) /\ ~PeekFails(mem, addrs[k]) /\ ~IsZero(Peek(mem, addrs[k]))
    /\ at = "pointers" => addr = param.value /\ index = Len(addrs)
    /\ at # "pointers" /\ alive =>
         PeekFails(mem, Word(Len(addrs))) \/ IsZero(Peek(mem, Word(Len(addrs))))

LEMMA AliasIs == NoAlias # "data"
BY Zenon DEF NoAlias

LEMMA DispatchEffect ==
  ASSUME TypeInv, Dispatch
  PROVE  /\ at = "dispatch" /\ UNCHANGED <<mem, param, alive, addrs, entries>>
         /\ \/ alias' # "data" /\ at' = "done"
            \/ alias' = "data" /\ param.pointers = 1 /\ Call(param.value)
            \/ /\ alias' = "data" /\ param.pointers = 2
               /\ at' = "pointers" /\ addr' = param.value /\ index' = 0
<1>1. /\ at = "dispatch" /\ UNCHANGED <<mem, param, alive, addrs, entries>>
      /\ \/ alias' \in {NoAlias, "-1", "NULL"} /\ at' = "done"
         \/ alias' = "data" /\ param.pointers = 1 /\ Call(param.value)
         \/ /\ alias' = "data" /\ param.pointers = 2
            /\ at' = "pointers" /\ addr' = param.value /\ index' = 0
  BY DEF Dispatch
<1>2. QED
  BY <1>1, AliasIs

LEMMA CallPhase ==
  ASSUME TypeInv, NEW a, Call(a)
  PROVE  \/ at' = "numbers" /\ param.kind = "number"
         \/ at' = "chars" /\ param.kind = "string"
BY DEF Call

LEMMA ReturnPhase ==
  ASSUME TypeInv, NEW result \in Seq(Items), ReturnData(result)
  PROVE  /\ Len(entries) \in Nat /\ Len(entries') = Len(entries) + 1
         /\ entries'[Len(entries) + 1] = result
         /\ \A k \in 1 .. Len(entries) : entries'[k] = entries[k]
         /\ at' = IF param.pointers = 2 THEN "entry" ELSE "done"
BY AppendProperties, LenProperties DEF ReturnData, TypeInv

(* A round of the loop over numbers or characters. *)
Round ==
  /\ at \in {"numbers", "chars"} /\ UNCHANGED <<mem, param, alive, alias, addrs, addr>>
  /\ \/ \E result \in Seq(Items) : ReturnData(result)
     \/ UNCHANGED <<at, entries>>

LEMMA RoundEffect ==
  ASSUME TypeInv, ReadNumber \/ ReadChars
  PROVE  Round
<1>1. CASE ReadNumber
  BY <1>1, ReadNumberEffect DEF Round, TypeInv, loop
<1>2. CASE ReadChars
  <2> DEFINE w == Peek(mem, addr + index * WordSize)
  <2>1. /\ at = "chars" /\ UNCHANGED <<mem, param, alive, alias, addrs, addr>>
        /\ ReturnData(data) \/ ReturnData(data \o Shown(w)) \/ UNCHANGED <<at, entries>>
    BY <1>2, ReadCharsEffect DEF TypeInv, loop
  <2> HIDE DEF w
  <2>2. data \in Seq(Items) /\ data \o Shown(w) \in Seq(Items)
    <3>1. Shown(w) \in Seq(0 .. 255) /\ 0 .. 255 \subseteq Items
      BY ShownIs DEF Items
    <3>2. Shown(w) \in Seq(Items) /\ data \in Seq(Items)
      BY <3>1, SeqMonotonic DEF TypeInv
    <3>3. QED
      BY <3>2, ConcatProperties
  <2>3. QED
    BY <2>1, <2>2 DEF Round
<1>3. QED
  BY <1>1, <1>2

LEMMA StepPhaseInv == TypeInv /\ PhaseInv /\ [Next]_vars => PhaseInv'
<1> SUFFICES ASSUME TypeInv, PhaseInv, [Next]_vars
             PROVE  PhaseInv'
  OBVIOUS
<1>1. /\ Len(addrs) \in Nat /\ Len(entries) \in Nat /\ param' = param
      /\ entries \in Seq(Seq(Items)) /\ addrs \in Seq(Pointers)
  <2>1. entries \in Seq(Seq(Items)) /\ addrs \in Seq(Pointers)
    BY DEF TypeInv, TypeOK, Pointers
  <2>2. QED
    BY <2>1, LenProperties, Steady
<1>2. CASE Dispatch
  <2>1. at = "dispatch" /\ addrs' = << >> /\ entries' = << >> /\ Len(<< >>) = 0
    BY <1>1, <1>2, DispatchEffect, EmptySeq DEF PhaseInv
  <2>2. \/ alias' # "data" /\ at' = "done"
        \/ alias' = "data" /\ param.pointers = 1 /\ Call(param.value)
        \/ alias' = "data" /\ param.pointers = 2 /\ at' = "pointers"
    BY <1>2, DispatchEffect
  <2>3. CASE alias' # "data" /\ at' = "done"
    BY <2>3 DEF PhaseInv
  <2>4. CASE alias' = "data" /\ param.pointers = 1 /\ Call(param.value)
    BY <1>1, <2>1, <2>4, CallPhase DEF PhaseInv
  <2>5. CASE alias' = "data" /\ param.pointers = 2 /\ at' = "pointers"
    BY <1>1, <2>1, <2>5 DEF PhaseInv
  <2>6. QED
    BY <2>2, <2>3, <2>4, <2>5
<1>3. CASE ReadPointer
  <2>1. /\ at = "pointers" /\ UNCHANGED <<alias, entries>> /\ at' \in {"pointers", "entry"}
    BY <1>3, ReadPointerEffect DEF TypeInv
  <2>2. Len(addrs') \in Nat
    BY LenProperties, StepTypeInv DEF TypeInv, TypeOK
  <2>3. alias = "data" /\ param.pointers = 2 /\ entries = << >> /\ Len(entries) = 0
    BY <2>1, EmptySeq DEF PhaseInv
  <2>4. QED
    BY <1>1, <2>1, <2>2, <2>3 DEF PhaseInv
<1>4. CASE NextEntry
  <2>1. at = "entry" /\ UNCHANGED <<alias, addrs, entries>>
    BY <1>4, NextEntryEffect
  <2>2. alias = "data" /\ param.pointers = 2
    BY <2>1 DEF PhaseInv
  <2>3. \/ Len(entries) < Len(addrs) /\ \/ at' = "numbers" /\ param.kind = "number"
                                        \/ at' = "chars" /\ param.kind = "string"
        \/ Len(entries) = Len(addrs) /\ at' = "done"
    BY <1>4, NextEntryEffect, CallPhase
  <2>4. QED
    BY <1>1, <2>1, <2>2, <2>3 DEF PhaseInv
<1>5. CASE ReadNumber \/ ReadChars
  <2>1. Round
    BY <1>5, RoundEffect
  <2>2. CASE UNCHANGED <<at, entries>>
    BY <1>1, <2>1, <2>2 DEF Round, PhaseInv
  <2>3. ASSUME NEW result \in Seq(Items), ReturnData(result)
        PROVE  PhaseInv'
    <3>1. /\ Len(entries') = Len(entries) + 1
          /\ at' = IF param.pointers = 2 THEN "entry" ELSE "done"
      BY <2>3, ReturnPhase
    <3>2. UNCHANGED <<alias, addrs>> /\ at \in {"numbers", "chars"} /\ alias = "data"
      BY <2>1 DEF Round, PhaseInv
    <3>3. CASE param.pointers = 1 /\ Len(entries) = 0
      BY <1>1, <3>1, <3>2, <3>3 DEF PhaseInv
    <3>4. CASE param.pointers = 2 /\ Len(entries) < Len(addrs)
      BY <1>1, <3>1, <3>2, <3>4 DEF PhaseInv
    <3>5. QED
      BY <3>2, <3>3, <3>4 DEF PhaseInv
  <2>4. QED
    BY <2>1, <2>2, <2>3 DEF Round
<1>6. CASE Killed \/ UNCHANGED vars
  BY <1>1, <1>6 DEF Killed, vars, loop, PhaseInv
<1>7. QED
  BY <1>2, <1>3, <1>4, <1>5, <1>6 DEF Next, Debugger

LEMMA StepPointersInv == TypeInv /\ PhaseInv /\ PointersInv /\ [Next]_vars => PointersInv'
<1> SUFFICES ASSUME TypeInv, PhaseInv, PointersInv, [Next]_vars, alias' = "data",
                    param.pointers = 2
             PROVE  PointersInv'
  BY Steady DEF PointersInv
<1>1. /\ Len(addrs) \in Nat /\ addrs \in Seq(Pointers)
      /\ mem' = mem /\ param' = param
      /\ \A k : Word(k)' = Word(k)
  <2>1. addrs \in Seq(Pointers)
    BY DEF TypeInv, TypeOK, Pointers
  <2>2. QED
    BY <2>1, LenProperties, Steady DEF Word
<1>2. CASE Dispatch
  <2>1. /\ addrs' = << >> /\ Len(addrs') = 0
        /\ at' = "pointers" /\ addr' = param.value /\ index' = 0
    BY <1>2, DispatchEffect, EmptySeq DEF PhaseInv
  <2>2. QED
    BY <1>1, <2>1 DEF PointersInv
<1>3. CASE ReadPointer
  <2> DEFINE a == addr + index * WordSize
  <2>1. /\ at = "pointers" /\ alias = "data"
        /\ addr = param.value /\ index = Len(addrs) /\ a = Word(Len(addrs))
    BY <1>3, ReadPointerEffect DEF TypeInv, PhaseInv, PointersInv, Word
  <2>2. /\ UNCHANGED <<alive, addr>>
        /\ \/ /\ at' = "entry" /\ UNCHANGED <<addrs, index>>
              /\ Fails(a) \/ IsZero(Peek(mem, a))
           \/ /\ at' = "pointers" /\ index' = index + 1 /\ addrs' = Append(addrs, a)
              /\ ~Fails(a) /\ ~IsZero(Peek(mem, a)) /\ a \in Pointers
    BY <1>3, <2>1, ReadPointerEffect DEF TypeInv
  <2> HIDE DEF a
  <2>3. CASE /\ at' = "entry" /\ UNCHANGED <<addrs, index>>
             /\ Fails(a) \/ IsZero(Peek(mem, a))
    BY <1>1, <2>1, <2>2, <2>3 DEF PointersInv, Fails
  <2>4. CASE /\ at' = "pointers" /\ index' = index + 1 /\ addrs' = Append(addrs, a)
             /\ ~Fails(a) /\ ~IsZero(Peek(mem, a)) /\ a \in Pointers
    <3>1. /\ Len(addrs') = Len(addrs) + 1 /\ addrs'[Len(addrs) + 1] = a
          /\ \A k \in 1 .. Len(addrs) : addrs'[k] = addrs[k]
      BY <1>1, <2>4, AppendProperties
    <3>2. Readable(a) /\ ~PeekFails(mem, a)
      BY <2>4 DEF Fails, PeekFails
    <3>3. ASSUME NEW k \in 1 .. Len(addrs')
          PROVE  /\ addrs'[k] = Word(k - 1)
                 /\ Readable(addrs'[k]) /\ ~PeekFails(mem, addrs'[k]) /\ ~IsZero(Peek(mem, addrs'[k]))
      <4>1. CASE k = Len(addrs) + 1
        <5>1. k - 1 = Len(addrs) /\ addrs'[k] = a
          BY <1>1, <3>1, <4>1
        <5>2. QED
          BY <2>1, <2>4, <3>2, <5>1
      <4>2. CASE k # Len(addrs) + 1
        <5>1. k \in 1 .. Len(addrs) /\ addrs'[k] = addrs[k]
          BY <1>1, <3>1, <4>2
        <5>2. QED
          BY <2>1, <5>1 DEF PointersInv
      <4>3. QED
        BY <4>1, <4>2
    <3>4. addr' = param.value /\ index' = Len(addrs')
      BY <2>1, <2>2, <2>4, <3>1
    <3>5. QED
      BY <1>1, <2>4, <3>3, <3>4 DEF PointersInv
  <2>5. QED
    BY <2>2, <2>3, <2>4
<1>4. CASE NextEntry
  <2>1. at = "entry" /\ UNCHANGED <<alive, alias, addrs>> /\ at' # "pointers"
    BY <1>4, NextEntryEffect, CallPhase
  <2>2. QED
    BY <1>1, <2>1 DEF PointersInv
<1>5. CASE ReadNumber \/ ReadChars
  <2>1. at # "pointers" /\ at' # "pointers" /\ UNCHANGED <<alive, alias, addrs>>
    BY <1>5, RoundEffect DEF Round, ReturnData
  <2>2. QED
    BY <1>1, <2>1 DEF PointersInv
<1>6. CASE Killed \/ UNCHANGED vars
  BY <1>1, <1>6 DEF Killed, vars, loop, PointersInv
<1>7. QED
  BY <1>2, <1>3, <1>4, <1>5, <1>6 DEF Next, Debugger

LEMMA InitPhase == Init => PhaseInv /\ PointersInv
BY AliasIs DEF Init, PhaseInv, PointersInv

(***************************************************************************)
(* Whatever memory and parameter, of an array of pointers exactly those    *)
(* before the first null or unreadable one are shown: get_address_data     *)
(* stops nowhere else and the loop over its result leaves none out.        *)
(***************************************************************************)
THEOREM PointersAreAllShown == Spec => []EveryPointerShown
<1>1. TypeInv /\ PhaseInv /\ PointersInv => EveryPointerShown
  <2> SUFFICES ASSUME TypeInv, PhaseInv, PointersInv, at = "done", alive, alias = "data",
                      param.pointers = 2
               PROVE  /\ \A k \in 0 .. (Len(entries) - 1) : Readable(Word(k)) /\ ~IsZero(Peek(mem, Word(k)))
                      /\ \/ PeekFails(mem, Word(Len(entries)))
                         \/ IsZero(Peek(mem, Word(Len(entries))))
    BY DEF EveryPointerShown, Word
  <2>1. Len(entries) = Len(addrs) /\ Len(addrs) \in Nat
    <3>1. addrs \in Seq(Pointers)
      BY DEF TypeInv, TypeOK, Pointers
    <3>2. QED
      BY <3>1, LenProperties DEF PhaseInv
  <2>2. ASSUME NEW k \in 0 .. (Len(entries) - 1)
        PROVE  Readable(Word(k)) /\ ~IsZero(Peek(mem, Word(k)))
    <3>1. k + 1 \in 1 .. Len(addrs) /\ (k + 1) - 1 = k
      BY <2>1
    <3>2. addrs[k + 1] = Word(k)
      BY <3>1 DEF PointersInv
    <3>3. QED
      BY <3>1, <3>2 DEF PointersInv
  <2>3. QED
    BY <2>1, <2>2 DEF PointersInv
<1>2. QED
  BY InitTypeInv, StepTypeInv, InitPhase, StepPhaseInv, StepPointersInv, <1>1, PTL DEF Spec

-----------------------------------------------------------------------------
(***************************************************************************)
(* What the loops over numbers read.                                       *)
(***************************************************************************)

(* Base, for a memory m, a parameter p and the addresses as. *)
BaseOf(m, p, as, k) == IF p.pointers = 1 THEN p.value ELSE Number(Peek(m, as[k]))

(* The loop being run reads behind the pointer of the next entry. *)
BaseInv ==
  alive /\ alias = "data" /\ at \in {"numbers", "chars"} =>
    addr = BaseOf(mem, param, addrs, Len(entries) + 1)

LEMMA StepBaseInv == TypeInv /\ PhaseInv /\ PointersInv /\ BaseInv /\ [Next]_vars => BaseInv'
<1> SUFFICES ASSUME TypeInv, PhaseInv, PointersInv, BaseInv, [Next]_vars,
                    alive', alias' = "data", at' \in {"numbers", "chars"}
             PROVE  addr' = BaseOf(mem', param', addrs', Len(entries') + 1)
  BY DEF BaseInv
<1>1. CASE Dispatch
  <2>1. param.pointers = 1 /\ Call(param.value) /\ param' = param
    BY <1>1, DispatchEffect
  <2>2. QED
    BY <2>1 DEF Call, BaseOf
<1>2. CASE ReadPointer
  BY <1>2, ReadPointerEffect DEF TypeInv
<1>3. CASE NextEntry
  <2> DEFINE a == addrs[Len(entries) + 1]
  <2>1. /\ at = "entry" /\ UNCHANGED <<mem, param, alive, alias, addrs, entries>>
        /\ Len(entries) + 1 \in 1 .. Len(addrs) /\ Call(read_memory(a))
    BY <1>3, NextEntryEffect
  <2>2. ~PeekFails(mem, a) /\ param.pointers = 2
    BY <2>1 DEF PhaseInv, PointersInv
  <2>3. read_memory(a) = Number(Peek(mem, a))
    BY <2>1, <2>2 DEF read_memory, Fails
  <2>4. addr' = Number(Peek(mem, a))
    BY <2>1, <2>3 DEF Call
  <2>5. QED
    BY <2>1, <2>2, <2>4 DEF BaseOf
<1>4. CASE ReadNumber \/ ReadChars
  <2>1. Round
    BY <1>4, RoundEffect
  <2>2. UNCHANGED <<at, entries>>
    BY <2>1 DEF Round, ReturnData
  <2>3. QED
    BY <2>1, <2>2 DEF Round, BaseInv
<1>5. CASE Killed \/ UNCHANGED vars
  BY <1>5 DEF Killed, vars, loop, BaseInv
<1>6. QED
  BY <1>1, <1>2, <1>3, <1>4, <1>5 DEF Next, Debugger

(* Int32, for a memory m. *)
IntAt(m, a) == [i \in 0 .. (Half - 1) |-> m[a + i]]

(* s is made of the numbers from a on, d bytes apart, and none is 0. *)
Elements(m, d, a, s) ==
  \A i \in 1 .. Len(s) :
    s[i] = IntAt(m, a + (i - 1) * d) /\ ~IsZero(IntAt(m, a + (i - 1) * d))

(* What ends the loop over numbers at a. *)
Stops(m, a) == PeekFails(m, a) \/ IsZero(IntAt(m, a)) \/ FullDigits(Peek(m, a))

NumbersInv ==
  alive /\ alias = "data" /\ param.kind = "number" =>
    /\ at = "numbers" => index = Len(data) /\ Elements(mem, Stride, addr, data)
    /\ \A k \in 1 .. Len(entries) :
         LET a == BaseOf(mem, param, addrs, k)
         IN  /\ Elements(mem, Stride, a, entries[k])
             /\ Stops(mem, a + Len(entries[k]) * Stride)

LEMMA StepNumbersInv ==
  TypeInv /\ PhaseInv /\ BaseInv /\ NumbersInv /\ [Next]_vars => NumbersInv'
<1> SUFFICES ASSUME TypeInv, PhaseInv, BaseInv, NumbersInv, [Next]_vars,
                    alive', alias' = "data", param.kind = "number"
             PROVE  NumbersInv'
  BY Steady DEF NumbersInv
<1>1. /\ mem' = mem /\ param' = param /\ Stride' = Stride
      /\ data \in Seq(Items) /\ entries \in Seq(Seq(Items)) /\ addrs \in Seq(Pointers)
      /\ Len(data) \in Nat /\ Len(entries) \in Nat
  <2>1. data \in Seq(Items) /\ entries \in Seq(Seq(Items)) /\ addrs \in Seq(Pointers)
    BY DEF TypeInv, TypeOK, Pointers
  <2>2. QED
    BY <2>1, Steady, LenProperties DEF Stride
<1>2. CASE Dispatch
  <2>1. entries' = << >> /\ Len(entries') = 0
    BY <1>2, DispatchEffect, EmptySeq DEF PhaseInv
  <2>2. at' = "numbers" => index' = 0 /\ data' = << >>
    BY <1>2, DispatchEffect DEF Call
  <2>3. Len(<< >>) = 0
    BY EmptySeq
  <2>4. QED
    BY <1>1, <2>1, <2>2, <2>3 DEF NumbersInv, Elements
<1>3. CASE ReadPointer
  <2>1. at' \in {"pointers", "entry"} /\ entries' = << >> /\ Len(entries') = 0
    BY <1>3, ReadPointerEffect, EmptySeq DEF PhaseInv, TypeInv
  <2>2. QED
    BY <2>1 DEF NumbersInv
<1>4. CASE NextEntry
  <2>1. UNCHANGED <<mem, param, alive, alias, addrs, entries>>
    BY <1>4, NextEntryEffect
  <2>2. at' = "numbers" => index' = 0 /\ data' = << >>
    BY <1>4, NextEntryEffect DEF Call
  <2>3. Len(<< >>) = 0
    BY EmptySeq
  <2>4. at' = "numbers" => index' = Len(data') /\ Elements(mem', Stride', addr', data')
    BY <2>2, <2>3 DEF Elements
  <2>5. QED
    BY <1>1, <2>1, <2>4 DEF NumbersInv
<1>5. CASE ReadNumber
  <2>1. PICK a \in Int :
          /\ a = addr + index * Stride
          /\ at = "numbers" /\ UNCHANGED <<alive, alias, addrs>>
          /\ \/ /\ ReturnData(data) /\ UNCHANGED loop
                /\ Fails(a) \/ IsZero(Int32(a)) \/ FullDigits(Peek(mem, a))
             \/ /\ UNCHANGED <<at, entries, addr>>
                /\ data' = Append(data, Int32(a)) /\ index' = index + 1
                /\ ~Fails(a) /\ ~IsZero(Int32(a))
    BY <1>5, ReadNumberEffect DEF TypeInv
  <2>2. /\ Int32(a) = IntAt(mem, a)
        /\ index = Len(data) /\ Elements(mem, Stride, addr, data)
        /\ addr = BaseOf(mem, param, addrs, Len(entries) + 1)
    BY <2>1 DEF Int32, IntAt, NumbersInv, BaseInv
  <2>3. CASE /\ ReturnData(data) /\ UNCHANGED loop
             /\ Fails(a) \/ IsZero(Int32(a)) \/ FullDigits(Peek(mem, a))
    <3>1. /\ Len(entries') = Len(entries) + 1
          /\ entries'[Len(entries) + 1] = data
          /\ \A k \in 1 .. Len(entries) : entries'[k] = entries[k]
          /\ at' \in {"entry", "done"}
      BY <1>1, <2>3, ReturnPhase
    <3>2. Stops(mem, addr + Len(data) * Stride)
      BY <2>1, <2>2, <2>3 DEF Stops, Fails
    <3>3. ASSUME NEW k \in 1 .. Len(entries')
          PROVE  /\ Elements(mem, Stride, BaseOf(mem, param, addrs, k), entries'[k])
                 /\ Stops(mem, BaseOf(mem, param, addrs, k) + Len(entries'[k]) * Stride)
      <4>1. CASE k = Len(entries) + 1
        BY <2>2, <3>1, <3>2, <4>1
      <4>2. CASE k # Len(entries) + 1
        <5>1. k \in 1 .. Len(entries) /\ entries'[k] = entries[k]
          BY <1>1, <3>1, <4>2
        <5>2. QED
          BY <2>1, <5>1 DEF NumbersInv
      <4>3. QED
        BY <4>1, <4>2
    <3>4. QED
      BY <1>1, <2>1, <3>1, <3>3 DEF NumbersInv
  <2>4. CASE /\ UNCHANGED <<at, entries, addr>>
             /\ data' = Append(data, Int32(a)) /\ index' = index + 1
             /\ ~Fails(a) /\ ~IsZero(Int32(a))
    <3>1. Int32(a) \in Items
      BY <2>4, ReadWord, ReadableWord DEF Items, TypeInv
    <3>2. /\ Len(data') = Len(data) + 1 /\ data'[Len(data) + 1] = IntAt(mem, a)
          /\ \A i \in 1 .. Len(data) : data'[i] = data[i]
      BY <1>1, <2>2, <2>4, <3>1, AppendProperties
    <3>3. ASSUME NEW i \in 1 .. Len(data')
          PROVE  /\ data'[i] = IntAt(mem, addr + (i - 1) * Stride)
                 /\ ~IsZero(IntAt(mem, addr + (i - 1) * Stride))
      <4>1. CASE i = Len(data) + 1
        <5>1. i - 1 = index
          BY <1>1, <2>2, <4>1
        <5>2. addr + (i - 1) * Stride = a
          BY <2>1, <5>1
        <5>3. QED
          BY <2>2, <2>4, <3>2, <4>1, <5>2
      <4>2. CASE i # Len(data) + 1
        <5>1. i \in 1 .. Len(data) /\ data'[i] = data[i]
          BY <1>1, <3>2, <4>2
        <5>2. QED
          BY <2>2, <5>1 DEF Elements
      <4>3. QED
        BY <4>1, <4>2
    <3>4. Elements(mem, Stride, addr, data')
      BY <3>3 DEF Elements
    <3>5. QED
      BY <1>1, <2>1, <2>2, <2>4, <3>2, <3>4 DEF NumbersInv
  <2>5. QED
    BY <2>1, <2>3, <2>4
<1>6. CASE ReadChars
  BY <1>6, ReadCharsEffect DEF PhaseInv, TypeInv
<1>7. CASE Killed \/ UNCHANGED vars
  BY <1>1, <1>7 DEF Killed, vars, loop, NumbersInv
<1>8. QED
  BY <1>2, <1>3, <1>4, <1>5, <1>6, <1>7 DEF Next, Debugger

LEMMA InitData == Init => BaseInv /\ NumbersInv
BY AliasIs DEF Init, BaseInv, NumbersInv

DataInv == TypeInv /\ PhaseInv /\ PointersInv /\ BaseInv /\ NumbersInv

LEMMA DataInvHolds == Spec => []DataInv
<1>1. Init => DataInv
  BY InitTypeInv, InitPhase, InitData DEF DataInv
<1>2. DataInv /\ [Next]_vars => DataInv'
  BY StepTypeInv, StepPhaseInv, StepPointersInv, StepBaseInv, StepNumbersInv DEF DataInv
<1>3. QED
  BY <1>1, <1>2, PTL DEF Spec

LEMMA AsShown ==
  ASSUME DataInv
  PROVE  /\ \A k : Base(k) = BaseOf(mem, param, addrs, k)
         /\ \A a : Int32(a) = IntAt(mem, a)
         /\ entries \in Seq(Seq(Items)) /\ Len(entries) \in Nat /\ DOMAIN entries = 1 .. Len(entries)
         /\ \A k \in 1 .. Len(entries) :
              /\ entries[k] \in Seq(Items) /\ Len(entries[k]) \in Nat
              /\ DOMAIN entries[k] = 1 .. Len(entries[k])
<1>1. entries \in Seq(Seq(Items))
  BY DEF DataInv, TypeInv
<1>2. Len(entries) \in Nat /\ DOMAIN entries = 1 .. Len(entries)
  BY <1>1, LenProperties
<1>3. ASSUME NEW k \in 1 .. Len(entries)
      PROVE  /\ entries[k] \in Seq(Items) /\ Len(entries[k]) \in Nat
             /\ DOMAIN entries[k] = 1 .. Len(entries[k])
  <2>1. entries[k] \in Seq(Items)
    BY <1>1, ElementOfSeq
  <2>2. QED
    BY <2>1, LenProperties
<1>4. QED
  BY <1>1, <1>2, <1>3 DEF Base, BaseOf, Int32, IntAt

(***************************************************************************)
(* Of an array whose elements are as wide as an int, or wider and at most  *)
(* a word, get_number_data shows the elements in order, each where the     *)
(* byte_size of its type puts it, ints whole and wider ones by their lower *)
(* halves; it neither leaves one out nor shows a 0 or reads past one, and  *)
(* it goes on until one of its three tests ends it, whatever memory holds, *)
(* through one pointer or two.                                             *)
(***************************************************************************)
THEOREM NumbersAreElements == Spec => []NumbersArePrefix
<1>1. DataInv => NumbersArePrefix
  <2> DEFINE At(k, i) == Base(k) + (i - 1) * Stride
  <2> SUFFICES ASSUME DataInv, Shows("number"), Stride \in Half .. WordSize, NEW k \in DOMAIN entries
               PROVE  /\ \A i \in DOMAIN entries[k] :
                           /\ ~IsZero(Element(At(k, i)))
                           /\ \A j \in 0 .. (Half - 1) : entries[k][i][j] = Element(At(k, i))[j]
                      /\ \/ PeekFails(mem, At(k, Len(entries[k]) + 1))
                         \/ IsZero(Int32(At(k, Len(entries[k]) + 1)))
                         \/ FullDigits(Peek(mem, At(k, Len(entries[k]) + 1)))
    BY DEF NumbersArePrefix
  <2>1. k \in 1 .. Len(entries) /\ DOMAIN entries[k] = 1 .. Len(entries[k]) /\ Len(entries[k]) \in Nat
    BY AsShown
  <2>2. /\ Elements(mem, Stride, Base(k), entries[k])
        /\ Stops(mem, Base(k) + Len(entries[k]) * Stride)
    BY <2>1, AsShown DEF DataInv, NumbersInv, Shows
  <2>3. ASSUME NEW a
        PROVE  \A j \in 0 .. (Half - 1) :
                 j \in DOMAIN Element(a) /\ j \in DOMAIN Int32(a) /\ Element(a)[j] = Int32(a)[j]
    <3>1. \A j \in 0 .. (Half - 1) : j \in 0 .. (Stride - 1)
      BY HalfIs
    <3>2. QED
      BY <3>1 DEF Element, Int32
  <2>4. ASSUME NEW a, ~IsZero(Int32(a))
        PROVE  ~IsZero(Element(a))
    <3>1. PICK j \in DOMAIN Int32(a) : Int32(a)[j] # 0
      BY <2>4 DEF IsZero
    <3>2. j \in 0 .. (Half - 1)
      BY DEF Int32
    <3>3. j \in DOMAIN Element(a) /\ Element(a)[j] # 0
      BY <2>3, <3>1, <3>2
    <3>4. QED
      BY <3>3 DEF IsZero
  <2>5. ASSUME NEW i \in DOMAIN entries[k]
        PROVE  entries[k][i] = Int32(At(k, i)) /\ ~IsZero(Int32(At(k, i)))
    BY <2>1, <2>2, AsShown DEF Elements
  <2>6. At(k, Len(entries[k]) + 1) = Base(k) + Len(entries[k]) * Stride
    <3>1. (Len(entries[k]) + 1) - 1 = Len(entries[k])
      BY <2>1
    <3>2. QED
      BY <3>1
  <2> HIDE DEF At
  <2>7. QED
    BY <2>2, <2>3, <2>4, <2>5, <2>6, AsShown DEF Stops
<1>2. QED
  BY DataInvHolds, <1>1, PTL

LEMMA BaseType ==
  ASSUME DataInv, alias = "data", NEW k \in 1 .. Len(entries)
  PROVE  Base(k) \in Int
<1>1. CASE param.pointers = 1
  BY <1>1, ParamType DEF DataInv, TypeInv, Base
<1>2. CASE param.pointers = 2
  <2>1. addrs \in Seq(Pointers) /\ Len(addrs) \in Nat
    <3>1. addrs \in Seq(Pointers)
      BY DEF DataInv, TypeInv, TypeOK, Pointers
    <3>2. QED
      BY <3>1, LenProperties
  <2>2. k \in 1 .. Len(addrs)
    BY <1>2, <2>1, AsShown DEF DataInv, PhaseInv
  <2>3. addrs[k] \in Pointers
    BY <2>1, <2>2, ElementOfSeq
  <2>4. addrs[k] \in Int /\ Readable(addrs[k])
    <3>1. \A a \in Addr : a \in Int
      BY PtraceAssumption
    <3>2. QED
      BY <2>3, <3>1 DEF Pointers
  <2>5. Number(Peek(mem, addrs[k])) \in Int
    BY <2>4, ReadableWord, NumberType DEF DataInv, TypeInv
  <2>6. QED
    BY <1>2, <2>5 DEF Base
<1>3. QED
  BY <1>1, <1>2 DEF DataInv, PhaseInv

(***************************************************************************)
(* An array of ints ended by a 0, none of which has all its eight digits,  *)
(* is shown up to its first 0: none of the three tests that end            *)
(* get_number_data's loop cuts it short, and none lets it run on, at       *)
(* whatever address the array lies and whatever its length.                *)
(***************************************************************************)
THEOREM SmallArraysAreWhole == Spec => []SmallArraysWhole
<1>1. DataInv => SmallArraysWhole
  <2> SUFFICES ASSUME DataInv, Shows("number"), Stride = Half, NEW k \in DOMAIN entries,
                      NEW n \in 0 .. Cardinality(Addr), SmallArrayAt(Base(k), n)
               PROVE  Len(entries[k]) \in 0 .. n /\ IsZero(Int32(Base(k) + Len(entries[k]) * Half))
    BY DEF SmallArraysWhole
  <2>1. PICK b \in Int : b = Base(k)
    BY AsShown, BaseType DEF Shows
  <2>2. PICK l \in Nat : l = Len(entries[k])
    BY AsShown
  <2>3. PICK h \in Nat \ {0} : h = Half /\ WordSize = 2 * h
    BY HalfIs
  <2>4. k \in 1 .. Len(entries)
    BY AsShown
  <2>5. Elements(mem, h, b, entries[k]) /\ Stops(mem, b + l * h)
    BY <2>1, <2>2, <2>3, <2>4, AsShown DEF DataInv, NumbersInv, Shows
  <2>6. /\ \A i \in 0 .. n : Readable(b + i * h) /\ mem[b + i * h + h - 1] \in 0 .. 15
        /\ IsZero(IntAt(mem, b + n * h))
    BY <2>1, <2>3, AsShown DEF SmallArrayAt
  <2>7. l \in 0 .. n
    <3>1. SUFFICES ASSUME n < l
                   PROVE  FALSE
      BY <2>2
    <3>2. n + 1 \in 1 .. l /\ (n + 1) - 1 = n
      BY <2>2, <3>1
    <3>3. ~IsZero(IntAt(mem, b + ((n + 1) - 1) * h))
      BY <2>2, <2>5, <3>2 DEF Elements
    <3>4. QED
      BY <2>6, <3>2, <3>3
  <2>8. IsZero(IntAt(mem, b + l * h))
    <3>1. CASE l = n
      BY <2>6, <3>1
    <3>2. CASE l # n
      <4>1. PICK a \in Int : a = b + l * h
        <5>1. l * h \in Nat
          BY <2>2, <2>3
        <5>2. QED
          BY <5>1
      <4>2. Readable(a) /\ mem[a + h - 1] \in 0 .. 15
        BY <2>6, <2>7, <4>1
      <4>3. mem[a + h + h - 1] \in 0 .. 15
        <5>1. l + 1 \in 0 .. n
          BY <2>7, <3>2
        <5>2. (l + 1) * h = l * h + h /\ l * h \in Nat
          BY <2>2, <2>3
        <5>3. b + (l + 1) * h = a + h
          BY <4>1, <5>2
        <5>4. QED
          BY <2>6, <5>1, <5>3
      <4>4. /\ h - 1 \in 0 .. (WordSize - 1) /\ WordSize - 1 \in 0 .. (WordSize - 1)
            /\ a + (h - 1) = a + h - 1 /\ a + (WordSize - 1) = a + h + h - 1
        BY <2>3, <4>1
      <4>5. ~PeekFails(mem, a)
        <5>1. mem[a + (h - 1)] # ONES
          BY <4>2, <4>4, ExtractAssumption
        <5>2. QED
          BY <4>2, <4>4, <5>1 DEF PeekFails
      <4>6. Peek(mem, a)[h - 1] \in 0 .. 15 /\ Peek(mem, a)[WordSize - 1] \in 0 .. 15
        BY <4>2, <4>3, <4>4 DEF Peek
      <4>7. ~FullDigits(Peek(mem, a))
        BY <2>3, <4>6 DEF FullDigits
      <4>8. QED
        BY <2>5, <4>1, <4>5, <4>7 DEF Stops
    <3>3. QED
      BY <3>1, <3>2
  <2>9. QED
    BY <2>1, <2>2, <2>3, <2>7, <2>8, AsShown
<1>2. QED
  BY DataInvHolds, <1>1, PTL

-----------------------------------------------------------------------------
(***************************************************************************)
(* What the loop over characters reads.                                    *)
(***************************************************************************)

(* s is the run of printable bytes from a on. *)
Text(m, a, s) ==
  \A i \in 1 .. Len(s) : a + i - 1 \in Addr /\ s[i] = m[a + i - 1] /\ Printable(m[a + i - 1])

(* A word read right behind a text goes on with it. *)
LEMMA TextGrows ==
  ASSUME NEW m, NEW a \in Int, NEW s \in Seq(Items), NEW w, Text(m, a, s),
         \A i \in 0 .. (WordSize - 1) : a + Len(s) + i \in Addr /\ w[i] = m[a + Len(s) + i]
  PROVE  Text(m, a, s \o Shown(w))
<1>1. PICK n \in 0 .. WordSize :
        /\ Shown(w) \in Seq(0 .. 255) /\ Len(Shown(w)) = n
        /\ \A i \in 1 .. n : Shown(w)[i] = w[i - 1] /\ Printable(w[i - 1])
  BY ShownIs
<1>2. PICK l \in Nat : l = Len(s)
  BY LenProperties
<1>3. Shown(w) \in Seq(Items)
  <2>1. 0 .. 255 \subseteq Items
    BY DEF Items
  <2>2. QED
    BY <1>1, <2>1, SeqMonotonic
<1> DEFINE t == s \o Shown(w)
<1>4. /\ Len(t) = l + n
      /\ \A i \in 1 .. (l + n) : t[i] = IF i <= l THEN s[i] ELSE Shown(w)[i - l]
  <2>1. PICK r \in Seq(Items) : r = Shown(w) /\ Len(r) = n
    BY <1>1, <1>3
  <2>2. /\ Len(s \o r) = Len(s) + Len(r)
        /\ \A i \in 1 .. (Len(s) + Len(r)) :
             (s \o r)[i] = IF i <= Len(s) THEN s[i] ELSE r[i - Len(s)]
    BY ConcatProperties
  <2>3. QED
    BY <1>2, <2>1, <2>2
<1> HIDE DEF t
<1>5. WordSize \in Nat
  BY PtraceAssumption
<1>6. ASSUME NEW i \in 1 .. Len(t)
      PROVE  a + i - 1 \in Addr /\ t[i] = m[a + i - 1] /\ Printable(m[a + i - 1])
  <2>1. CASE i <= l
    <3>1. i \in 1 .. Len(s) /\ t[i] = s[i]
      BY <1>1, <1>2, <1>4, <2>1
    <3>2. QED
      BY <3>1 DEF Text
  <2>2. CASE ~(i <= l)
    <3>1. PICK j \in 1 .. n : j = i - l
      BY <1>1, <1>2, <1>4, <1>5, <2>2
    <3>2. t[i] = w[j - 1] /\ Printable(w[j - 1])
      BY <1>1, <1>2, <1>4, <2>2, <3>1
    <3>3. j - 1 \in 0 .. (WordSize - 1) /\ a + l + (j - 1) = a + i - 1
      BY <1>1, <1>2, <1>4, <1>5, <3>1
    <3>4. a + i - 1 \in Addr /\ w[j - 1] = m[a + i - 1]
      BY <1>2, <3>3
    <3>5. QED
      BY <3>2, <3>4
  <2>3. QED
    BY <2>1, <2>2
<1>7. QED
  BY <1>6 DEF Text, t

(* The loop started anywhere, and has shown every word it went on after in *)
(* full.                                                                   *)
Reading(m, a, pos, s) ==
  \E start \in Junk, r \in Nat :
    pos = start + r /\ Len(s) = r * WordSize /\ Text(m, a + start * WordSize, s)

StringsInv ==
  alive /\ alias = "data" /\ param.kind = "string" =>
    /\ at = "chars" => Reading(mem, addr, index, data)
    /\ \A k \in 1 .. Len(entries) : \E start \in Junk :
         Text(mem, BaseOf(mem, param, addrs, k) + start * WordSize, entries[k])

LEMMA StepStringsInv ==
  TypeInv /\ PhaseInv /\ BaseInv /\ StringsInv /\ [Next]_vars => StringsInv'
<1> SUFFICES ASSUME TypeInv, PhaseInv, BaseInv, StringsInv, [Next]_vars,
                    alive', alias' = "data", param.kind = "string"
             PROVE  StringsInv'
  BY Steady DEF StringsInv
<1>1. /\ mem' = mem /\ param' = param
      /\ data \in Seq(Items) /\ entries \in Seq(Seq(Items))
      /\ Len(data) \in Nat /\ Len(entries) \in Nat
  <2>1. data \in Seq(Items) /\ entries \in Seq(Seq(Items))
    BY DEF TypeInv
  <2>2. QED
    BY <2>1, Steady, LenProperties
<1>2. ASSUME NEW start \in Junk, NEW a \in Int
      PROVE  Reading(mem, a, start, << >>)
  <2>1. start \in Int /\ WordSize \in Int /\ Len(<< >>) = 0 /\ 0 \in Nat
    BY ExtractAssumption, PtraceAssumption, EmptySeq
  <2>2. start = start + 0 /\ Len(<< >>) = 0 * WordSize
    BY <2>1
  <2>3. Text(mem, a + start * WordSize, << >>)
    BY <2>1 DEF Text
  <2>4. QED
    BY <2>1, <2>2, <2>3 DEF Reading
<1>3. ASSUME NEW a \in Int, Call(a)
      PROVE  at' = "chars" => Reading(mem', addr', index', data')
  <2>1. at' = "chars" => addr' = a /\ index' \in Junk /\ data' = << >>
    BY <1>3 DEF Call
  <2>2. QED
    BY <1>1, <1>2, <2>1
<1>4. CASE Dispatch
  <2>1. entries' = << >> /\ Len(entries') = 0
    BY <1>4, DispatchEffect, EmptySeq DEF PhaseInv
  <2>2. at' = "chars" => Reading(mem', addr', index', data')
    BY <1>3, <1>4, DispatchEffect, ParamType DEF TypeInv
  <2>3. QED
    BY <2>1, <2>2 DEF StringsInv
<1>5. CASE ReadPointer
  <2>1. at' \in {"pointers", "entry"} /\ entries' = << >> /\ Len(entries') = 0
    BY <1>5, ReadPointerEffect, EmptySeq DEF PhaseInv, TypeInv
  <2>2. QED
    BY <2>1 DEF StringsInv
<1>6. CASE NextEntry
  <2>1. UNCHANGED <<mem, param, alive, alias, addrs, entries>>
    BY <1>6, NextEntryEffect
  <2>2. at' = "chars" => Reading(mem', addr', index', data')
    BY <1>3, <1>6, NextEntryEffect
  <2>3. QED
    BY <1>1, <2>1, <2>2 DEF StringsInv
<1>7. CASE ReadNumber
  BY <1>7, ReadNumberEffect DEF PhaseInv, TypeInv
<1>8. CASE ReadChars
  <2> DEFINE text == data \o Shown(Peek(mem, addr + index * WordSize))
  <2>1. /\ at = "chars" /\ UNCHANGED <<alive, alias, addrs>>
        /\ \/ Fails(addr + index * WordSize) /\ ReturnData(data) /\ UNCHANGED loop
           \/ ~Fails(addr + index * WordSize) /\ ReturnData(text) /\ UNCHANGED loop
           \/ /\ ~Fails(addr + index * WordSize)
              /\ Len(Shown(Peek(mem, addr + index * WordSize))) = WordSize
              /\ data' = text /\ index' = index + 1 /\ UNCHANGED <<at, entries, addr>>
    BY <1>8, ReadCharsEffect DEF TypeInv
  <2>2. Reading(mem, addr, index, data) /\ addr = BaseOf(mem, param, addrs, Len(entries) + 1)
    BY <2>1 DEF StringsInv, BaseInv
  <2>3. PICK start \in Junk, r \in Nat :
          index = start + r /\ Len(data) = r * WordSize /\ Text(mem, addr + start * WordSize, data)
    BY <2>2 DEF Reading
  <2>4. /\ start \in Int /\ addr \in Int /\ WordSize \in Nat
        /\ start * WordSize \in Int /\ r * WordSize \in Nat
        /\ (start + r) * WordSize = start * WordSize + r * WordSize
    <3>1. start \in Int /\ addr \in Int /\ WordSize \in Nat
      BY ExtractAssumption, PtraceAssumption DEF TypeInv, TypeOK
    <3>2. QED
      BY <3>1
  <2>5. PICK b \in Int : b = addr + start * WordSize
    BY <2>4
  <2>6. addr + index * WordSize = b + Len(data) /\ b + Len(data) \in Int
    BY <2>3, <2>4, <2>5
  <2>7. ~Fails(b + Len(data)) => Text(mem, b, data \o Shown(Peek(mem, b + Len(data))))
    <3>1. SUFFICES ASSUME ~Fails(b + Len(data))
                   PROVE  Text(mem, b, data \o Shown(Peek(mem, b + Len(data))))
      OBVIOUS
    <3>2. Readable(b + Len(data))
      BY <2>6, <3>1, ReadWord DEF TypeInv
    <3>3. \A i \in 0 .. (WordSize - 1) :
            /\ b + Len(data) + i \in Addr
            /\ Peek(mem, b + Len(data))[i] = mem[b + Len(data) + i]
      BY <2>6, <3>2, ReadableWord DEF TypeInv, Peek
    <3>4. QED
      BY <1>1, <2>3, <2>5, <3>3, TextGrows
  <2>8. ASSUME NEW result \in Seq(Items), Text(mem, b, result), ReturnData(result)
        PROVE  StringsInv'
    <3>1. /\ Len(entries') = Len(entries) + 1
          /\ entries'[Len(entries) + 1] = result
          /\ \A k \in 1 .. Len(entries) : entries'[k] = entries[k]
          /\ at' \in {"entry", "done"}
      BY <1>1, <2>8, ReturnPhase
    <3>2. ASSUME NEW k \in 1 .. Len(entries')
          PROVE  \E st \in Junk : Text(mem, BaseOf(mem, param, addrs, k) + st * WordSize, entries'[k])
      <4>1. CASE k = Len(entries) + 1
        BY <2>2, <2>5, <2>8, <3>1, <4>1
      <4>2. CASE k # Len(entries) + 1
        <5>1. k \in 1 .. Len(entries) /\ entries'[k] = entries[k]
          BY <1>1, <3>1, <4>2
        <5>2. QED
          BY <2>1, <5>1 DEF StringsInv
      <4>3. QED
        BY <4>1, <4>2
    <3>3. QED
      BY <1>1, <2>1, <3>1, <3>2 DEF StringsInv
  <2>9. Shown(Peek(mem, b + Len(data))) \in Seq(Items)
    <3>1. Shown(Peek(mem, b + Len(data))) \in Seq(0 .. 255) /\ 0 .. 255 \subseteq Items
      BY ShownIs DEF Items
    <3>2. QED
      BY <3>1, SeqMonotonic
  <2>10. data \o Shown(Peek(mem, b + Len(data))) \in Seq(Items)
    BY <1>1, <2>9, ConcatProperties
  <2>11. ASSUME ~Fails(b + Len(data)), Len(Shown(Peek(mem, b + Len(data)))) = WordSize,
                data' = data \o Shown(Peek(mem, b + Len(data))), index' = index + 1,
                UNCHANGED <<at, entries, addr>>
         PROVE  StringsInv'
    <3>1. Len(data') = (r + 1) * WordSize
      <4>1. Len(data') = r * WordSize + WordSize
        BY <1>1, <2>3, <2>9, <2>11, ConcatProperties
      <4>2. QED
        BY <2>4, <4>1
    <3>2. index' = start + (r + 1) /\ r + 1 \in Nat
      BY <2>3, <2>4, <2>11
    <3>3. Text(mem, addr + start * WordSize, data')
      BY <2>5, <2>7, <2>11
    <3>4. Reading(mem, addr, index', data')
      BY <3>1, <3>2, <3>3 DEF Reading
    <3>5. QED
      BY <1>1, <2>1, <2>11, <3>4 DEF StringsInv
  <2>12. QED
    BY <1>1, <2>1, <2>3, <2>5, <2>6, <2>7, <2>8, <2>10, <2>11
<1>9. CASE Killed \/ UNCHANGED vars
  BY <1>1, <1>9 DEF Killed, vars, loop, StringsInv
<1>10. QED
  BY <1>4, <1>5, <1>6, <1>7, <1>8, <1>9 DEF Next, Debugger

(***************************************************************************)
(* A string shown is an unbroken run of printable bytes of memory, however *)
(* many words get_char_data reads, wherever its uninitialised index makes  *)
(* it start, and whatever it takes the byte behind a full word for: the    *)
(* words it puts together are adjacent, and nothing is added behind a byte *)
(* that is not printable.                                                  *)
(***************************************************************************)
THEOREM StringsAreUnbroken == Spec => []StringsUnbroken
<1> DEFINE Inv == DataInv /\ StringsInv
<1>1. Init => Inv
  BY InitTypeInv, InitPhase, InitData, AliasIs DEF Init, DataInv, StringsInv
<1>2. Inv /\ [Next]_vars => Inv'
  BY StepTypeInv, StepPhaseInv, StepPointersInv, StepBaseInv, StepNumbersInv, StepStringsInv
  DEF DataInv
<1>3. Inv => StringsUnbroken
  <2> SUFFICES ASSUME Inv, Shows("string"), NEW k \in DOMAIN entries
               PROVE  \E start \in Junk :
                        \A i \in DOMAIN entries[k] :
                          /\ Base(k) + start * WordSize + i - 1 \in Addr
                          /\ entries[k][i] = mem[Base(k) + start * WordSize + i - 1]
                          /\ Printable(mem[Base(k) + start * WordSize + i - 1])
    BY DEF StringsUnbroken
  <2>1. k \in 1 .. Len(entries) /\ DOMAIN entries[k] = 1 .. Len(entries[k])
    BY AsShown
  <2>2. PICK start \in Junk :
          Text(mem, BaseOf(mem, param, addrs, k) + start * WordSize, entries[k])
    BY <2>1 DEF StringsInv, Shows
  <2>3. QED
    BY <2>1, <2>2, AsShown DEF Text
<1>4. QED
  BY <1>1, <1>2, <1>3, PTL DEF Spec
=============================================================================
