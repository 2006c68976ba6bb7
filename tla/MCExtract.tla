------------------------------ MODULE MCExtract -----------------------------
(***************************************************************************)
(* Words of four bytes for Extract, ints of two; so a number of one byte   *)
(* is narrower than an int and one of four is wider.  Memories of five     *)
(* ints each: a terminator; a character that is also the address of the    *)
(* first byte; two characters, which are also an int with all its digits;  *)
(* a character before a byte that is none; and ones.                       *)
(***************************************************************************)
EXTENDS Extract

MCAddr == 65 .. 74
MCByte == {0, 65, 204, 255}

MCInts == {<<0, 0>>, <<65, 0>>, <<65, 65>>, <<65, 255>>, <<255, 255>>}

MCMemories ==
  {[a \in MCAddr |-> ints[(a - 65) \div 2][((a - 65) % 2) + 1]] : ints \in [0 .. 4 -> MCInts]}

MCJunk == {0 - 1, 0, 1}

MCParams ==
  [value : {0 - 1, 0, 65, 67}, pointers : 1 .. 2, kind : {"number"}, byte_size : {0, 1, 2, 4}] \cup
  [value : {65}, pointers : {0, 3}, kind : {"number"}, byte_size : {0}] \cup
  [value : {0 - 1, 0, 65, 67}, pointers : 1 .. 2, kind : {"string"}, byte_size : {1}]
=============================================================================
