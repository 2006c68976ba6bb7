----------------------------- MODULE Breakpoint -----------------------------
(***************************************************************************)
(* poc::bp (src/breakpoint.cc): what enable_breakpoint, disable_breakpoint *)
(* and set_breakpoint do to the debuggee's memory and to m_breakpoints.    *)
(* A breakpoint is a record                                                *)
(*   orig     m_original_data, the byte saved when int3 was written        *)
(*   enabled  m_enabled                                                    *)
(*   fn       m_cu_index and m_fn_index, as one index of the function table *)
(* and m_breakpoints is a function whose domain is the set of its keys.    *)
(***************************************************************************)
EXTENDS Ptrace

(* Faulty variant: the word read is not masked. *)
SavedByte_Unmasked(ok, m, a) == IF ok THEN Peek(m, a)[0] ELSE 0 - 1

(* m_original_data: data & 0xff of the word read.  It is assigned before   *)
(* a failed read, which yields -1, is noticed.                             *)
SavedByte(ok, m, a) == IF ok THEN Peek(m, a)[0] ELSE ONES

(* Memory after enable_breakpoint at a: int3 over the bottom byte. *)
WithInt3(m, a) == Poke(m, a, WithLowByte(Peek(m, a), INT3))

(* Memory after disable_breakpoint of the breakpoint b at a. *)
WithOriginal(m, a, b) == Poke(m, a, WithLowByte(Peek(m, a), b.orig))

(* The breakpoint after a successful enable_breakpoint: the byte is saved  *)
(* anew each time, from whatever memory holds then.                        *)
Enabled(m, a, b) == [orig |-> SavedByte(TRUE, m, a), enabled |-> TRUE, fn |-> b.fn]

Disabled(b) == [b EXCEPT !.enabled = FALSE]

(* m_breakpoints[a] = b *)
SetAt(bps, a, b) == [x \in DOMAIN bps \cup {a} |-> IF x = a THEN b ELSE bps[x]]

(* breakpoint{type, name, addr, cu_index, fn_index} *)
NewBreakpoint(fn) == [orig |-> 0, enabled |-> FALSE, fn |-> fn]
=============================================================================
