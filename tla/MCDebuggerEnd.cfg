SPECIFICATION Spec
CONSTANTS
  Addr <- MCAddr
  Byte <- MCByte
  WordSize = 3
  INT3 = 204
  ONES = 255
  Text <- MCText
  Instr <- MCInstr
  Succ <- MCSucc
  Entry = 1
  Execve <- MCExecve
  Symbols <- MCSymbols
  Funcs <- MCFuncs
  Helpers = {}
  Signals = {}
  MaxSignals = 0
  MaxInstr = 3
INVARIANT EndAnnounced
