SPECIFICATION Spec
CONSTANTS
  Addr <- MCAddr
  Byte <- MCByte
  WordSize = 3
  INT3 = 204
  ONES = 255
  Text <- MCText
  Instr <- MCInstr
  Succ <- MCSucc
  Entry = 1
  Execve <- MCExecve
  Symbols <- MCSymbols
  Funcs <- MCFuncs
  Helpers = {}
  Signals = {"other"}
  MaxSignals = 1
  MaxInstr = 4
PROPERTY ExitKill
