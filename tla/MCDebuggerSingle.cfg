SPECIFICATION Spec
CONSTANTS
  Addr <- MCAddr
  Byte <- MCByte
  WordSize = 3
  INT3 = 204
  ONES = 255
  Text <- MCText
  Instr <- MCInstr
  Succ <- MCSucc
  Entry = 1
  Execve <- MCExecve
  Symbols <- MCSymbols
  Funcs <- MCFuncsUnmapped
  Helpers = {}
  Signals = {"kill", "other"}
  MaxSignals = 1
  MaxInstr = 14
INVARIANTS TypeOK AllPlanted ReportedOnce StaleHarmless
PROPERTY ImplementsCallTrace
