SPECIFICATION FairSpec
CONSTANTS
  Addr <- MCAddr
  Byte <- MCByte
  WordSize = 3
  INT3 = 204
  ONES = 255
  Text <- MCText
  Instr <- MCInstr
  Succ <- MCSucc
  Entry = 1
  Execve <- MCExecve
  Symbols <- MCSymbols
  Funcs <- MCFuncsUnmapped
  Helpers = {h1}
  Signals = {"kill", "trap", "other"}
  MaxSignals = 2
  MaxInstr = 6
INVARIANTS MemoryIntact TextRecoverable ArmedWhileRunning
PROPERTIES StopResumed DeathNoticed
