SPECIFICATION FairSpec
CONSTANTS
  Addr <- MCAddr
  Byte <- MCByte
  WordSize = 4
  INT3 = 204
  ONES = 255
  Memories <- MCMemories
  Params <- MCParams
  Junk <- MCJunk
INVARIANTS TypeOK NumbersArePrefix SmallArraysWhole StringsUnbroken EveryPointerShown
PROPERTY Finishes
CHECK_DEADLOCK FALSE
