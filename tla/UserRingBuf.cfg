CONSTANTS
  Threads = {t1, t2}
  NoThread = NoThread
  Size = 32
  PosMod = 64
  U32Mod = 64
  Sizes <- MCSizes
  Timeouts <- MCTimeouts
  MaxRecs = 3
SPECIFICATION FairSpec
INVARIANTS
  NeverOverwrites
  CommitHitsOwnHeader
  DrainedInOrder

  
  
CHECK_DEADLOCK FALSE
