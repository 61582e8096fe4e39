SPECIFICATION FairSpec
CONSTANTS
  Fds = {f1, f2}
  SizeMod = 4
  Ns = {1, 2, 3}
  MaxRecs = 3
INVARIANTS
  NoStrayMapping
  ConsumeUpToN
  

  
