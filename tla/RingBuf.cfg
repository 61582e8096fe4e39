CONSTANTS
  Size <- MCSize
  PosMod <- MCPosMod
  Lens <- MCLens
  Ns = {1, 100}
  MaxRecs = 4
SPECIFICATION FairSpec
INVARIANTS
  InOrderExactlyOnce
  NoTornSample
  DecodesHeader
  DrainsBacklog
PROPERTIES
  QueueSpec
  EventuallyConsumed
