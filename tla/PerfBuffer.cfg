SPECIFICATION Spec
CONSTANTS
  CPUs = {0, 1}
  MaxEntries = 2
  Explicit <- NoExplicit
  Size = 3
  Sizes = {1, 2}
  Types = {"sample", "other"}
  LostSize = 1
  MaxRecs = 3
INVARIANTS
  WholeInOrder
  NoMissedWakeup
  NothingLeft
