SPECIFICATION FairSpec
CONSTANTS
  NumBlocks = 4
  Slots = {"x", "y"}
  Bits = {0, 1}
  Ops = {"store", "load", "copy", "take"}
  MaxAccesses = 4
  Programs <- MCPrograms
INVARIANTS SameValues
PROPERTY Terminates
