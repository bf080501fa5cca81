SPECIFICATION MCSpec
CONSTANTS
  NumBlocks = 4
  FlowBlocks = 3
  Regs = {1, 2}
INVARIANTS DominatorsExact TreeExact NoCriticalEdge SameFlow LivenessExact IntervalsCover
PROPERTIES Terminates LivenessTerminates
