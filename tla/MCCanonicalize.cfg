SPECIFICATION MCFairSpec
CONSTANTS
  NumRegs = 3
  Imms = {0, 1}
  Ops = {"add", "sub", "mul"}
  ChainedPhis = FALSE
INVARIANTS NoDanglingUse SameMeaning
PROPERTIES NothingDead Terminates
