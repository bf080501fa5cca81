SPECIFICATION MCSpec
CONSTANTS
  ArgRegs <- MCArgRegs
  CallerSaved <- MCCallerSaved
  CalleeSaved <- MCCalleeSaved
  VRegs = {1, 2, 3}
  Callers <- MCCallers
  Callees <- MCCallees
  MaxArgs = 4
  Depth = 10
  XLen = 4
  ImmBits = 3
  Operators = {"add", "sub", "mul", "udiv", "urem", "sdiv", "srem", "and", "or", "xor", "shl", "ashr", "lshr", "eq", "ne", "slt", "sgt", "sle", "sge", "ult", "ugt", "ule", "uge"}
  InsRegs = {r1, r2}
  Slots = {near, far}
  Far = {far}
  Values <- MCValues
  Imms <- MCImms
  Widths = {2, 3, 4}
  Strides = {1, 3, 4}
  Unsigned = FALSE
  ShiftOfImm = FALSE
  Narrowing = FALSE
INVARIANTS WellFormed CalleeContract InstructionExact
PROPERTY ImplementsCallSpec
