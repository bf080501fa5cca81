SPECIFICATION MCFairSpec
CONSTANTS
  Pool = {a0, s0}
  ArgRegs = {a0}
  VRegs = {0, 1, 2, 3}
  Phis = {2, 3}
  Imms = {imm, addr}
  Addrs = {addr}
  Slots = {0, 8, 16, 24}
  Far = {8}
  Moved = {a0, s0, 0, 8}
  kTmpRd = t0
  kTmpRs1 = t1
  kTmpRs2 = t2
  Junk = junk
  JoinAt = 3
  EdgeAts = {2, 6}
  MaxPos = 6
  MaxUses = 2
  DeadPhis = FALSE
INVARIANTS NoInterference SlotsDisjoint PhisReceiveOperands CrossingValuesKept Simultaneous
PROPERTY Terminates
