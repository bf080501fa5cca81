SPECIFICATION Spec
CONSTANTS
  Crates <- NameCrates
  Bits <- MCBits
  Primes = {"i32", "i8", "u8", "usize", "bool"}
  Builtins = {"print"}
INVARIANTS NamesResolve ConstantsExact
CHECK_DEADLOCK FALSE
