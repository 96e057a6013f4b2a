SPECIFICATION Spec
CONSTANTS
  Ref = {r1, r2, r3, r4}
  NoRef = NoRef
  INITIAL_STRONG_VALUE = 10
  AtomicAdd = FALSE
  WeakFromRaw = TRUE
SYMMETRY RefSymmetry
INVARIANTS NoUseAfterFree NoLeak
CHECK_DEADLOCK FALSE
