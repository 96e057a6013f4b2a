SPECIFICATION Spec
CONSTANTS
  Ref = {r1, r2, r3, r4}
  NoRef = NoRef
  INITIAL_STRONG_VALUE = 10
  AtomicAdd = TRUE
  WeakFromRaw = FALSE
SYMMETRY RefSymmetry
INVARIANTS NoUseAfterFree NoLeak HooksOnce DestroyedWithLastStrong RefInv HooksInv
PROPERTIES NoRevival ImplementsLifetime
CHECK_DEADLOCK FALSE
