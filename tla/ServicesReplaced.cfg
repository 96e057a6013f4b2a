SPECIFICATION Spec
CONSTANTS
  Name = {n1}
  Binder = {b1, b2}
  NoBinder = NoBinder
  MaxLinks = 2
INVARIANT RunningServicesListed
CHECK_DEADLOCK FALSE
