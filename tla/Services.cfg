SPECIFICATION FairSpec
CONSTANTS
  Name = {n1, n2}
  Binder = {b1, b2}
  NoBinder = NoBinder
  MaxLinks = 2
INVARIANTS RecipientsKept EntryWatched
PROPERTY DeadServiceLeaves
CHECK_DEADLOCK FALSE
