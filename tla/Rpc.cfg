SPECIFICATION FairSpec
CONSTANTS
  Thread = {t1, t2}
  Recipient = {r1}
  None = None
  MaxCalls = 2
  MaxLinks = 2
  MaxTimeouts = 1
INVARIANTS ToldOnce
PROPERTIES AnswersMatch DeathMadeKnown
CHECK_DEADLOCK FALSE
