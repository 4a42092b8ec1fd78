CONSTANTS
  apple = apple
  pear = pear
  Products = {apple, pear}
  Batches = {1, 2, 3}
  ProductOf <- MCProductOf
  Received <- MCReceived
  Intake <- MCIntake
  Drafts <- MCDrafts
  MaxSends = 2
  MostUnits = 2
  MaxLoads = 2
  MaxReplies = 1
  None = None
SPECIFICATION Spec
INVARIANT ManualAttemptSoldOnce
CHECK_DEADLOCK FALSE
