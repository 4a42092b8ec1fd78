CONSTANTS
  apple = apple
  pear = pear
  Products = {apple, pear}
  Batches = {1, 2, 3}
  ProductOf <- MCProductOf
  Received <- MCReceived
  Intake <- MCIntake
  Drafts <- MCDrafts
  MaxSends = 2
  MostUnits = 2
  MaxLoads = 2
  MaxReplies = 1
  None = None
SPECIFICATION Spec
INVARIANT ManualDoneIsRecorded
INVARIANT SecondSaleNeedsLostAnswer
INVARIANT VoiceAttemptSoldOnce
INVARIANT SentLinesFit
CHECK_DEADLOCK FALSE
