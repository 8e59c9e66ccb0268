SPECIFICATION FairSpec
CONSTANTS
  e1 = e1
  e2 = e2
  Extras <- TwoExtras
  HasTTL = TRUE
  MaxFaults = 2
INVARIANTS OutcomeStands OutcomeIsTrue RecordedIsCleanedUp
PROPERTIES OutcomeIsFinal Completes DeletionEnds Expires
CHECK_DEADLOCK FALSE
