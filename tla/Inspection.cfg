SPECIFICATION Spec
CONSTANTS
  Tokens <- MCTokens
  Plans <- MCPlans
  RecordSets <- MCRecordSets
  MaxEdits = 1
INVARIANT AvailableWasGranted
 
INVARIANT ReadingAsReported
CHECK_DEADLOCK FALSE
