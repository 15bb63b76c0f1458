SPECIFICATION FairSpec
CONSTANTS
  NumBatches = 2
  Last = 2
  Mail = {1, 2}
  NumCalls = 1
  MaxFaults = 1
INVARIANT CheckpointCovers
INVARIANT ReceiptTrue
INVARIANT BriefingCovers
PROPERTY BatchesEnd
CHECK_DEADLOCK FALSE
