SPECIFICATION FairSyncSpec
CONSTANTS
  Kinds = {"sdk", "web", "ios"}  Limit = 1  MaxEvents = 3  MaxBreaks = 2  MaxFaults = 1  MaxRejects = 1
  EarlyReads = {"ios"}  Overtaken = {"web", "ios"}  LostReplays = {"ios"}  QuietStart = TRUE
INVARIANTS NothingForgotten
PROPERTIES Converges
CHECK_DEADLOCK FALSE
