SPECIFICATION ManagedSpec
CONSTANTS MaxAttempts = 2 MaxBacklog = 1 MaxLive = 1 MaxTroubles = 1 MaxCrashes = 1
INVARIANTS ServerFollowsJournal
PROPERTIES NoRecall DrainEnds KeepsPromise
CHECK_DEADLOCK FALSE
