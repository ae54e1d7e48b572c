SPECIFICATION TurnsSpec
CONSTANTS
  Talk = 0
  Steps = 1
  TalkTasks = 0
  LastRun = 1
  LastGrant = 1
  MaxActs = 0
PROPERTY ClosesWhenStopped
CHECK_DEADLOCK FALSE
