CONSTANTS
  Talk = 2
  Steps = 2
  TalkTasks = 2
  LastRun = 2
  LastGrant = 2
  MaxActs = 2
  Calls = {c1, c2, c3}
  MaxCrashes = 1
  p1 = p1  p2 = p2  p3 = p3  p4 = p4  Programs = {p1, p2, p3, p4}
  Digests = {d1}
  Releases = 2
SPECIFICATION ServicesSpec
INVARIANTS
  TurnsHold
  WithdrawnWorkStopped
  RecordsHold
  StorageHolds
CHECK_DEADLOCK FALSE
