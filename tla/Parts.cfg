SPECIFICATION PartsSpec
CONSTANTS
  Tasks = {t1, t2, t3}
  ProjectOf <- OneProject
  EdgeTypes = {"contract_required", "soft_context"}
  MaxEdges = 2
  Leases = {l1, l2, l3}
  Owners = {"task", "hand1", "run2"}
  LeaseRuns = {"r1", "r2"}
  HolderRun <- HolderRunVal
  RunOwner <- RunOwnerVal
  WritePaths <- WritePathsVal
  RawPaths <- RawPathsVal
  WorkFiles <- WorkFilesVal
  LowerCase <- LowerCaseVal
  MaxTime = 2
  NoRun = NoRun
  Members = {u1}
  Codes = {c1}
  Devices = {d1, d2}
  Sessions = {s1}
  Sockets = {k1}
  CodeLife = 1
  SessionLife = 2
  ControlLife = 2
  LastTick = 3
  MaxSuspensions = 1
  LastGen = 2
  HandshakesInTurn = FALSE
  LastEvent = 2
  Retained = {2}
  Handshake = 5
  ProbeEvery = 2
  ProbeWithin = 3
  Grace = 4
  RetainFor = 4
  Lag = 1
  Computers = {p1}
  MaxRestarts = 1
  MaxLaunches = 2
  MaxAppCrashes = 1
  Page = 1
  Burst = 2
  LastMessage <- LastMessageVal
  LastReply = 1
  LastRemoval = 1
  LastText = 2
  LastTry = 3
  LastMount = 2
  LastSession = 1
  WorkAttempts = {"a1", "a2"}
  LastMeddle = 2
  MaxAuto = 2
  MaxDaemons = 5
  MaxCommands = 4
  Browsers = {"b1", "b2"}
  Subjects = {"s1", "s2"}
  Mails = {"m1", "m2", "m3"}
  Admitted = {"m1", "m2"}
  OldUser <- OldUserVal
  OldMail <- OldMailVal
  LastFlow = 2
  LastCall = 2
INVARIANTS
  GraphSound
  LeasesProtectFiles
  AccountsHold
  LinkHolds
  DesktopHolds
  CliHolds
  SupervisorHolds
PROPERTIES
  RoomHolds
  OwnedHolds
CHECK_DEADLOCK FALSE
