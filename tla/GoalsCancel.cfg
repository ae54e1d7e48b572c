SPECIFICATION GoalSpec
CONSTANTS
  None = None  t1 = t1  t2 = t2  t3 = t3  r1 = r1  r2 = r2  r3 = r3  c1 = c1  p1 = p1
  Tasks = {t1}  Runs = {r1, r2}  Computers = {c1}  Approvals = {}  Paths = {p1}  Seqs = {0, 1}
  TaskOf <- RunTask  ComputerOf <- RunComputer  PathsOf <- RunPaths  Overlaps <- OwnPath
  ApprovalTask <- NoApprovalTask  Gating <- NoPairs  Children <- NoPairs
  Concurrency = 2  DevRoutes = FALSE
  PlanOf <- TasksPlan  LastVersion = 1  MaxRetries = 1  MaxConcurrent = 1  MaxResumes = 1  Elapses = FALSE
INVARIANT CancelledGoalIsQuiet
PROPERTIES CancellationFences
CHECK_DEADLOCK FALSE
