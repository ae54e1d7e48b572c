SPECIFICATION GoalSpec
CONSTANTS
  None = None  t1 = t1  t2 = t2  t3 = t3  r1 = r1  r2 = r2  r3 = r3  c1 = c1  p1 = p1
  Tasks = {t1, t2, t3}  Runs = {r1, r3}  Computers = {c1}  Approvals = {}  Paths = {}  Seqs = {0, 1}
  TaskOf <- RunTask  ComputerOf <- RunComputer  PathsOf <- RunPaths  Overlaps <- OwnPath
  ApprovalTask <- NoApprovalTask  Gating <- NoPairs  Children <- NoPairs
  Concurrency = 2  DevRoutes = FALSE
  PlanOf <- TasksPlan  LastVersion = 2  MaxRetries = 0  MaxConcurrent = 1  MaxResumes = 0  Elapses = TRUE
INVARIANTS PlanEndsQuiet ConcurrentRunsBounded
SYMMETRY Interchange
CHECK_DEADLOCK FALSE
