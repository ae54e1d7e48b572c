SPECIFICATION FairDispatchSpec
CONSTANTS
  None = None  t1 = t1  r1 = r1  r2 = r2  c1 = c1  p1 = p1
  Tasks = {t1}  Runs = {r1}  Computers = {c1}  Approvals = {}  Paths = {p1}
  Seqs <- EventSeqs  TaskOf <- OneTaskOf  ComputerOf <- OneComputerOf
  PathsOf <- SamePath  Overlaps <- PathOverlap  ApprovalTask <- NoApprovalTask
  Gating <- NoPairs  Children <- NoPairs  Concurrency = 1  DevRoutes = FALSE
  MaxConn = 2  Budgets <- LiveBudget
  OrderedClose = TRUE  PromptServer = FALSE
PROPERTIES RunSettles
CHECK_DEADLOCK FALSE
