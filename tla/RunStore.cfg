SPECIFICATION MCSpec
CONSTANTS
  t1 = t1  t2 = t2  t3 = t3  t4 = t4  r1 = r1  r2 = r2  r3 = r3  q1 = q1  q2 = q2
  a1 = a1  b1 = b1  b2 = b2  c1 = c1  p1 = p1  p2 = p2  p3 = p3  p4 = p4
  Tasks = {t1, t2, t3, t4}
  Runs = {r1, r2, r3, q1, q2}
  Computers = {c1}
  Approvals = {a1, b1, b2}
  Paths = {p1, p2, p3, p4}
  Seqs = {0, 1}
  None = None
  TaskOf <- MCTaskOf
  ComputerOf <- AllOnC1
  PathsOf <- MCPathsOf
  Overlaps <- MCOverlaps
  ApprovalTask <- MCApprovalTask
  Gating <- MCGating
  Children <- MCChildren
  Concurrency = 2
  DevRoutes = TRUE
INVARIANTS
  UnsettledRunKeepsLeases
  OneUnsettledRunPerTask
  NoStrandedTask
  GatedRunIsApproved
  LeaseExclusion
  PrerequisitesDone
PROPERTY SettledRunIsFinal
CHECK_DEADLOCK FALSE
