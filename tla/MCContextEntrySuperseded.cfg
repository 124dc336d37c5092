SPECIFICATION Spec
CONSTANTS
  Items = {w1, w2}
  Paths = {f}
  CatalogSize = 2
  None = None
  A = A
  B = B
  Models = {A, B}
  Parts = {p1, p2}
  RequestLimit = 3
  DenialLimit = 2
  Workloads <- LifecycleOnly
INVARIANT SupersededStaysClosed
CHECK_DEADLOCK FALSE
