\* One entry long enough for a plan to use up its budget.
SPECIFICATION Spec
CONSTANTS
  sub = sub
  exe = exe
  fileA = fileA
  fileB = fileB
  item1 = item1
  item2 = item2
  None = None
  Model <- MCModels
  Quality <- MCQuality
  Item = {item2}
  File = {fileA, fileB}
  Plans <- EasyPlans
  Deliverables = {"implement"}
  Pools <- MCPools
  MaxEntries = 1
  MaxInvocations = 10
  MaxPlans = 1
CHECK_DEADLOCK FALSE
INVARIANT BudgetBound
PROPERTY BreakBlamesExecutor
PROPERTY HandbackReachesSubmitter
