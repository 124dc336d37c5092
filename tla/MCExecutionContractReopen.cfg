\* Strikes earned before a reopen of the same item.
SPECIFICATION Spec
CONSTANTS
  sub = sub
  exe = exe
  fileA = fileA
  fileB = fileB
  item1 = item1
  item2 = item2
  None = None
  Model <- MCModels
  Quality <- MCQuality
  Item = {item2}
  File = {fileA}
  Plans <- EasyPlans
  Deliverables = {"implement"}
  Pools <- MCPools
  MaxEntries = 2
  MaxInvocations = 3
  MaxPlans = 2
CHECK_DEADLOCK FALSE
PROPERTY ReopenKeepsStrikes
