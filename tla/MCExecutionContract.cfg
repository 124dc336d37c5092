\* Two entries on two items: strikes, exclusions and outcomes.
SPECIFICATION Spec
CONSTANTS
  sub = sub
  exe = exe
  fileA = fileA
  fileB = fileB
  item1 = item1
  item2 = item2
  None = None
  Model <- MCModels
  Quality <- MCQuality
  Item = {item1, item2}
  File = {fileA}
  Plans <- HardPlans
  Deliverables = {"implement"}
  Pools <- MCPools
  MaxEntries = 2
  MaxInvocations = 3
  MaxPlans = 3
SYMMETRY Items
CHECK_DEADLOCK FALSE
INVARIANT TypeOK
INVARIANT StruckAreExcluded
INVARIANT OneStrikePerPlan
INVARIANT NoForeignPenalties
PROPERTY ReleaseConverges
PROPERTY LifecycleSpec
