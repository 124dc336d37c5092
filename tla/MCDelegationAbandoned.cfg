\* An abandoned model on another provider.
SPECIFICATION Spec
CONSTANTS
  Key <- AllKeys
  Chains <- LoopChains
  Registered <- AllKeys
  ErrorKinds = {"transient"}
  Semi = FALSE
  ToolResult = FALSE
  BufferCap = 1
  None = None
CHECK_DEADLOCK FALSE
INVARIANT AbandonedNotReplayed
