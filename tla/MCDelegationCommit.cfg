\* Replay after a thinking-buffer commit.
SPECIFICATION Spec
CONSTANTS
  Key <- AllKeys
  Chains <- ShortChains
  Registered <- AllKeys
  ErrorKinds = {"transient"}
  Semi = FALSE
  ToolResult = FALSE
  BufferCap = 1
  None = None
CHECK_DEADLOCK FALSE
PROPERTY CommitStopsReplay
