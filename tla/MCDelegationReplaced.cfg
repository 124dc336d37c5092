\* Writes of a walk whose session was replaced.
SPECIFICATION Spec
CONSTANTS
  Key <- AllKeys
  Chains <- ShortChains
  Registered <- AllKeys
  ErrorKinds = {"usage-limit"}
  Semi = FALSE
  ToolResult = FALSE
  BufferCap = 1
  None = None
CHECK_DEADLOCK FALSE
INVARIANT ReplacedSessionUntouched
