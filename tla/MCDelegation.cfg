\* Confirmed switches, tool-loop hand-offs and retries.
SPECIFICATION ResponsiveSpec
CONSTANTS
  Key <- SemiKeys
  Chains <- SemiChains
  Registered <- SemiKeys
  ErrorKinds = {"usage-limit", "transient", "generic"}
  Semi = TRUE
  ToolResult = TRUE
  BufferCap = 1
  None = None
CHECK_DEADLOCK FALSE
INVARIANT TypeOK
INVARIANT SingleAnswer
INVARIANT ServedIsAnswerer
INVARIANT RequestsBounded
INVARIANT ExhaustionIsComplete
INVARIANT HopIsStronger
PROPERTY ReplayOnlyAfterLoop
PROPERTY NoDispatchAfterAbort
PROPERTY LoopIsNoDefect
PROPERTY AbortEndsTurn
PROPERTY Terminates
