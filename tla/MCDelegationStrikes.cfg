\* Provider health: four models of one provider, one missing model.
SPECIFICATION Spec
CONSTANTS
  Key <- StrikeKeys
  Chains <- StrikeChains
  Registered <- StrikeRegistered
  ErrorKinds = {"usage-limit", "generic", "other"}
  Semi = FALSE
  ToolResult = FALSE
  BufferCap = 1
  None = None
CHECK_DEADLOCK FALSE
INVARIANT StrikesPerCandidate
INVARIANT ServerNotExcluded
PROPERTY AbortBlamesNobody
