SPECIFICATION MSSpec
CONSTANTS
  Setups <- MCSetups
  Running = {"reordered"}
  ProviderRows <- MCProviderRows
  WithATerms <- MCWithATerms
  SetupsToTake = "second window"
INVARIANT ModelReachesSet
CHECK_DEADLOCK FALSE
