SPECIFICATION MSSpec
CONSTANTS
  Setups <- MCSetups
  Running = {"averaging"}
  ProviderRows <- MCProviderRows
  WithATerms <- MCWithATerms
  SetupsToTake = "interval"
INVARIANT AveragesCoverSelection
CHECK_DEADLOCK FALSE
