SPECIFICATION MSSpec
CONSTANTS
  Setups <- MCSetups
  Running = {"timestep"}
  ProviderRows <- MCProviderRows
  WithATerms <- MCWithATerms
  SetupsToTake = "few antennas"
INVARIANT RowsHandedOutOnce
CHECK_DEADLOCK FALSE
