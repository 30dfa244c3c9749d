SPECIFICATION ComponentsSpec
CONSTANTS
  Setups <- MCSetups
  Running = {"reordered", "division", "averaging", "contiguous", "timestep", "subdivision", "allocator", "lane", "uvector", "clean", "weights", "command line", "phase centre", "wavelets", "scales", "fourier"}
  ProviderRows <- MCProviderRows
  WithATerms <- MCWithATerms
  SetupsToTake = "all"
  Width = 8
  Height = 8
  HorImages = 2
  VerImages = 2
  MaxBends = 2
  Addresses = {a1, a2, a3}
  Sizes = {0, 3, 5}
  MaxHeld = 3
  Capacity = 2
  Writers = {w1, w2}
  Readers = {r1, r2}
  MaxSent = 2
  MaxChunk = 3
  MeasurementSets <- MCPhaseCentreSets
  MaxCalls = 3
  Vectors = {v1, v2}
  NewValues = {2, 4}
  MaxSize = 3
  AssignAnySize = FALSE
  CleanSetups <- MCCleanSetups
  LinkedPolarizations = {{1}}
  Lines <- MCLines
  AvxNegatives = {"yes", "stop"}
SYMMETRY RoleSymmetry
INVARIANTS
  FifoOrder
  NoLostWakeup
  WriterOrder
  RowsReadAsStored
  ModelReachesSet
  EveryChannelImagedOnce
  AveragesCoverSelection
  RowsHandedOutOnce
  DivideImage
  ImagesDoNotOverlap
  ElementsAsDocumented
  ResidualIsDirtyMinusModel
  ComponentsAllowed
  WeightsFitTheirImages
  OptionsAreInForce
  VisibilitiesMatchCentre
  StructuresMoveFlux
  ScalesExplainImages
  GriddersTransform
PROPERTY FifoRefinement
CHECK_DEADLOCK FALSE
