SPECIFICATION ImagingSpec
CONSTANTS
  Running = {"run", "deconvolution", "images", "beam"}
  SettingsSet <- AllSettings
  Intervals = 2
  MajorIterationLimit = 2
  ThreadCount = 2
  Pixels = {1, 2, 3}
  SubImages = {1, 2}
  Subdivisions <- MCSubdivisions
  MaxScales = 2
  MajorIterationCount = 3
  MaxGroups = 2
  MaxInherited = 1
  MaxRuns = 2
INVARIANTS
  ResidualsMatchModel
  OwnPSFAndModel
  SubImagesAgreeWithModel
  ImagesKeepTheirPlace
  CorrectedForBeam
PROPERTY
  ModelOnlyGrows
