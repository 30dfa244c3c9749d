SPECIFICATION ImagingSpec
CONSTANTS
  Running = {"deconvolution"}
  SettingsSet <- CrossSettings
  Intervals = 1
  MajorIterationLimit = 1
  ThreadCount = 2
  Pixels = {1, 2, 3}
  SubImages = {1, 2}
  Subdivisions <- MCSubdivisions
  MaxScales = 2
  MajorIterationCount = 3
  MaxGroups = 1
  MaxInherited = 1
  MaxRuns = 2
INVARIANT SavedListIsModel
