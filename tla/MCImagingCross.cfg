SPECIFICATION ImagingSpec
CONSTANTS
  Running = {"run"}
  SettingsSet <- CrossSettings
  Intervals = 1
  MajorIterationLimit = 1
  ThreadCount = 2
  Pixels = {1, 2, 3}
  SubImages = {1, 2}
  Subdivisions <- MCSubdivisions
  MaxScales = 1
  MajorIterationCount = 1
  MaxGroups = 1
  MaxInherited = 0
  MaxRuns = 2
INVARIANT SavedXYHasYX
