SPECIFICATION ThreadsSpec
CONSTANTS
  Running = {"decomposition"}
  Threads = {c, w1, w2}
  Caller = c
  MaxRounds = 4
  Lengths = {0, 1, 2}
  MaxRuns = 3
  Workers = {t1, t2, t3}
  MaxTasks = 6
  Capacity = 2
  Writers = {w1, w2}
  Readers = {r1, r2}
  MaxSent = 6
  MaxChunk = 4
  WriteBufferSize = 3
  ReadBufferSize = 3
  Items = 4
  Jobs <- AllJobs
  LaneRoom = 2
  ToolThreads = 2
  ToolCalls <- CleaningCalls
  MaxCalls = 2
  PredictThreads = {p1, p2}
  PredictJobs <- PredictedRows
  PredictLane = 4
  PredictChunk = 2
  WgridJobs <- AllWgridJobs
  PoolThreads = 2
  DecompositionJobs <- ImagesInScratch
INVARIANT DecompositionIsComplete
