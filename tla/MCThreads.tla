------------------------------ MODULE MCThreads ------------------------------
(***************************************************************************)
(* The ways in which threads work together, in one run of TLC: in every    *)
(* behaviour one of them is run, and the others do not start.              *)
(***************************************************************************)
EXTENDS BarrierRounds, ParallelFor, GriddingTaskManager, BufferedLane, WStacking, LMSPredicter,
        ThreadedDeconvolutionTools, WGridder, IUWTDecomposition

CONSTANT Running    \* what is run

VARIABLE running

-----------------------------------------------------------------------------
(* The rows that are gridded and predicted *)

RowOf(w, weight, place) == [w |-> w, weight |-> weight, place |-> place]
Weighted(w) == RowOf(w, [ch \in DOMAIN w |-> 1], "inside")

Near == Weighted(<<0, 1>>)
Far == RowOf(<<2, 4, 6>>, <<1, 0, 1>>, "inside")
Negative == Weighted(<<-3, -6>>)
Wide == Weighted(<<0, 3, 6>>)
NegativeWide == Weighted(<<-1, -3, -6>>)
Equal == Weighted(<<6, 6>>)
Edge == RowOf(<<5, 9>>, <<1, 1>>, "edge")
Outside == RowOf(<<4, 4>>, <<0, 0>>, "outside")
\* The first and the last channel are flagged.
OnlyTheMiddle == RowOf(<<1, 2, 4>>, <<0, 1, 0>>, "inside")

GriddingJob(kind, sets, nWLayers, cpus, room, isComplex, wLimit) ==
  [kind |-> kind, sets |-> sets, nWLayers |-> nWLayers, cpus |-> cpus, memory |-> room,
   isComplex |-> isComplex, wLimit |-> wLimit]

\* One to five passes, one and two sets, a limit to w, images that are complex, and all w equal.
JobsOfKind(kind) ==
  {GriddingJob(kind, <<<<Near, Far>>, <<Negative>>>>, 4, 2, 14, FALSE, 0),
   GriddingJob(kind, <<<<Wide, Near>>>>, 3, 2, 8, FALSE, 0),
   GriddingJob(kind, <<<<NegativeWide, Edge, Near>>>>, 5, 2, 14, TRUE, 0),
   GriddingJob(kind, <<<<Outside, Far, Negative>>>>, 3, 3, 30, FALSE, 50),
   GriddingJob(kind, <<<<Equal>>, <<Weighted(<<6>>), Edge>>>>, 2, 2, 8, FALSE, 0),
   GriddingJob(kind, <<<<Far, Near>>>>, 1, 2, 40, FALSE, 0)}

AllJobs == JobsOfKind("invert") \cup JobsOfKind("predict")
FlaggedEnds == {GriddingJob("invert", <<<<OnlyTheMiddle>>>>, 2, 2, 40, FALSE, 0)}

\* More scales than threads, the same scale for all images, and the slices of a subtraction.
CleaningCalls ==
  {[op |-> "find peaks", scales |-> <<1, 2, 3, 4, 5>>], [op |-> "find peaks", scales |-> <<1>>],
   [op |-> "transform", scales |-> <<3, 5, 7>>], [op |-> "transform one scale", scales |-> <<3, 3, 3>>],
   [op |-> "subtract", scales |-> <<>>]}

\* Rows of three times with and without a beam, and rows of the model column.
PredictJob(rows, applyBeam, modelColumn) ==
  [rows |-> rows, applyBeam |-> applyBeam, modelColumn |-> modelColumn]
RowAt(time) == [time |-> time, cross |-> TRUE]
AutoAt(time) == [time |-> time, cross |-> FALSE]
ThreeTimes == <<AutoAt(1), RowAt(1), RowAt(1), AutoAt(2), RowAt(2), RowAt(2), RowAt(3)>>
SixRows == <<RowAt(1), RowAt(1), RowAt(1), RowAt(2), RowAt(2), RowAt(2)>>
PredictedRows ==
  {PredictJob(ThreeTimes, TRUE, FALSE), PredictJob(SixRows, FALSE, FALSE), PredictJob(SixRows, TRUE, TRUE)}

\* Visibilities that are flagged, lie at the edges of the grid and of a plane, or have a negative w;
\* in one and two chunks, with more threads than the pool has.
UvRow(u, w, zeros) == [u |-> u, w |-> w, zeros |-> zeros]
WgridJob(kind, rows, freqs, maxRows, nthreads, supp, density) ==
  [kind |-> kind, rows |-> rows, freqs |-> freqs, maxRows |-> maxRows, nthreads |-> nthreads, nu |-> 6,
   supp |-> supp, density |-> density]
WgridJobsOfKind(kind) ==
  {WgridJob(kind, <<UvRow(0, 1, {}), UvRow(7, -2, {1}), UvRow(3, 4, {})>>, <<1>>, 3, 2, 2, 4),
   WgridJob(kind, <<UvRow(1, 0, {}), UvRow(11, 3, {})>>, <<1, 2, 3>>, 2, 2, 3, 2),
   WgridJob(kind, <<UvRow(5, 2, {}), UvRow(-4, 3, {}), UvRow(2, 1, {}), UvRow(9, -3, {})>>, <<1>>, 2, 3, 2, 4)}
AllWgridJobs == WgridJobsOfKind("invert") \cup WgridJobsOfKind("predict")

\* Images in which all values differ from their neighbours, just large enough for their largest
\* scale, with parts of different sizes.
DecompositionJob(nScales, width, height, threads, includeLargest, inPlace) ==
  [width |-> width, height |-> height, nScales |-> nScales,
   image |-> [i \in 0 .. width * height - 1 |-> (5 * i * i + 7 * i + 3) % 31],
   threads |-> threads, includeLargest |-> includeLargest, inPlace |-> inPlace]
ImagesAndScratch ==
  {DecompositionJob(2, 12, 13, 2, FALSE, FALSE), DecompositionJob(1, 5, 4, 2, TRUE, FALSE),
   DecompositionJob(1, 4, 5, 3, FALSE, FALSE), DecompositionJob(1, 4, 4, 1, FALSE, FALSE)}
ImagesInScratch == {DecompositionJob(2, 12, 13, 2, FALSE, TRUE)}

-----------------------------------------------------------------------------
(* One of them at a time *)

PlanesIdle ==
  /\ wgridJob = 0 /\ wgridStep = "idle" /\ chunkStart = 0 /\ order = 0 /\ plane = 0 /\ subidx = 0 /\ schedule = 0
  /\ submitted = 0 /\ left = 0 /\ gridThread = 0 /\ uvGrid = 0 /\ planesDone = 0 /\ sampled = 0 /\ modelRows = 0

DecompositionIdle ==
  /\ decJob = 0 /\ buffers = 0 /\ largest = 0 /\ decScale = 0 /\ phase = 0 /\ queuedParts = 0
  /\ queuedTasks = 0 /\ activeThreads = 0 /\ finish = 0 /\ sleeping = 0 /\ poolThread = 0 /\ doing = 0
  /\ decStage = "idle"

ThreadsInit ==
  /\ running \in Running
  /\ MeetInit /\ ForInit /\ ManagerInit
  /\ running # "manager" => parallelGridding = 1
  /\ BufferInit /\ PipelineInit /\ ToolsInit /\ PredicterInit
  /\ running # "gridding" => job = CHOOSE j \in Jobs : TRUE
  /\ running # "prediction" => predictJob = CHOOSE j \in PredictJobs : TRUE
  /\ IF running = "planes" THEN WgridInit ELSE PlanesIdle
  /\ IF running = "decomposition" THEN DecompositionInit ELSE DecompositionIdle

MeetStep ==
  /\ running = "meet" /\ MeetNext
  /\ UNCHANGED <<running, forVars, managerVars, bufferVars, pipelineVars, toolVars, predicterVars, wgridVars,
                  decompositionVars>>
ForStep ==
  /\ running = "for" /\ ForNext
  /\ UNCHANGED <<running, historyVars, managerVars, bufferVars, pipelineVars, toolVars, predicterVars, wgridVars,
                  decompositionVars>>
ManagerStep ==
  /\ running = "manager" /\ ManagerNext
  /\ UNCHANGED <<running, meetVars, forVars, bufferVars, pipelineVars, toolVars, predicterVars, wgridVars,
                  decompositionVars>>
StreamStep ==
  /\ running = "stream" /\ BufferNext
  /\ UNCHANGED <<running, meetVars, forVars, managerVars, pipelineVars, toolVars, predicterVars, wgridVars,
                  decompositionVars>>
GriddingStep ==
  /\ running = "gridding" /\ PipelineNext
  /\ UNCHANGED <<running, meetVars, forVars, managerVars, bufferVars, toolVars, predicterVars, wgridVars,
                  decompositionVars>>
ToolsStep ==
  /\ running = "tools" /\ ToolsNext
  /\ UNCHANGED <<running, meetVars, forVars, managerVars, bufferVars, pipelineVars, predicterVars, wgridVars,
                  decompositionVars>>
PredictionStep ==
  /\ running = "prediction" /\ PredicterNext
  /\ UNCHANGED <<running, meetVars, forVars, managerVars, bufferVars, pipelineVars, toolVars, wgridVars,
                  decompositionVars>>
PlanesStep ==
  /\ running = "planes" /\ WgridNext
  /\ UNCHANGED <<running, meetVars, forVars, managerVars, bufferVars, pipelineVars, toolVars, predicterVars,
                  decompositionVars>>
DecompositionStep ==
  /\ running = "decomposition" /\ DecompositionNext
  /\ UNCHANGED <<running, meetVars, forVars, managerVars, bufferVars, pipelineVars, toolVars, predicterVars,
                  wgridVars>>

ThreadsNext ==
  \/ MeetStep \/ ForStep \/ ManagerStep \/ StreamStep \/ GriddingStep \/ ToolsStep \/ PredictionStep
  \/ PlanesStep \/ DecompositionStep

threadsVars == <<running, meetVars, forVars, managerVars, bufferVars, pipelineVars, toolVars, predicterVars,
                wgridVars, decompositionVars>>

\* The fairness of each of them, as stated there.
ThreadsFairness ==
  /\ \A t \in Threads :
       /\ WF_meetVars(running = "meet" /\ Arrive(t)) /\ WF_meetVars(running = "meet" /\ WakeUp(t))
       /\ WF_parallelForVars(running = "for" /\ OwnStep(t))
  /\ WF_parallelForVars(running = "for" /\ CallerStep)
  /\ WF_managerVars(running = "manager" /\ MainSteps)
  /\ \A w \in Workers : WF_managerVars(running = "manager" /\ WorkerSteps(w))
  /\ \A w \in Writers : WF_bufferVars(running = "stream" /\ WriterStep(w))
  /\ \A r \in Readers : WF_bufferVars(running = "stream" /\ ReaderStep(r))
  /\ WF_bufferVars(running = "stream" /\ EndStream)
  /\ WF_pipelineVars(running = "gridding" /\ MainStep)
  /\ WF_pipelineVars(running = "gridding" /\ WriteRow)
  /\ \A c \in AllCpus : WF_pipelineVars(running = "gridding" /\ WorkerStep(c))
  /\ WF_toolVars(running = "tools" /\ OwnerStep)
  /\ \A t \in ToolLanes : WF_toolVars(running = "tools" /\ ToolThreadStep(t))
  /\ WF_predicterVars(running = "prediction" /\ ReaderThreadStep)
  /\ WF_predicterVars(running = "prediction" /\ ConsumerStep)
  /\ \A t \in PredictThreads : WF_predicterVars(running = "prediction" /\ PredicterStep(t))
  /\ WF_wgridVars(running = "planes" /\ WgridCaller)
  /\ \A t \in GridTask : WF_wgridVars(running = "planes" /\ GridThreadStep(t))
  /\ WF_decompositionVars(running = "decomposition" /\ DecompositionCallerStep)
  /\ \A t \in LargestPool :
       WF_decompositionVars(running = "decomposition" /\ t \in Pool /\ PoolThreadStep(t))

ThreadsSpec == ThreadsInit /\ [][ThreadsNext]_threadsVars /\ ThreadsFairness

-----------------------------------------------------------------------------
(* The properties of what is run *)

\* Every Run, every Finish and the destructor return (GriddingTaskManager).
EveryCallReturns ==
  (running = "manager" /\ main # "idle") ~> (main \in {"idle", "gone"})

\* Nobody is left waiting: every round, loop, stream, pass and call comes to an end.
EverythingEnds ==
  <>(/\ running = "meet" => EverybodyPassed
     /\ running = "for" => AllGone
     /\ running = "stream" => AllStopped
     /\ running = "gridding" => step = "done"
     /\ running = "tools" => owner = "gone"
     /\ running = "prediction" => PredicterDone
     /\ running = "planes" => wgridStep = "done"
     /\ running = "decomposition" => decStage = "done")
=============================================================================
