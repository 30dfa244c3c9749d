------------------------------ MODULE WStacking ------------------------------
(***************************************************************************)
(* The w-stacking gridder: WSMSGridder (wsclean/wsmsgridder.cpp) around    *)
(* WStackingGridder (wsclean/wstackinggridder.cpp).  The visibilities are  *)
(* sorted by their w into layers, which are gridded (or predicted from)    *)
(* one pass after another when they do not fit in memory together.         *)
(*                                                                         *)
(* Inverting, the main thread reads rows and hands each of their samples   *)
(* to the thread that its layer belongs to; a pass ends with threads that  *)
(* take layers from a stack and add them to an image of their own.         *)
(* Predicting, those threads come first, and the rows go through threads   *)
(* that calculate to one that writes.                                      *)
(*                                                                         *)
(* A grid is the bag of the samples that were added to it, an image the    *)
(* bag of its samples with the layer by which they were corrected.  What a *)
(* lane and its buffers do is in BufferedLane: here they are queues.  w is *)
(* an integer, and memory is counted in images.                            *)
(***************************************************************************)
EXTENDS Integers, Sequences, Bags, FiniteSetsExt

CONSTANTS
  Jobs,      \* records [kind, sets, nWLayers, cpus, memory, isComplex, wLimit]; a set is a
             \* sequence of rows [w, weight, place], the channels by growing frequency
  LaneRoom   \* bound: items in a lane

UVRow ==
  [w : Seq(Int) \ {<<>>}, weight : Seq(Nat), place : {"inside", "edge", "outside"}]

ASSUME JobsAssumption ==
  \A j \in Jobs :
    /\ j.nWLayers \in Nat \ {0} /\ j.cpus \in Nat \ {0} /\ j.memory \in Nat /\ j.wLimit \in Nat
    /\ j.kind \in {"invert", "predict"} /\ j.isComplex \in BOOLEAN
    /\ j.sets \in Seq(Seq(UVRow)) \ {<<>>}

VARIABLES
  job,
  gridder,     \* [nPasses, nFFTThreads, perPass, minW, maxW]
  step,        \* where the main thread is
  pass, ms,    \* the indices of its loops
  row,         \* the row of the set that is read or, predicting, was queued last
  channel,     \* the channel of the sample that is written next
  lanes,       \* inverting, a lane per cpu; predicting, the calcLane and the writeLane
  holding,     \* what a thread took from its lane, or from the stack of layers
  grids,       \* _layeredUVData
  images,      \* _imageData of the threads
  layers,      \* the stack of layers to be transformed
  weighed,     \* the samples in the weight sums
  predicted    \* what was written to the model of each sample

pipelineVars == <<job, gridder, step, pass, ms, row, channel, lanes, holding, grids, images, layers, weighed, predicted>>

Nothing == <<>>
Absolute(k) == IF k < 0 THEN -k ELSE k
AtMost(a, b) == IF a < b THEN a ELSE b
AtLeast(a, b) == IF a < b THEN b ELSE a
Cpus == 0 .. job.cpus - 1

Rows(set) == job.sets[set]
SampleAt(set, r, ch) == <<set, r, ch>>
W(s) == job.sets[s[1]][s[2]].w[s[3]]
Channels(set, r) == DOMAIN job.sets[set][r].w
Weight(s) == job.sets[s[1]][s[2]].weight[s[3]]
Place(s) == job.sets[s[1]][s[2]].place   \* "inside", "edge" or "outside" the uv plane
InPlane(s) == Place(s) # "outside"
Samples ==
  UNION {UNION {{SampleAt(set, r, ch) : ch \in Channels(set, r)} : r \in DOMAIN Rows(set)} : set \in DOMAIN job.sets}

(***************************************************************************)
(* Layers and passes.                                                      *)
(***************************************************************************)

\* calculateWLimits and calculateOverallMetaData: samples at the edge do not count, and -wlimit
\* (in percent) leaves out the largest.
WithPlaces(places) ==
  {Absolute(W(s)) : s \in {x \in Samples : Weight(x) # 0 /\ Place(x) \in places}}
LimitingWs == WithPlaces({"inside"})
MinW == IF LimitingWs = {} THEN 0 ELSE Min(LimitingWs)
MaxW ==
  IF LimitingWs = {} THEN 0 ELSE AtLeast(MinW, Max(LimitingWs) - (Max(LimitingWs) * job.wLimit) \div 100)

PassesNeeded(perPass) == AtLeast(1, (job.nWLayers + perPass - 1) \div perPass)

\* PrepareWLayers.
PrepareWLayers ==
  LET plain == job.memory - 5 * AtMost(job.cpus, job.nWLayers)
      isLow == plain <= job.cpus
      nFFTThreads == IF isLow THEN AtLeast(1, (3 * job.memory) \div 25) ELSE job.cpus
      remaining == IF isLow THEN job.memory - 5 * nFFTThreads ELSE plain
      perPass == IF remaining < 2 THEN 1 ELSE remaining \div 2
  IN  [nPasses |-> PassesNeeded(perPass),
       nFFTThreads |-> nFFTThreads, perPass |-> perPass,
       minW |-> MinW, maxW |-> IF MinW = MaxW THEN MaxW + 1 ELSE MaxW]

\* A negative number that is converted to size_t wraps around.
SizeMax == 65536
Rounded(a, b) ==
  IF a >= 0 THEN (2 * a + b) \div (2 * b) ELSE (-((b - 2 * a) \div (2 * b))) % SizeMax

WToLayer(w) ==
  IF job.nWLayers = 1 THEN 0
  ELSE IF job.isComplex THEN Rounded((w + gridder.maxW) * (job.nWLayers - 1), 2 * gridder.maxW)
  ELSE Rounded((Absolute(w) - gridder.minW) * (job.nWLayers - 1), gridder.maxW - gridder.minW)

LayerRangeStart(index) == (job.nWLayers * index) \div gridder.nPasses
RangeStart == LayerRangeStart(pass)
RangeEnd == LayerRangeStart(pass + 1)
LayersInPass == RangeEnd - RangeStart

IsLayerInPass(layer) == layer >= RangeStart /\ layer < RangeEnd
IsInLayerRange(w) == IsLayerInPass(WToLayer(w))

\* The rows that are read in a pass: w1 and w2 are those of the longest and the smallest
\* wavelength.
AnyInLayerRange(w1, w2) ==
  LET l1 == WToLayer(w1)  l2 == WToLayer(w2)
  IN  \/ IsLayerInPass(l1) \/ IsLayerInPass(l2)
      \/ l1 < RangeStart /\ l2 >= RangeEnd
      \/ l2 < RangeStart /\ l1 >= RangeEnd

IsRequired(set, r) == LET w == Rows(set)[r].w IN AnyInLayerRange(w[1], w[Len(w)])

(***************************************************************************)
(* Begin and end of a job and of its passes.                               *)
(***************************************************************************)
PipelineInit ==
  /\ job \in Jobs
  /\ gridder = Nothing /\ step = "prepare" /\ pass = 0 /\ ms = 1 /\ row = 1 /\ channel = 1
  /\ lanes = Nothing /\ holding = Nothing /\ grids = Nothing /\ images = Nothing
  /\ layers = {} /\ weighed = EmptyBag
  /\ predicted = [s \in Samples |-> <<>>]

Prepare ==
  /\ step = "prepare"
  /\ gridder' = PrepareWLayers
  /\ images' = [t \in 0 .. PrepareWLayers.nFFTThreads - 1 |-> EmptyBag]
  /\ step' = "startPass"
  /\ UNCHANGED <<job, pass, ms, row, channel, lanes, holding, grids, layers, weighed, predicted>>

EmptyGrids == [layer \in 0 .. LayersInPass - 1 |-> EmptyBag]

\* The threads that transform layers: their number and the stack.
FFTThreads == 0 .. AtMost(gridder.nFFTThreads, LayersInPass) - 1
StartTransforms ==
  /\ layers' = 0 .. LayersInPass - 1
  /\ holding' = [t \in FFTThreads |-> Nothing]
  /\ step' = "transform"

StartWorkers ==
  /\ row' = 1 /\ channel' = 1
  /\ lanes' = [c \in Cpus |-> <<>>]
  /\ holding' = [c \in Cpus |-> Nothing]

\* StartInversionPass.
StartInversionPass ==
  /\ step = "startPass" /\ job.kind = "invert"
  /\ grids' = EmptyGrids
  /\ ms' = 1 /\ StartWorkers
  /\ step' = "read"
  /\ UNCHANGED <<job, gridder, pass, images, layers, weighed, predicted>>

\* StartPredictionPass.
StartPredictionPass ==
  /\ step = "startPass" /\ job.kind = "predict"
  /\ grids' = EmptyGrids
  /\ StartTransforms
  /\ UNCHANGED <<job, gridder, pass, ms, row, channel, lanes, images, weighed, predicted>>

NextPass ==
  IF pass + 1 < gridder.nPasses
    THEN step' = "startPass" /\ pass' = pass + 1
    ELSE step' = "finalize" /\ UNCHANGED pass

(***************************************************************************)
(* Inversion: gridMeasurementSet and the threads it feeds.                 *)
(***************************************************************************)
SkipRow ==
  /\ step = "read" /\ row <= Len(Rows(ms)) /\ ~IsRequired(ms, row)
  /\ row' = row + 1
  /\ UNCHANGED <<job, gridder, step, pass, ms, channel, lanes, holding, grids, images, layers, weighed, predicted>>

\* The samples of a row that count in the weight sums.
WeighWholeRow(set, r) ==   \* mutant: isSelected is not looked at
  SetToBag({s \in Samples : s[1] = set /\ s[2] = r /\ Weight(s) # 0})
WeighRow(set, r) ==
  SetToBag({s \in Samples : s[1] = set /\ s[2] = r /\ IsInLayerRange(W(s)) /\ Weight(s) # 0})

\* readAndWeightVisibilities.
ReadRow ==
  /\ step = "read" /\ row <= Len(Rows(ms)) /\ IsRequired(ms, row)
  /\ weighed' = weighed (+) WeighRow(ms, row)
  /\ channel' = 1
  /\ step' = "send"
  /\ UNCHANGED <<job, gridder, pass, ms, row, lanes, holding, grids, images, layers, predicted>>

CpuByChannel(s) == s[3] % job.cpus   \* mutant: any thread for any layer
CpuOf(s) == WToLayer(W(s)) % job.cpus

\* All samples of the row are sent, those that are not of this pass with weight zero.
SendSample ==
  /\ step = "send"
  /\ LET s == SampleAt(ms, row, channel)
     IN  /\ Len(lanes[CpuOf(s)]) < LaneRoom
         /\ lanes' = [lanes EXCEPT ![CpuOf(s)] = Append(@, s)]
  /\ IF channel < Len(Rows(ms)[row].w)
       THEN channel' = channel + 1 /\ UNCHANGED <<row, step>>
       ELSE row' = row + 1 /\ step' = "read" /\ UNCHANGED channel
  /\ UNCHANGED <<job, gridder, pass, ms, holding, grids, images, layers, weighed, predicted>>

Working == job.kind = "invert" /\ step \in {"read", "send", "joinWorkers"}

TakeSample(c) ==
  /\ Working /\ holding[c] = Nothing /\ lanes[c] # <<>>
  /\ holding' = [holding EXCEPT ![c] = Head(lanes[c])]
  /\ lanes' = [lanes EXCEPT ![c] = Tail(@)]
  /\ UNCHANGED <<job, gridder, step, pass, ms, row, channel, grids, images, layers, weighed, predicted>>

\* A sample without weight adds zeros.
AddDataSample(c) ==
  /\ Working /\ holding[c] # Nothing
  /\ LET s == holding[c]
     IN  grids' = IF IsInLayerRange(W(s)) /\ InPlane(s) /\ Weight(s) # 0
                    THEN [grids EXCEPT ![WToLayer(W(s)) - RangeStart] = @ (+) SetToBag({s})]
                    ELSE grids
  /\ holding' = [holding EXCEPT ![c] = Nothing]
  /\ UNCHANGED <<job, gridder, step, pass, ms, row, channel, lanes, images, layers, weighed, predicted>>

EndOfSet ==
  /\ step = "read" /\ row > Len(Rows(ms))
  /\ step' = "joinWorkers"
  /\ UNCHANGED <<job, gridder, pass, ms, row, channel, lanes, holding, grids, images, layers, weighed, predicted>>

WorkersDone == \A c \in Cpus : lanes[c] = <<>> /\ holding[c] = Nothing

\* finishInversionWorkThreads, and the next set or FinishInversionPass.
JoinWorkers ==
  /\ step = "joinWorkers" /\ WorkersDone
  /\ IF ms < Len(job.sets)
       THEN ms' = ms + 1 /\ StartWorkers /\ step' = "read" /\ UNCHANGED layers
       ELSE StartTransforms /\ UNCHANGED <<ms, row, channel, lanes>>
  /\ UNCHANGED <<job, gridder, pass, grids, images, weighed, predicted>>

(***************************************************************************)
(* The threads that transform the layers.                                  *)
(***************************************************************************)
Transforming == step = "transform"

\* The layers are a stack, the highest on top.
TakeLayer(t) ==
  /\ Transforming /\ holding[t] = Nothing /\ layers # {}
  /\ holding' = [holding EXCEPT ![t] = <<Max(layers)>>]
  /\ layers' = layers \ {Max(layers)}
  /\ UNCHANGED <<job, gridder, step, pass, ms, row, channel, lanes, grids, images, weighed, predicted>>

LayerOf(layer) == layer + RangeStart

\* fftToImageThreadFunction: adds the layer, corrected for its w, to the thread's image.
TransformToImage(t) ==
  /\ Transforming /\ job.kind = "invert" /\ holding[t] # Nothing
  /\ LET layer == holding[t][1]
         corrected == [p \in {<<s, LayerOf(layer)>> : s \in DOMAIN grids[layer]} |-> grids[layer][p[1]]]
     IN  images' = [images EXCEPT ![t] = @ (+) corrected]
  /\ holding' = [holding EXCEPT ![t] = Nothing]
  /\ UNCHANGED <<job, gridder, step, pass, ms, row, channel, lanes, grids, layers, weighed, predicted>>

\* fftToUVThreadFunction: the grid is the model image, corrected for the layer's w.
TransformToGrid(t) ==
  /\ Transforming /\ job.kind = "predict" /\ holding[t] # Nothing
  /\ grids' = [grids EXCEPT ![holding[t][1]] = SetToBag({LayerOf(holding[t][1])})]
  /\ holding' = [holding EXCEPT ![t] = Nothing]
  /\ UNCHANGED <<job, gridder, step, pass, ms, row, channel, lanes, images, layers, weighed, predicted>>

TransformsDone == layers = {} /\ \A t \in FFTThreads : holding[t] = Nothing

FinishInversionPass ==
  /\ Transforming /\ job.kind = "invert" /\ TransformsDone
  /\ NextPass
  /\ UNCHANGED <<job, gridder, ms, row, channel, lanes, holding, grids, images, layers, weighed, predicted>>

StartCalculating ==
  /\ row' = 1
  /\ lanes' = [lane \in {"calc", "write"} |-> <<>>]
  /\ holding' = [c \in Cpus |-> Nothing]

FinishTransforms ==
  /\ Transforming /\ job.kind = "predict" /\ TransformsDone
  /\ ms' = 1 /\ StartCalculating
  /\ step' = "queue"
  /\ UNCHANGED <<job, gridder, pass, channel, grids, images, layers, weighed, predicted>>

(***************************************************************************)
(* Prediction: predictMeasurementSet and its threads.                      *)
(***************************************************************************)
QueueRow ==
  /\ step = "queue" /\ row <= Len(Rows(ms))
  /\ IF IsRequired(ms, row)
       THEN Len(lanes["calc"]) < LaneRoom /\ lanes' = [lanes EXCEPT !["calc"] = Append(@, row)]
       ELSE UNCHANGED lanes
  /\ row' = row + 1
  /\ UNCHANGED <<job, gridder, step, pass, ms, channel, holding, grids, images, layers, weighed, predicted>>

Calculating == job.kind = "predict" /\ step = "queue"

\* The values of a channel whose layer is in another pass, or that is not on the grid, are
\* not numbers and are not written.
NotANumber == EmptyBag
SampleDataSample(s) ==
  IF IsInLayerRange(W(s)) /\ InPlane(s) THEN grids[WToLayer(W(s)) - RangeStart] ELSE NotANumber
SampleData(r) == [ch \in Channels(ms, r) |-> SampleDataSample(SampleAt(ms, r, ch))]

TakeRow(c) ==
  /\ Calculating /\ holding[c] = Nothing /\ lanes["calc"] # <<>>
  /\ LET r == Head(lanes["calc"]) IN holding' = [holding EXCEPT ![c] = <<r, SampleData(r)>>]
  /\ lanes' = [lanes EXCEPT !["calc"] = Tail(@)]
  /\ UNCHANGED <<job, gridder, step, pass, ms, row, channel, grids, images, layers, weighed, predicted>>

PassOnRow(c) ==
  /\ Calculating /\ holding[c] # Nothing /\ Len(lanes["write"]) < LaneRoom
  /\ lanes' = [lanes EXCEPT !["write"] = Append(@, holding[c])]
  /\ holding' = [holding EXCEPT ![c] = Nothing]
  /\ UNCHANGED <<job, gridder, step, pass, ms, row, channel, grids, images, layers, weighed, predicted>>

IsWritten(value) == value # NotANumber

\* predictWriteThread: WriteModel keeps what is stored where there is no number.
WriteRow ==
  /\ Calculating /\ lanes["write"] # <<>>
  /\ LET r == Head(lanes["write"])[1]  values == Head(lanes["write"])[2]
     IN  predicted' = [s \in Samples |->
           IF s[1] = ms /\ s[2] = r /\ IsWritten(values[s[3]])
             THEN Append(predicted[s], values[s[3]]) ELSE predicted[s]]
  /\ lanes' = [lanes EXCEPT !["write"] = Tail(@)]
  /\ UNCHANGED <<job, gridder, step, pass, ms, row, channel, holding, grids, images, layers, weighed>>

\* The calculating threads are joined before the write lane is ended.
PredictionDone ==
  /\ row > Len(Rows(ms))
  /\ lanes["calc"] = <<>> /\ lanes["write"] = <<>> /\ \A c \in Cpus : holding[c] = Nothing

JoinPrediction ==
  /\ Calculating /\ PredictionDone
  /\ IF ms < Len(job.sets)
       THEN ms' = ms + 1 /\ StartCalculating /\ UNCHANGED <<step, pass>>
       ELSE NextPass /\ UNCHANGED <<ms, row, lanes, holding>>
  /\ UNCHANGED <<job, gridder, channel, grids, images, layers, weighed, predicted>>

(***************************************************************************)
(* FinalizeImage: the image of the first thread gets those of the others.  *)
(***************************************************************************)
SumOfImages ==
  LET upTo[t \in 0 .. gridder.nFFTThreads - 1] == IF t = 0 THEN images[0] ELSE upTo[t - 1] (+) images[t]
  IN  upTo[gridder.nFFTThreads - 1]

Finalize ==
  /\ step = "finalize"
  /\ grids' = Nothing
  /\ images' = [images EXCEPT ![0] = SumOfImages]
  /\ step' = "done"
  /\ UNCHANGED <<job, gridder, pass, ms, row, channel, lanes, holding, layers, weighed, predicted>>

MainStep ==
  \/ Prepare \/ StartInversionPass \/ StartPredictionPass \/ SkipRow \/ ReadRow \/ SendSample
  \/ EndOfSet \/ JoinWorkers \/ FinishInversionPass \/ FinishTransforms \/ QueueRow \/ JoinPrediction
  \/ Finalize

WorkerStep(c) ==
  /\ c \in DOMAIN holding
  /\ \/ TakeSample(c) \/ AddDataSample(c) \/ TakeLayer(c) \/ TransformToImage(c) \/ TransformToGrid(c)
     \/ TakeRow(c) \/ PassOnRow(c)

PipelineOver == step = "done" /\ UNCHANGED pipelineVars

AllCpus == 0 .. Max({j.cpus : j \in Jobs}) - 1
PipelineNext == MainStep \/ (\E c \in AllCpus : WorkerStep(c)) \/ WriteRow \/ PipelineOver

\* All threads keep running.
PipelineFairness ==
  /\ WF_pipelineVars(MainStep) /\ WF_pipelineVars(WriteRow)
  /\ \A c \in AllCpus : WF_pipelineVars(WorkerStep(c))

PipelineSpec == PipelineInit /\ [][PipelineNext]_pipelineVars /\ PipelineFairness

(***************************************************************************)
(* Properties.                                                             *)
(***************************************************************************)

HasLayer(s) == WToLayer(W(s)) < job.nWLayers

\* The image of an inversion holds every weighted sample that has a layer once, corrected for
\* its own layer, and the weight sum counts the same samples, each once, however many passes
\* and sets there are and however the channels of a row are spread over the passes.
EachSampleGriddedOnce ==
  step = "done" /\ job.kind = "invert" =>
    LET gridded == {s \in Samples : HasLayer(s) /\ Weight(s) # 0}
    IN  /\ weighed = SetToBag(gridded)
        /\ images[0] = SetToBag({<<s, WToLayer(W(s))>> : s \in gridded})

\* Two threads never add to the same layer at the same time: the grids have no lock.
LayersNotShared ==
  Working =>
    \A c, d \in Cpus : c # d /\ holding[c] # Nothing /\ holding[d] # Nothing =>
      LET l == WToLayer(W(holding[c])) IN IsLayerInPass(l) => l # WToLayer(W(holding[d]))

\* The model of every sample that has a layer is predicted once, from its own layer, and what
\* is stored of the others is kept.
EachSamplePredictedOnce ==
  step = "done" /\ job.kind = "predict" =>
    \A s \in Samples :
      predicted[s] = IF HasLayer(s) /\ InPlane(s) THEN <<SetToBag({WToLayer(W(s))})>> ELSE <<>>

\* The layers of a pass fit in the memory that was set aside for them.
LayersFitInMemory == gridder # Nothing => LayersInPass <= gridder.perPass

\* Every sample is gridded or predicted once.
EachSampleOnce == EachSampleGriddedOnce /\ EachSamplePredictedOnce

\* A layer has one thread, and its pass fits in memory.
LayersNotSharedAndFit == LayersNotShared /\ LayersFitInMemory
=============================================================================
