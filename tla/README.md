# A verification of WSClean's control structure

WSClean makes images from the measurements of radio interferometers. Whether those
images are accurate is a question for numerical tests. This project is about what such
tests hardly reach: the threads that pass data to each other; the order in which
images, predictions and models are made and called back; the memory, files and caches
that images share; the state that cleaning carries from one iteration to the next; and
the conventions (signs, indices, conjugates, orders of polarizations) on which many
loops have to agree. The modules are written from the source under `wsclean/` and
`chgcentre/` (paths below are relative to the former); `PROJECT.json` gives the lines
that each definition stands for, the hazards with their lines, the runs, the mutants
and the theorems.

`tlc -config X.cfg M` checks a run, `tlapm M.tla` a module with proofs.

## 1. The system

| part | source | state | operations |
|---|---|---|---|
| lane | `aocommon/lane_11.h` | cyclic buffer, write position, free space, end flag; one mutex, two condition variables | write one or many, read, discard, write_end, wait_for_empty, clear |
| buffered lane | `buffered_lane.h` | a private buffer on either side of a lane | write, flush, read |
| barrier | `aocommon/barrier.h` | count, cycle number | wait |
| ParallelFor | `aocommon/parallelfor.h` | threads, next iteration, function, two flags | Run, destructor; `loop` and `waitForTasks` in the threads |
| containers | `aocommon/uvector_11.h` | storage, size, capacity | every method of a vector |
| gridding task manager | `wsclean/griddingtaskmanager.cpp` | threads, lane of tasks, list of results, mutex | Run, Finish, destructor; `processQueue` in the threads |
| imaging run | `wsclean/wsclean.cpp` | table, groups, iteration numbers, three image sets, normalization per channel | RunClean, RunPredict, `runIndependentGroup`, `predictGroup`, the callbacks |
| imaging table | `wsclean/imagingtable.cpp` | entries, groups | built once per interval |
| cached image sets | `wsclean/cachedimageset.h` | one image in memory or files on disk | Initialize, Load, Store |
| image memory | `wsclean/imagebufferallocator.h` | buffers of two halves, counters | Allocate, AllocateComplex, Free, FreeUnused, destructor |
| settings | `wsclean/commandline.cpp`, `wscleansettings.cpp` | the settings | parse, finish, Validate |
| w-stacking gridder | `wsclean/wsmsgridder.cpp`, `wstackinggridder.cpp` | grids per layer, worker lanes, images per thread | Invert, Predict in passes |
| wgridder | `wgridder/`, `wsclean/bufferedmsgridder.cpp` | chunk of rows, order of visibilities, grid of a plane, buffers per thread | gridding and predicting plane by plane |
| direct gridder | `wsclean/directmsgridder.cpp` | layers per thread | Invert |
| prediction from a sky model | `lofar/lmspredicter.cpp` | two lanes, barrier, beam, buffers of rows | Start, GetNextRow, FinishRow |
| measurement set providers | `msproviders/` | files of parts, positions in them, buffers of averages and of timesteps | partition, read, skip, reset, write the model, unpartition |
| image weights | `wsclean/imageweights.cpp`, `imageweightcache.h` | grid of weights, cached weights | Grid, FinishGridding, rank filter, Get |
| subdivision | `deconvolution/subdivision.h` | none between calls | lines through faint pixels, flood fill per subimage |
| parallel deconvolution | `deconvolution/paralleldeconvolution.cpp`, `deconvolution.cpp` | phase of auto-masking, scale masks, component list, RMS image, one algorithm per subimage | Perform, `executeParallelRun`, `runSubImage` |
| image set of a deconvolution | `deconvolution/imageset.cpp` | images of channels and polarizations | load, average, integrate, trim, store |
| deconvolution algorithms | `deconvolution/genericclean.cpp`, `simpleclean.cpp`, `multiscale/`, `iuwt/` | residuals, models, scales, masks, lists | ExecuteMajorIteration |
| deconvolution tools | `multiscale/threadeddeconvolutiontools.cpp` | threads with two lanes each | SubtractImage, MultiScaleTransform, FindMultiScalePeak |
| wavelet decomposition | `iuwt/iuwtdecomposition.cpp`, `threadpool.h` | queue of tasks, active threads | DecomposeMT, Recompose |
| primary beam | `wsclean/primarybeam.cpp`, `lofar/lbeamimagemaker.cpp` | files of the beam | make, load, apply |
| `chgcentre` | `chgcentre/main.cpp` | keywords and uvws of a set | one call on a set |

How they interact. `WSClean` makes a table of entries (channel x polarization) and works
through its groups one after another. For each it hands gridding tasks to the **task
manager**, which runs them in threads (`-parallel-gridding`) that it feeds through a
**lane**, and calls their callbacks back in the thread of the caller. The callbacks store
residuals, models and PSFs in the **image sets**. Between batches the **deconvolution**
takes the images of a group, divides them into **subimages** and cleans these
concurrently with a **ParallelFor**, whose threads meet at a **barrier**. Inside a task
the gridder asks a **provider** for rows and the **weights** for theirs, and passes
visibilities to its own threads through **buffered lanes**. Images live in memory from
the **allocator**, and are corrected for the **beam** when they are restored.

What is hard, and what makes each part correct:

* *Wakeups.* The lane has three kinds of waiting threads on two condition variables and
  notifies from four places; the barrier is reused at once by threads that may be a
  round ahead; the pool of the wavelets wakes its caller and its threads with one
  condition variable. Correct: nobody sleeps while its condition holds; nobody passes
  early; everything ends.
* *Order without order.* Tasks are executed and called back in any order, several at a
  time. Correct: what is deconvolved, predicted and saved is made of the right channel,
  polarization, interval and model nevertheless.
* *Blocking while holding a mutex.* `Run` writes to a bounded lane with the mutex held
  that the readers of the lane need. Correct: there is always room.
* *Memory that goes round.* Buffers of rows, scratch images, lanes of one task and halves
  of images are used again while other threads still work on theirs. Correct: what is
  read from a buffer belongs to the task that was given.
* *State that outlives its shape.* Every iteration divides the image differently, while
  algorithms keep masks and lists of the size of the subimage before; the weight cache
  keeps one channel and is asked for another. Correct: they are replaced in time.
* *Loops that count alike.* Which image belongs to which channel, which file to which
  part, which sign to which half of the plane is kept nowhere: loops count along the same
  table. Correct: they agree.
* *Positions that run apart.* A provider keeps several files and its own row number, an
  average keeps times, a timestep a block. Correct: what is read is what was stored.

Nothing in this program survives a crash but images that were finished, and it uses no
network: a crash loses the run, nothing is retried. No module has crash or message
actions for that reason. The files that a run leaves for another one (the primary beam,
the keywords of `chgcentre`) are in `PrimaryBeam` and `PhaseCentre`.

## 2. Modules

Threads and lanes:

| module | models | builds on |
|---|---|---|
| `Lane` | `lane_11.h` | implements `BoundedFifo` |
| `BoundedFifo` | what a lane promises | |
| `BufferedLane` | `buffered_lane.h` in the pattern of the gridders | extends `Lane` |
| `Barrier`, `BarrierRounds` | `barrier.h`; threads that meet at it round after round | |
| `ParallelFor` | `parallelfor.h` | extends `Barrier`, implements `ForLoop` |
| `ForLoop` | what a caller of `Run` relies on | |
| `GriddingTaskManager` | `griddingtaskmanager.cpp` | implements `TaskBatch` |
| `TaskBatch` | what `WSClean` relies on | |
| `WStacking` | passes, layers and threads of the w-stacking gridder | |
| `WGridder` | chunks, planes, scheduler and buffers of the wgridder | |
| `LMSPredicter` | `lmspredicter.cpp` with its lanes, barrier and beam | |
| `ThreadedDeconvolutionTools` | rounds of tasks and results | |
| `IUWTDecomposition` | the decomposition by a pool of threads | |

A run of the imager:

| module | models | builds on |
|---|---|---|
| `ImagingTable` | entries and groups | |
| `ImagingRun` | `wsclean.cpp` and `cachedimageset.h` | extends `TaskBatch`, `ImagingTable` |
| `ParallelDeconvolution` | `paralleldeconvolution.cpp`, `deconvolution.cpp`, and what an algorithm keeps | assumes of its subimages what `Subdivision` shows |
| `ImageSet` | the images of a group while it is deconvolved | `ImagingTable` |
| `PrimaryBeam` | the beam, made, stored, loaded and applied | |

Components by themselves:

| module | models |
|---|---|
| `MSProvider` | the selection of rows and the conversions of polarizations that the providers share |
| `ReorderedMS`, `ChannelDivision`, `AveragingRows`, `ContiguousMS`, `TimestepBuffer` | `partitionedms.cpp`; the parts of a set; `averagingmsrowprovider.cpp`; `contiguousms.cpp`; `timestepbuffer.h` |
| `CommandLine` | options, defaults, validation and what is run for them |
| `ImageWeights` | weights, tapers and their cache |
| `ImageBufferAllocator`, `UVector` | image memory; `ao::uvector` |
| `Subdivision`, `MinorLoop`, `MultiScale`, `IUWT` | division of an image; CLEAN with and without sub-minor loop; multi-scale; wavelets |
| `FourierImaging` | samples, transforms, corrections and resampling of the gridders |
| `PhaseCentre` | `chgcentre` |

The `...Proofs` modules hold theorems (`ParallelForProofs` about the barrier too,
`ThreadPoolProofs` about `WStacking`, `ThreadedDeconvolutionTools` and
`IUWTDecomposition`, `ImagingProofs` about `ImagingRun` and `ParallelDeconvolution`, `ComponentProofs`
about `ImageBufferAllocator`, `TimestepBuffer`, `PhaseCentre`, `UVector`, `MinorLoop` and `Subdivision`), the `MC...`
modules constants for TLC and unions: in every behaviour of `MCThreads`, `MCImaging` and
`MCComponents` one member, named by `running` or `which`, is run, and the variables of
the others keep their values. The properties of the members are checked as they are.

The composition is by promises. The lane is shown to implement a queue, and the task
manager, the gridder, the tools and the predicter use a queue for their lanes; the manager
is shown to implement a batch of tasks, and `ImagingRun` runs on any implementation of a
batch; the subdivision is shown to give masks that do not overlap, and
`ParallelDeconvolution` assumes exactly that (`SubdivisionsAssumption`, less the box that
holds the mask, see 5); `ParallelFor` is shown to be a loop, and `ParallelDeconvolution`
cleans its subimages in any order.

**Atomicity.** A step is a stretch of code that other threads cannot observe: in `Lane`,
`Barrier`, `ParallelFor`, `LMSPredicter` and `IUWTDecomposition` the code between taking a
mutex and waiting or releasing it; in `ParallelFor` the unlocked read of `_loopFunction`
is a step of its own (`CallFunction`), as it is what could go wrong. Where a lane is used
its methods are one step each, justified by `LaneImplementsFifo`. In
`ParallelDeconvolution` a step is one critical section of `runSubImage` with the local
work after it. Code that runs in one thread is cut where its caller can see it: per call,
per row, per iteration of a loop or per stage of a major iteration.

**Correspondence.** Variables carry the names of the members they stand for
(`_free_write_space` is `freeWriteSpace`); program positions are strings in `call`,
`main`, `worker`, `pc`, `step` or `stage`, named for what is done next. Variables marked
*history* exist for the properties and influence no step.

* `Lane`. `WritePass` and `ReadPass` are one pass of the loops of `write_generic`, `read`
  and `discard`; `Resume...` is the code after `wait`. As in the code, `write` looks at
  the end flag only once, and the notifications are those of `immediate_write`,
  `immediate_read` and `write_end`.
* `BufferedLane`. `Push` flushes the private buffer when it is full, `FlushRest` is the
  destructor's flush, `EndStream` the owner that has joined all producers.
* `GriddingTaskManager`. `RunAddThread`/`RunWithoutThread` to `WriteTask` are `Run`,
  `Finish` to `FinishEnd` are `Finish` (also when called by the destructor), `TakeTask`,
  `Publish`, `LeaveQueue` are `processQueue`.
* `WStacking`. A job is a gridder with its sets, memory and limits. Layers, passes and
  `workThread` are computed as in the code, a layer beyond the limits too. A grid is the
  bag of samples that were added to it, an image the bag of its grids.
* `ThreadedDeconvolutionTools`. The three calls share one round: hand out, wait for all
  lanes in order, take the results. An image is known by the kernels and slices that were
  applied to it.
* `LMSPredicter`. A row's buffer says which row and beam its visibilities were made for.
* `WGridder`. A visibility is a digit in the sum of a cell, so that a sum tells what was
  added and how often.
* `ImagingRun`. The loops over groups, entries and iterations are unrolled into the
  sequence `todo` of calls that they make; the steps take calls from its head. An image
  is a record of what it was made from: polarization, channel, interval, the model that
  was subtracted, whether it was normalized. `Execute` (a gridder reads or writes
  MODEL_DATA) and `TaskCallback` happen at any time that a `TaskBatch` allows.
* `ParallelDeconvolution`. `Perform`, `RunDeconvolution` and `FinishIteration` are the
  calling thread; `Trim` to `CopyBack` are `runSubImage`. Cleaning itself is any choice
  of components that the masks and the phase allow. Every pixel has flux above the
  threshold of the first phase and flux below it, so both phases find something.
* `ImageSet`, `PrimaryBeam`, `ImageWeights`, `MinorLoop`, `MultiScale`, `IUWT`,
  `FourierImaging`. Numbers are exact: sums of named terms, fractions, multiples of the
  gain, wavelet coefficients, or pairs modulo a prime in which the conjugate is the
  inverse of a phase; so an equation that should hold up to rounding holds exactly.
* `ReorderedMS`, `ContiguousMS`, `AveragingRows`, `TimestepBuffer`. A client makes any
  calls in any order that the interface allows. A file is the sequence of its rows.
* `CommandLine`. The options are a table of what each sets; parsing, the steps after it
  and the validation are the code's.
* `Subdivision`. Which path is shortest depends on the image, so `Init` takes any path
  that the search could return. `Subdivide` is one call of `GetBoundingMask`.

## 3. Runs

Three runs pass; each is a union of members that do not meet, checked together.

| run | asks | members |
|---|---|---|
| `threads` | does everything arrive once, where it belongs; does everybody get through | `meet` (barrier), `for`, `manager`, `stream` (buffered lane), `gridding`, `tools`, `prediction`, `planes` (wgridder), `decomposition` |
| `imaging` | do the images that meet belong together, whatever the settings and the order | `run`, `deconvolution`, `images`, `beam` |
| `components` | does each component do what its callers rely on, for any sequence of calls | lane, allocator, subdivision, vectors, minor loops, measurement sets (five), weights, command line, phase centre, wavelets, scales, Fourier |

| run that expects a violation | says |
|---|---|
| `imaging_cross` | the saved XY image lacks YX |
| `flagged_ends` | a sample between flagged channels is not gridded |
| `subdivision_box` | the box does not hold the mask |
| `saved_list` | the saved list is not the model |
| `second_window` | the model does not reach the second spectral window |
| `averaged_interval` | averaging drops rows of an interval |
| `few_antennas` | a block of a timestep has rows of zeros |
| `components_allowed` | components where none are allowed |
| `decomposition_in_place` | scales that do not add up |

What they show, by property:

* *Lane.* `FifoOrder`: the slots between the positions hold what was written and not yet
  read, in order. `WriterOrder`: the elements of a write that was split around others
  stay in order. `NoLostWakeup`: a sleeping thread has a reason to sleep.
  `FifoRefinement`: all this is a bounded queue.
* *Buffered lane.* `EachItemDeliveredOnce`: once and in order, and nothing is left when
  all have stopped.
* *Barrier and loop.* `NobodyPassesAlone`; `HasTasksNotShared` (the completion function
  writes `_hasTasks` under another mutex than its readers hold, and is safe all the
  same); `LoopRefinement`.
* *Task manager.* `NeverBlocksHoldingMutex`, `BatchRefinement` (called back once, within
  a call, with a bounded backlog), `EveryCallReturns`.
* *Gridders.* `EachSampleOnce` (in the layer's grid once, in the image once, and every row
  predicted once and written), `LayersNotSharedAndFit` (grids have no locks),
  `PlanesAddUp` (the buffers of the threads lose and repeat nothing).
* *Prediction.* `RowsPredictedOnce`: with the beam of its own time, and nobody waits at
  the barrier for a thread that left.
* *Tools and wavelets.* `CallsDoTheirWork`, `DecompositionIsComplete`.
* *Everything with threads.* `EverythingEnds`.
* *Imaging.* `ResidualsMatchModel` (residual = data minus the last model, normalized, XY
  with YX once each), `OwnPSFAndModel` (an image is cleaned with its own PSF and a
  prediction made of its own model).
* *Deconvolution.* `SubImagesAgreeWithModel` (what a subimage's algorithm is given fits it;
  masks of scales and the list hold the model), `ModelOnlyGrows`, `DivideImage` (fills are
  separate, leave out only crossings of lines, and lie in the image),
  `ImagesKeepTheirPlace`, `CorrectedForBeam`.
* *Algorithms.* `ResidualIsDirtyMinusModel`, `ComponentsAllowed`, `ScalesExplainImages`,
  `StructuresMoveFlux`.
* *Measurement sets.* `RowsReadAsStored`, `ModelReachesSet`, `EveryChannelImagedOnce`,
  `AveragesCoverSelection`, `RowsHandedOutOnce`.
* *Others.* `ImagesDoNotOverlap` (memory), `ElementsAsDocumented` (vectors),
  `WeightsFitTheirImages`, `OptionsAreInForce` (what an option asks for is not undone by
  another one, for all lines but those of `LosesAnOption`),
  `VisibilitiesMatchCentre` (any calls of `chgcentre` leave uvws and phases of the stored
  centre), `GriddersTransform` (the image is the sum over all samples that were gridded,
  and a prediction that over all pixels).

Every property has a mutant of the code that breaks it, next to the definition it changes
(marked *mutant*).

**Bounds**, and why they suffice.

* *Lane*: two slots and calls of three elements make a call larger than the lane, let
  positions wrap in the middle of a copy and let two threads of each kind wait at once,
  which a notification to the wrong one of two kinds of waiting writers needs. `MaxSent`
  and `MaxChunk` bound the history. In `BufferedLane` (two producers and consumers,
  buffers of three, four items each) positions wrap and the last fetch is not full.
* *Task manager*: three threads and six tasks give several batches, with threads that
  remain from the one before and callbacks of one `Run` in a later one.
* *Barrier and loop*: four rounds of three threads let a thread be a round ahead of a
  sleeper that itself is the last of the round before; in three loops of zero to two
  iterations a thread can be late for the next loop, the one after, and the destructor.
* *Gridding*: six jobs of one to three rows in one and two sets, one to five passes, two
  and three threads, negative and equal w, flagged, and outside of the limits, real and
  complex. A thread's lane holds two samples. *WGridder*: one and two chunks, planes at
  both ends, cells at both edges, more and fewer threads than the pool has.
* *Tools*: two threads and calls of one to five images, so that the last round is partly
  filled; two calls and the destructor. *Prediction*: rows of three times with two
  threads; the lane holds four and is read two at a time instead of 16 and 2 per thread,
  so that it fills and empties.
* *Decomposition*: one to three threads, images just large enough for their largest
  scale, arithmetic modulo 31.
* *Imaging*: two channels, polarizations, intervals and iterations are what it takes to
  confuse one with another; all combinations of joining, cleaning and parallel gridding.
  *Deconvolution*: three pixels are enough for boxes that overlap, two divisions for a
  subimage that changes its size, three iterations for both phases of auto-masking, two
  groups for what is carried over (`MaxInherited` cuts the list that the second one starts
  with). *Sets of images*: up to four channels in up to as many deconvolution channels,
  divided evenly and not. *Beam*: two pixels, two runs, Jones matrices that mix, exchange
  and lose polarizations, one and two intervals of two stations.
* *Measurement sets*: two spectral windows, linear and circular feeds, an interval, even
  and odd timesteps, one and two parts, and every order of a few calls. *Allocator*: three
  images of three sizes. *Subdivision*: eight pixels is the smallest image whose parts
  have a range of two columns to bend in. *Vectors*: two of up to three elements.
  *Minor loop*: four iterations on 4 x 4 pixels; the gain is a half, rounded down to an
  even number because psfs are counted in halves, and pixels are multiples of what four
  halvings divide by. No psf of the run wraps around (`SubtractionIsExact`). *Scales*: rows of sixteen pixels, two to four
  scales. *Wavelets*: five scales, structures that overlap, are faint, broad, negative or
  at an edge. *Fourier*: one to four samples, images of up to 8 x 8, one to three passes.
  *Weights*: four samples, three channels. *Command line*: all options, all pairs of some
  forty that interact, all triples of fifteen that the validation relates, in every order,
  without the lines of `LosesAnOption`. *Phase centre*: three calls.

What the passing runs leave out because the code is known not to hold there is in section
5 and has a violating run, or is named in section 6. In the cfgs these are
`AssignAnySize`, `AvxNegatives`, `LinkedPolarizations`, `FlaggedEnds`, `ImagesInScratch`
and the setups of the measurement sets; for the command line it is `LosesAnOption` in
`MCComponents`.

**Deadlock** is checked in `threads` and `imaging`; what has ended stutters by an explicit
step (`...Over`). It is not checked in `components`, where clients make arbitrary calls:
they may all read from an empty lane that nobody ends.

**Fairness** (`ThreadsFairness`) is weak fairness of
each thread's own steps: the scheduler runs every thread that can run; a notified thread
that contends for a mutex gets it, since every critical section is short and ends; a
function or gridder that was called returns. Spurious wakeups, and calls that the client
is free not to make, are never assumed: `EveryCallReturns` does not rely on another `Run`,
nor the end of the rounds on a wakeup without notification. In `ParallelFor` it is assumed
that the object is destructed at some time. For `imaging` no liveness is stated: its
members have no cycles other than the last stuttering step, so that the absence of
deadlock means that they end.

## 4. Proofs

The theorems hold for all values of the constants, under the named assumptions of the
modules: a lane has a slot; there are threads, finitely many; sizes and lengths are
natural numbers; pixels are finitely many and masks of subimages do not overlap; jobs and
calls are records of the kind that the code makes them; polarizations are in the order of
their enum, as `std::set<PolarizationEnum>` keeps them (`SettingsAssumption`). TLC evaluates each assumption on
the instance of the runs.

* `LaneProofs`. The invariant is `BufferOK /\ ThreadsOK`: each unread element is in the
  slot at its distance from the read position, and a thread waits only inside a call of
  the fitting kind. `FifoOrder` alone is not inductive, since a write goes to slots that
  it does not mention. From it follow `LaneTypeOK`, `LaneFifoOrder`, with a second
  induction `LaneNoLostWakeup` (each step that makes a condition true empties the wait
  set), and `LaneImplementsFifo`, which maps each action to one of the queue or to a
  stutter. `LaneWriterOrder` needs in addition (`OrderInv`) that what a writer has
  stored are its elements up to a number that its call keeps.
  `StreamDeliversEachItemOnce` is about the buffered lane: what the readers got is what
  left the lane (`StreamInv`); an item is in a write buffer, in the rest of a write, in
  the lane or with a reader, each once; a reader has stopped only when the stream ended
  and is empty, and the stream ends only when every writer's destructor has flushed.
* `GriddingTaskManagerProofs`. `NeverBlocksHoldingMutex` is inductive only with `Room`: a
  `Run` that gets to the mutex has either added a thread, or found the list empty, so
  there are never more tasks in the list than threads. This is why `wait_for_empty` and
  the creation of threads have to be alternatives. `BatchInv` then counts places:
  accepted tasks are with `Run`, in the lane, with a worker, in the list or called back,
  in one of these and once (`ManagerKeepsTasks`), and there are at most
  `parallelGridding + 1` of them when `Run` returns. This gives every step of
  `ManagerImplementsBatch`.
* `ComponentProofs`, memory. `MemoryOK` (marks and images agree), `CountsOK` and
  `BoundOK`: at most `peak` buffers of the current size and fewer than that of older
  sizes. A buffer is new only when all of its size are in use, and older ones are kept
  only while they are in use at the moment when the size changes.
* `ComponentProofs`, `RowsAreHandedOutOnce`. `TimestepInv`: the reader is before the first
  block, in a block of the rows `first..nextRow-1` that stands at its own first row and has
  handed out the rows up to its position, or behind the last block. Where a block ends is the
  least row of another timestep (`LeastElement`: each non-empty set of naturals has one). The
  hypothesis `HasEnoughRows` leaves out exactly the sets of finding 7 (`few_antennas`).
* `ComponentProofs`, `CentreIsKept`. `CentreInv`: of every field that was handled, each row
  has the uvw of the stored direction and its phases fit that uvw and the stored shift,
  whatever calls came before. The hypothesis `HasOneShift` leaves out what `chgcentre` does
  to shifted sets of several fields, and `-geozenith` with a shift (section 5).
* `ComponentProofs`, `VectorsHoldTheirElements`. The invariant is that the storage starts
  with the documented elements and that cells behind them, as far as an operation may show
  them, count as unset. `move` and `move_backward` are recursive functions over an order of
  positions; that elements are not overwritten before they are moved is shown by a least
  position for which they would be. Left out are `AssignAnySize` (section 5, containers) and
  values that the conversion in `resize(n, value)` changes.
* `ComponentProofs`, `ComponentsAreAllowed`. `MinorLoopInv`: the peak is the one that the
  search finds in the integrated image, which has integer values; the model is zero outside
  the border and the mask; the sub-minor loop's positions lie inside both. Of finitely many
  pixels one is highest (`HighestExists`), and sums over images are integers, by smallest
  sets for which these fail (`SmallestSet`). The hypotheses `PeaksAreAllowed` and
  `FirstIsLinked` leave out exactly the settings of finding 8 (`components_allowed`).
* `ComponentProofs`, `ResidualsAreWhatModelsLeave`. `ResidualInv` says of every pixel that
  the residual is the dirty image, less what each component of the model spreads to it,
  plus what a thread still has to subtract (`IsExplained`); and the same of the positions of
  the sub-minor loop (`PositionsAreExplained`). Each row has one thread
  (`RowHasOneThread`: the quotients that bound the slices are in order and meet), so every
  pixel is subtracted from once per component. After the sub-minor loop all components are
  subtracted by one convolution: a padded image leaves each pixel the room to see the psf
  where `PartialSubtractImage` does (`ConvolvedIsSpread`). A sum over a finite set is what
  its definition says when an element is added, removed or changed (the lemmas `Total...`,
  each by the smallest set for which it fails). The hypotheses are `EvenSizes` and
  `NothingWrapsAround` (`MinorLoop`); without either the code does not do it (section 5),
  and TLC evaluates that the setups of the run fulfil both.
* `ParallelForProofs`. `Rounds`: the barrier's count is the number of threads that have
  still to call `wait` in this round, and the cycle number tells, for each thread, whether
  its round is over. `ForInv` puts the loop on top: the object is between loops, within
  one, or stopping, and in each of these it says which threads have passed which round;
  iterations that were taken are below `_current`, each taken once. `HasTasksNotShared`,
  and with the calls made so far `ForImplementsLoop`, follow from it.
* `ImagingProofs`, `ParallelDeconvolution`. Masks of subimages do not overlap, so what the model has
  inside the mask of a subimage is that subimage's alone: its copy holds all of it, from
  the trim to the copy back (`DeconvolutionModelOnlyGrows`). `DeconvolutionAgrees` needs
  more: which components every subimage has found and told the kept masks and the list
  about, that the components found are not in the model the subimage started with, that
  the number of scales in use never exceeds the number of masks, and that between
  iterations masks and list are exactly the model's (the phase `Exact`).
* `ComponentProofs`, `ImageIsDivided`. A column or row of cells is at least four
  pixels wide, its lines stay within a quarter of that of their place (`PartsAreWide`,
  `LinesInTheirRange`) and move by at most one pixel per step, so that they do not meet and
  between them is a part that no line reaches, the middle of the cell in it
  (`CoreBetweenLines`). The fill finds the smallest set that contains its seed and whatever
  a pixel of it that is on no line goes to (`FillIsLeast`: there is no largest set of which
  this fails). `DivisionInv`: each mask has the middle of its own cell, none of its pixels
  that are on no line is in another cell (`StaysInCell`), it took from these pixels all that
  was not taken before, and masks do not overlap; so the middle of the next cell is still
  free. From a pixel of a cell a step leads nearer to the middle, and then another one does
  (`LeadsOn`, `CellIsReached`), unless lines close it in on both sides (`ClosedIn`), which
  is next to a crossing; and a pixel of a line is entered from the pixel behind it
  (`LineIsTaken`). `DivisionAssumption` (subimages are at least four pixels wide) is needed:
  without it there is no range to draw a line in (section 5). How a line was found is not
  used, nor how often it bends.
* `ImagingProofs`, `ResidualsAreOfTheModel` and `PSFAndModelAreOwn`. For all settings that
  `Validate` accepts, any numbers of channels, intervals, major iterations and tasks on
  their way, and any order of executions and callbacks that `TaskBatch` allows. First, the
  table: it is divided into the groups of its keys, each entry in one (`GroupsPartition`,
  `IndependentGroupFacts`), and YX comes right after XY. Second, the calls: `Needs` says
  which call uses the result of which other, and `Orderly` that between the two the client
  waits for all tasks; the loops of `runIndependentGroup` make every call of the group,
  orderly (`ImageGroupIsWork`, `MajorIterationIsWork`), in particular not XY and YX of a
  channel in one batch. Third, the images. Calls in order stay so while tasks are accepted
  and called back in any order (`AcceptedInOrder`, `CalledBackInOrder`), so that what has
  been made can be read off the calls that are left, to be made or to be called back:
  `GroupRight`. An entry with nothing left to image has its residual, with YX added once; one
  with nothing left to predict has its model data; a channel with no PSF left has its own and
  is normalized. `ResidualsMatchModel` alone is not inductive, since it looks at images only
  when nothing is left. Between groups nothing is assumed of images but the PSFs that other
  groups made (`PSFsAtStart`: without joined channels one PSF image serves one channel).
* `ThreadPoolProofs`, `LayersHaveOneThread`. `GriddingInv`: what is in a thread's lane or
  hand belongs to a layer of that thread. That passes fit in memory is arithmetic with
  quotients: the number of passes is large enough for the layers of each to fit.
* `ThreadPoolProofs`, `EachSampleIsGriddedAndPredictedOnce`. `StepInv` says how far the job
  is (which sets, rows and channels of this pass have been read: `Position`), and
  `SamplesInv` where each sample is, which is in exactly one place. Inversion: it is still
  to be handed out, in the lane or hand of its layer's thread, in the grid of its layer, or
  in one of the images; its weight counts from the pass that reads its row first. Images of
  different threads have no sample in common, so that `SumOfImages` has each once.
  Prediction: a row is in the main thread, in the lane of rows, with a thread, in the lane
  of the writer or written. The hypothesis `SamplesInReach` leaves out the rows of finding 2
  (`flagged_ends`), and samples outside of the plane that have a weight: `ImageWeights`
  gives these none.
* `ThreadPoolProofs`, `EveryCallDoesItsWork`. `ToolsInv`: in a round the thread `t` has
  image (or slice) `Before + t + 1`; the place of its task (lane of tasks, prepare,
  finish, answer, lane of answers) tells what its buffers hold; images before the round
  are done, later ones untouched; slices that were subtracted are all different, and at
  the end complete.
* `ThreadPoolProofs`, `ScalesAddUp`. Let S be the images that one gets by convolving the
  image 0, 1, 2... times, and L the largest scale put together again from what is left after
  the last scale; both are fixed by the image (`Chain`). `DecompositionInv`: in each phase a
  part is in the queue, with a thread, or done, and each just once; the rows (or columns) of
  parts that are done hold the next of S, of L, or the difference that is the scale, and the
  others what they held before. The parts are disjoint and leave no row out (`Quotient`).
  That the scales add up to the image again is the linearity of the convolution, modulo 31
  as the values are. The hypothesis `JobsAreProper` says that the largest distance of a tap
  is less than a quarter of the image, as `EndScale` chooses it; without it, and in place,
  scales do not add up (finding 9).
* `LMSPredicterProofs`. `PredicterInv`: a row is in one place, a buffer carries one row,
  the functions that are posted, running and waiting at the barrier add up, and the beam
  is replaced only while nothing is on its way (`BeamIsReplacedAlone`).

Checked by TLC only, and why:

* liveness (`EveryCallReturns`, `EverythingEnds`): out of the prover's reach, as is
  ENABLED;
* what a recursive definition computes: `ModelReachesSet`,
  `RowsReadAsStored`, `AveragesCoverSelection` (files as folds over rows), `PlanesAddUp`,
  `ScalesExplainImages`, `StructuresMoveFlux`, `GriddersTransform`, `OptionsAreInForce`: they
  would need induction over what the data are made of, of which the provers only have the
  least counterexample (`LeastElement`, with which `FiniteMaximum`, `FlattenIsStepwise`, the
  sum over threads and sums over pixels are proved), a form that gets long for folds whose
  order matters;
* `ImagesKeepTheirPlace`, `CorrectedForBeam`, `WeightsFitTheirImages`,
  `EveryChannelImagedOnce`: functions of their input, enumerated by TLC.

## 5. Disagreements between code and documentation

With a run that shows them (`PROJECT.json` quotes the lines):

1. `imaging_cross`. Without `-join-polarizations` XY and YX are separate groups, and the XY
   image is written before the YX image is made and added to it, although both are said to
   be in it.
2. `flagged_ends`. Whether a row is needed in a pass is decided from the layers of its first
   and last channel, as unsigned numbers; with both flagged, these may lie beyond all
   layers, and an unflagged channel between them is never gridded.
3. `subdivision_box`. `GetBoundingMask` takes the difference of the last and first column as
   width, one too few; rounding to even makes up for it only for an odd difference.
4. `saved_list`. In the second phase of auto-masking the masks of the scales replace the
   mask of the subimage, so it finds components of its neighbours inside its box. The model
   drops these, the component list keeps them.
5. `second_window`. `unpartition` compares the id of a part with the index of a spectral
   window: a model of the second window alone is not written back.
6. `averaged_interval`. The mean time of an average replaces the time by which rows are
   numbered; rows of the interval are dropped.
7. `few_antennas`. For a timestep with few rows the block is enlarged instead of the array
   of uvws, and the gridder is given rows of zeros.
8. `components_allowed`. `FindPeakAVX` starts with the first pixel as its peak, and the
   squares of polarizations that are not the first are added to what was in the buffer.
9. `decomposition_in_place`. Callers decompose an image that is in the scratch image: its
   scales do not add up.

Seen while reading, without a run of their own. *Threads and gridders:*

* `-parallel-gridding 0` is not rejected and would block in `Run`; a function that throws
  inside `ParallelFor::Run` in the calling thread leaves threads that cannot be joined; with
  no components `LMSPredicter` starts one thread but its barrier waits for all.
* The allocator's `clear()` resets the marks before it tests them, so that buffers in use are
  freed although the comment at `wsclean/imagebufferallocator.h:455` means to leave them.
* An even oversampling factor with an even kernel writes one element past the kernel;
  `initializePrediction` tests the destination for finite values instead of the input;
  samples at the lower edge are left out and those at the upper one kept; the direct gridder
  uses the height as length of a row and shifts l and m where the w-stacking gridder does
  not; the resampler copies the highest column from the wrong place when it decimates and
  drops it when it enlarges.
* In the wgridder the highest w comes to lie on the last plane.

*Deconvolution:*

* Scale masks and component list are not cleared between groups; the model carries them over
  (`inherited`). The subimage that finishes first decides for how many scales masks are
  kept. Subimages narrower than four pixels leave no range to draw a line in.
* With more deconvolution channels than groups `channelToSqIndex` searches for ever;
  `InterpolateAndStore` assumes polarizations that are not joined; the squared join divides
  by n where `deconvolution/imageset.h` says the root of it.
* In multi-scale's direct loop the border of the scale is ignored after the first component;
  components are counted per image there and per iteration in the fast loop, whose cleaned
  flux is weighted by the RMS; sidelobes of components near one edge may wrap to the other.
* The sub-minor loop convolves in an image padded by 1.1 (`deconvolution/genericclean.cpp:14`,
  where multi-scale lets one choose): the psf of a component that is further than about 0.6
  of the width from a pixel comes back from the other side into the residual. With an odd
  size its convolution has the psf one pixel off its centre, and `PartialSubtractImage`
  does not subtract the last column of the psf.
* `-iuwt-snr-test` is passed as the level of sigma (`iuwt/iuwtdeconvolution.h:26`); boxes
  that are shrunk to a multiple of eight lose up to seven pixels at the far side.

*Beams:* `ApplyFullStokes` refuses LOFAR's sixteen images after the whole run;
`-reuse-primary-beam` looks for a name that LOFAR's files never have, and loading prefers
older files of eight images; the weight of the last timestep is never used; a singular beam
gives NaN for eight images and zero for sixteen; `VoltagePattern::Render` shifts l twice;
`loadAveragePrimaryBeam` sets no polarization in the name of the file.

*Command line.* The following lines are accepted, and of what the help
(`wsclean/commandline.cpp:21-407`) promises for one of their options nothing is left.
`OptionsAreInForce` is false for each of them; among the lines of section 3 it is false for
no others (`LosesAnOption` leaves out exactly these), so the run shows nothing about them:

* The later option undoes the earlier: `-super-weight 2 -weight briggs 0` (the super
  weight), `-padding 2 -direct-ft`, `-small-inversion` before `-direct-ft` or `-use-idg`,
  `-negative -iuwt`, `-fit-beam -theoretic-beam`, and, though it is the earlier that
  remains, `-mf-weighting -no-mf-weighting`. In the other order both
  settings are kept, or the last one counts.
* One of two is ignored in any order: `-simulate-noise` with `-baseline-averaging`, whose
  visibilities are not replaced by noise; `-direct-ft` with `-use-idg` or `-use-wgridder`,
  and the latter with `-use-idg`; the first of `-predict` and `-restore`; the first of
  `-save-source-list`, which is to enable Gaussian shapes, and `-multiscale-shape
  tapered-quadratic`.

*Settings and weights:* `-intervals-out abc` images nothing; a missing last argument reads a
null pointer; `-no-normalize-for-weighting` is documented and unknown; several defaults in
the help are not the program's; the key of the weight cache has no polarization; without
reordering MF weights are made of all channels (`wsclean/wsclean.cpp:405`); a rank filter of
a window below two gives NaN.

*Containers:* `assign_copy_from` keeps the old size (`aocommon/uvector_11.h:1017`), and the
value of `resize(n, 0.5)` is converted to a size. *`chgcentre`:* sets with several fields are
shifted wrongly, `-geozenith` ignores a shift and a data column, an option without a set
reads a null pointer.

## 6. Not modelled

* Floating point: kernel values, windows, fits of spectra and Gaussians, responses of
  beams, rounding. Where a property is about arithmetic it is made exact (section 2).
* I/O and text: FITS files, sky model files, casacore's tables, the parsing of numbers and
  angles, deprecated names of options, the library interface, logging.
* `ImagingRun`: `-reuse-psf`, `-reuse-dirty`, `-continue`, `-subtract-model`, MF images.
  `ParallelDeconvolution`: one subimage, other algorithms than multi-scale, the choice of
  thresholds.
* `WStacking`, `WGridder`, `ThreadedDeconvolutionTools`: exceptions in threads; the shutdown
  of the wgridder's pool. `WGridder` needs at least two different |w|.
* `LMSPredicter`: the mutex around the table of the set; no components at all.
* `FourierImaging`: an even oversampling factor; rows of one channel; resampled images have
  no kernel, w = 0 and none of the highest frequencies; direct jobs are square and not
  shifted. `ImageWeights`: Gaussian and Tukey functions are fractions that fall off in the
  same place; no sample has v = 0.
* `PrimaryBeam`: undersampling, averaged beams, a beam that is reused for another
  observation. `PhaseCentre`: shifted sets of several fields, `-geozenith` with a shift.
* `ImageSet`: every deconvolution channel has a group. `Subdivision`:
  `DivideHorizontallyWithSplits`, which is not called.
* `IUWT`: decomposition and convolution are exact operations on coefficients; features lie
  outside of the last seven pixels; extracting point sources and the constrained psf are
  never called. `MultiScale`: images of one row with a small psf, components of the fast
  loop are not at the edge, no spectral fit; removal of scales that no longer fit.
* `FFTWManager`, `SynchronizedMS`, `NoiseMSRowProvider`, averaged a-terms, IDG's library.

## 7. Plan

Done: the lane, on which all else rests; the task manager and the run that depends on its
promise; the memory they share; the parallel loop and the deconvolution that uses it; the
gridders, predicter and tools with their threads; the measurement sets; the algorithms and
the arithmetic that several loops have to agree on; and the theorems of section 4.

What is left, in order of importance:

1. Proofs: `PlanesAddUp` for any number of threads and planes (the chunks of the wgridder
   are handed out once, and its buffers are sums whose order does not matter), and
   `ImagesKeepTheirPlace` on the table facts of `ImagingProofs`.
2. `ImagingRun`: MF images, `-subtract-model`, `-continue`.
3. `ImageWeightCache` with concurrent gridders, and `FFTWManager`'s nested requests.
