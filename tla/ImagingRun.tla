----------------------------- MODULE ImagingRun -----------------------------
(***************************************************************************)
(* WSClean::RunClean and WSClean::RunPredict (wsclean/wsclean.cpp): the    *)
(* order in which PSFs, images and predictions are made and how their      *)
(* results meet in the residual, model and PSF image sets.                 *)
(*                                                                         *)
(* The gridding tasks go through a TaskBatch, which GriddingTaskManager    *)
(* implements: a task is executed some time after Run accepted it and its  *)
(* callback runs some time later, in any order, but within a call of Run   *)
(* or Finish.  An image is represented by what it was made from.           *)
(***************************************************************************)
EXTENDS TaskBatch, ImagingTable

CONSTANTS
  SettingsSet,   \* the settings to explore
  Intervals,     \* -intervals-out
  MajorIterationLimit,  \* -nmiter, not 0 (which means no limit)
  ThreadCount    \* -parallel-gridding, when it is used

\* A std::set<PolarizationEnum> is in the order of the enum.
ASSUME SettingsAssumption ==
  \A s \in SettingsSet :
    /\ s.mode \in {"image", "predict"}
    /\ s.channelsOut \in Nat
    /\ s.polarizations \in Seq(DOMAIN PolarizationEnum) /\ s.polarizations # <<>>
    /\ \A p, q \in DOMAIN s.polarizations :
         p < q => PolarizationEnum[s.polarizations[p]] < PolarizationEnum[s.polarizations[q]]

VARIABLES
  settings,      \* _settings
  imagingTable,  \* _imagingTable
  interval,      \* intervalIndex of RunClean and RunPredict
  groupIndex,    \* the group that is being worked on
  todo,          \* what is left to do for the group, in order
  major,         \* _majorIterationNr
  pending,       \* the accepted tasks: what they need, and their result
  modelData,     \* the MODEL_DATA column, by polarization and channel
  psfNormalized, \* channels whose psfNormalizationFactor was set
  residualImages, modelImages, psfImages,   \* the image sets
  savedImages    \* history: the restored images written

runVars == <<imagingTable, interval, groupIndex, todo, major>>
dataVars == <<modelData, psfNormalized>>
setVars == <<residualImages, modelImages, psfImages, savedImages>>
allVars == <<vars, settings, runVars, pending, dataVars, setVars>>

(***************************************************************************)
(* CachedImageSet (wsclean/cachedimageset.h) is where WSClean keeps        *)
(* the residual, model and PSF images of the run.  A set of one            *)
(* polarization and one frequency holds its only image in memory; a larger *)
(* set writes each image to a temporary file, named after its polarization *)
(* and, when there is more than one frequency, its frequency.  Initialize  *)
(* empties the memory but not the disk: the files stay until the set is    *)
(* destructed.                                                             *)
(*                                                                         *)
(* The real and imaginary parts are always stored and loaded together by   *)
(* the callers and are one image here.                                     *)
(***************************************************************************)
\* What Load returns when nothing was stored: it throws.
NothingStored == [missing |-> TRUE]

InMemory(set) == set.polCount = 1 /\ set.freqCount = 1

\* name(): what distinguishes one image of the set from another.
FileOf(set, pol, freqIndex) ==
  IF set.freqCount = 1 THEN <<pol>> ELSE <<pol, freqIndex>>

NewImageSet == [polCount |-> 0, freqCount |-> 0, image |-> NothingStored, files |-> << >>]

Initialize(set, polCount, freqCount) ==
  [set EXCEPT !.polCount = polCount, !.freqCount = freqCount, !.image = NothingStored]

Load(set, pol, freqIndex) ==
  IF InMemory(set) THEN set.image
  ELSE IF FileOf(set, pol, freqIndex) \in DOMAIN set.files
  THEN set.files[FileOf(set, pol, freqIndex)]
  ELSE NothingStored

Store(set, image, pol, freqIndex) ==
  IF InMemory(set) THEN [set EXCEPT !.image = image]
  ELSE LET file == FileOf(set, pol, freqIndex)
       IN  [set EXCEPT !.files = [f \in DOMAIN @ \cup {file} |-> IF f = file THEN image ELSE @[f]]]

(***************************************************************************)
(* Settings (wscleansettings.cpp) and the parts of the table.              *)
(***************************************************************************)
Has(s, pol) == Contains(s.polarizations, pol)
HasCross(s) == Has(s, "XY") \/ Has(s, "YX")

ValidSettings(s) ==
  /\ s.channelsOut > 0
  /\ s.joinChannels => s.channelsOut > 1
  /\ s.joinPolarizations => Len(s.polarizations) > 1
  /\ HasCross(s) /\ s.clean => s.joinPolarizations
  /\ Has(s, "XY") <=> Has(s, "YX")
  /\ s.useIDG => s.polarizations \in {<<"I">>, <<"I", "Q", "U", "V">>} /\ ~ s.parallel
  /\ s.useIDG /\ Len(s.polarizations) = 4 /\ s.clean => s.joinPolarizations
  /\ s.mode = "predict" => ~ s.joinChannels /\ ~ s.joinPolarizations

Groups == IF settings.mode = "image" THEN IndependentGroups(imagingTable)
          ELSE SquaredGroups(imagingTable)
GroupTable == Groups[groupIndex]
FirstPol == Head(settings.polarizations)
DoMakePSF == settings.clean \/ settings.makePSF \/ settings.makePSFOnly
Imaged(entry) == <<entry.polarization, entry.outputChannelIndex>>

(***************************************************************************)
(* The work on a group, as the sequence of calls that the loops of         *)
(* runIndependentGroup and predictGroup make.                              *)
(***************************************************************************)
Each(kind, entries) == [i \in 1 .. Len(entries) |-> [do |-> kind, entry |-> entries[i]]]
Just(kind) == <<[do |-> kind]>>
Finished(calls) == calls \o Just("finish")

\* XY has to be imaged before YX, so only channels are gridded together when
\* these are requested.
AlwaysParallelizePolarizations == TRUE   \* mutant
ParallelizePolarizations == ~ HasCross(settings)
ParallelizeChannels == ~ settings.useIDG

Longest(groups) == CHOOSE n \in {Len(groups[g]) : g \in DOMAIN groups} :
                     \A g \in DOMAIN groups : Len(groups[g]) <= n

\* One batch for the first entry of every squared group, one for the second and
\* so on, and a last one without entries.
BatchPerEntry(kind, groups) ==
  LET Nth(i) == LET longEnough == AtPlaces(groups, {g \in DOMAIN groups : i <= Len(groups[g])})
                IN  [g \in DOMAIN longEnough |-> longEnough[g][i]]
  IN  FlattenSeq([i \in 1 .. Longest(groups) + 1 |-> Finished(Each(kind, Nth(i)))])

\* With one squared group after the other, prediction and imaging alternate.
BatchPerGroup(groups) ==
  FlattenSeq([g \in 1 .. Len(groups) |->
    Finished(Each("predict", groups[g])) \o Finished(Each("image", groups[g]))])

\* Prediction and imaging after a major iteration.
PredictAndImage(entries) ==
  LET squared == SquaredGroups(entries)
  IN  IF ParallelizePolarizations
      THEN IF ParallelizeChannels
           THEN Finished(Each("predict", FlattenSeq(squared)))
                \o Finished(Each("image", FlattenSeq(squared)))
           ELSE BatchPerGroup(squared)
      ELSE BatchPerEntry("predict", squared) \o BatchPerEntry("image", squared)

FirstInversion(entries) ==
  LET calls == IF ParallelizePolarizations THEN Finished(Each("invert", entries))
               ELSE BatchPerEntry("invert", SquaredGroups(entries))
  IN  IF settings.makePSFOnly
      THEN AtPlaces(calls, {i \in DOMAIN calls : calls[i].do = "finish"})
      ELSE calls

PSFs(entries) ==
  LET made == AtPlaces(entries, {i \in DOMAIN entries : entries[i].polarization = FirstPol /\ DoMakePSF})
  IN  Finished(Each("psf", made))

Saving(entries) == IF settings.makePSFOnly THEN <<>> ELSE Each("save", entries)

ImageGroup(entries) ==
  PSFs(entries) \o FirstInversion(entries)
  \o (IF settings.clean /\ ~ settings.makePSFOnly THEN Just("deconvolve") ELSE Saving(entries))

PredictGroup(entries) ==
  FlattenSeq([i \in 1 .. Len(entries) |->
    <<[do |-> "readModel", entry |-> entries[i]], [do |-> "predict", entry |-> entries[i]]>>])
  \o Just("finish")

(***************************************************************************)
(* Starting: an interval, a group.                                         *)
(***************************************************************************)
RunInit ==
  /\ settings \in {s \in SettingsSet : ValidSettings(s)}
  /\ accepted = 0 /\ called = {} /\ client = "idle"
  /\ backlog = IF settings.parallel THEN ThreadCount + 1 ELSE 0
  /\ interval = 1 /\ groupIndex = 0 /\ todo = <<>> /\ major = 0
  /\ pending = << >>
  /\ imagingTable = MakeImagingTable(settings)
  /\ modelData = [i \in {Imaged(imagingTable[e]) : e \in DOMAIN imagingTable} |-> NothingStored]
  /\ psfNormalized = {}
  /\ residualImages = NewImageSet
  /\ modelImages = NewImageSet
  /\ psfImages = NewImageSet
  /\ savedImages = {}

NextGroup ==
  /\ client = "idle" /\ todo = <<>>
  /\ groupIndex < Len(Groups)
  /\ groupIndex' = groupIndex + 1
  /\ major' = 0
  /\ UNCHANGED <<vars, settings, imagingTable, interval, pending, dataVars, savedImages>>

PolCount == Len(settings.polarizations)
AlwaysInitialize(entries) == TRUE   \* mutant
StartsPSFs(entries) == entries[1].polarization = FirstPol

\* The first lines of runIndependentGroup.
StartImageGroup ==
  /\ settings.mode = "image"
  /\ NextGroup
  /\ modelImages' = Initialize(modelImages, PolCount, settings.channelsOut)
  /\ residualImages' = Initialize(residualImages, PolCount, settings.channelsOut)
  /\ LET entries == Groups[groupIndex + 1]
     IN  /\ psfImages' = IF StartsPSFs(entries)
                         THEN Initialize(psfImages, 1, Len(SquaredGroups(entries)))
                         ELSE psfImages
         /\ todo' = ImageGroup(entries)

\* The first line of predictGroup.
StartPredictGroup ==
  /\ settings.mode = "predict"
  /\ NextGroup
  /\ modelImages' = Initialize(modelImages, PolCount, 1)
  /\ UNCHANGED <<residualImages, psfImages>>
  /\ todo' = PredictGroup(Groups[groupIndex + 1])

\* The task manager is destructed when the groups of an interval are done, and
\* a new one made for the next; _infoPerChannel is reset.
NextInterval ==
  /\ client = "idle" /\ todo = <<>> /\ groupIndex = Len(Groups)
  /\ interval < Intervals
  /\ interval' = interval + 1
  /\ groupIndex' = 0
  /\ imagingTable' = MakeImagingTable(settings)
  /\ psfNormalized' = {}
  /\ UNCHANGED <<vars, settings, todo, major, pending, modelData, setVars>>

(***************************************************************************)
(* Handing a task to the manager.                                          *)
(***************************************************************************)
Now(kind) == client = "idle" /\ todo # <<>> /\ Head(todo).do = kind

NewPending(task) ==
  [t \in DOMAIN pending \cup {accepted + 1} |-> IF t = accepted + 1 THEN task ELSE pending[t]]

\* imagePSF, runFirstInversion and imageMain: an inversion of the data, with
\* the model data subtracted from the second one on.
RunInversion ==
  /\ \/ Now("psf") \/ Now("invert") \/ Now("image")
  /\ CallRun
  /\ pending' = NewPending([kind |-> Head(todo).do, entry |-> Head(todo).entry,
                            carries |-> NothingStored, result |-> NothingStored])
  /\ UNCHANGED <<settings, runVars, dataVars, setVars>>

\* predict: YX is predicted from the XY model (conjugated).
ModelOf(entry) == IF entry.polarization = "YX" THEN "XY" ELSE entry.polarization

RunPrediction ==
  /\ Now("predict")
  /\ CallRun
  /\ LET entry == Head(todo).entry
     IN  pending' = NewPending([kind |-> "predict", entry |-> entry,
           carries |-> Load(modelImages, ModelOf(entry), entry.outputChannelIndex),
           result |-> NothingStored])
  /\ UNCHANGED <<settings, runVars, dataVars, setVars>>

EndRun ==
  /\ ReturnRun
  /\ todo' = Tail(todo)
  /\ UNCHANGED <<settings, imagingTable, interval, groupIndex, major, pending, dataVars, setVars>>

BeginFinish ==
  /\ Now("finish")
  /\ CallFinish
  /\ UNCHANGED <<settings, runVars, pending, dataVars, setVars>>

EndFinish ==
  /\ ReturnFinish /\ client' = "idle"
  /\ todo' = Tail(todo)
  /\ UNCHANGED <<settings, imagingTable, interval, groupIndex, major, pending, dataVars, setVars>>

(***************************************************************************)
(* The gridders.                                                           *)
(***************************************************************************)

\* An inversion reads the data of its channel and polarization, and the model
\* data when it subtracts the model; a prediction writes the model data.
Result(task) ==
  [polarization |-> task.entry.polarization, channel |-> task.entry.outputChannelIndex,
   interval |-> interval,
   subtracted |-> IF task.kind = "image" THEN modelData[Imaged(task.entry)] ELSE NothingStored]

Execute(t) ==
  /\ pending[t].result = NothingStored
  /\ pending' = [pending EXCEPT ![t].result = Result(pending[t])]
  /\ modelData' = IF pending[t].kind = "predict"
                  THEN [modelData EXCEPT ![Imaged(pending[t].entry)] = pending[t].carries]
                  ELSE modelData
  /\ UNCHANGED <<vars, settings, runVars, psfNormalized, setVars>>

(***************************************************************************)
(* The callbacks.                                                          *)
(***************************************************************************)

\* storeAndCombineXYandYX: the YX image is averaged into the XY image that is
\* already there; any other image replaces what was stored.
Combined(set, part) ==
  IF part.polarization = "YX" /\ Has(settings, "XY")
  THEN LET xy == Load(set, "XY", part.channel)
           parts == IF xy = NothingStored THEN <<>> ELSE xy.parts
       IN  Store(set, [parts |-> Append(parts, part)], "XY", part.channel)
  ELSE Store(set, [parts |-> <<part>>], part.polarization, part.channel)

Model(pol, channel, version) ==
  [polarization |-> pol, channel |-> channel, interval |-> interval, version |-> version]

PSFCallback(task) ==
  LET channel == task.entry.outputChannelIndex
  IN  /\ psfNormalized' = psfNormalized \cup {channel}
      /\ psfImages' = Store(psfImages, [channel |-> channel, interval |-> interval],
                            FirstPol, channel)
      /\ UNCHANGED <<residualImages, modelImages, savedImages>>

\* imageMainCallback; the first inversion also stores an empty model.
ImageCallback(task) ==
  LET entry == task.entry
      channel == entry.outputChannelIndex
      part == [polarization |-> task.result.polarization, channel |-> task.result.channel,
               interval |-> task.result.interval, subtracted |-> task.result.subtracted,
               normalized |-> DoMakePSF => channel \in psfNormalized]
  IN  /\ residualImages' = Combined(residualImages, part)
      /\ modelImages' =
           IF task.kind = "invert" /\ ~ (entry.polarization = "YX" /\ Has(settings, "XY"))
           THEN Store(modelImages, Model(entry.polarization, channel, 0), entry.polarization, channel)
           ELSE modelImages
      /\ UNCHANGED <<psfNormalized, psfImages, savedImages>>

TaskCallback(t) ==
  /\ pending[t].result # NothingStored
  /\ CallbackOf(t)
  /\ CASE pending[t].kind = "psf" -> PSFCallback(pending[t])
       [] pending[t].kind = "predict" -> UNCHANGED <<psfNormalized, setVars>>
       [] OTHER -> ImageCallback(pending[t])
  /\ pending' = [u \in DOMAIN pending \ {t} |-> pending[u]]
  /\ UNCHANGED <<settings, runVars, modelData>>

(***************************************************************************)
(* Between the batches.                                                    *)
(***************************************************************************)
HasImages(entry) == entry.imageCount > 0
Deconvolved == {GroupTable[e] : e \in {e \in DOMAIN GroupTable : HasImages(GroupTable[e])}}

PolsOf(entry) == IF entry.polarization = "XY" THEN <<"XY", "YX">> ELSE <<entry.polarization>>

\* The images of the group, one after the other.
StoreAll(set, images) ==
  LET stored[i \in 0 .. Len(GroupTable)] ==
        IF i = 0 THEN set
        ELSE IF HasImages(GroupTable[i])
        THEN Store(stored[i - 1], images[GroupTable[i]], GroupTable[i].polarization, GroupTable[i].outputChannelIndex)
        ELSE stored[i - 1]
  IN  stored[Len(GroupTable)]

\* Deconvolution::Perform: new components go from the residual to the model, and
\* all images of the group are stored again.  Whether the major threshold was
\* reached, so that another iteration follows, depends on the data, until the
\* maximum number of iterations is reached.
MayIterateAgain(majorIterationNr) == majorIterationNr < MajorIterationLimit

Deconvolve ==
  /\ Now("deconvolve")
  /\ major' = major + 1
  /\ modelImages' = StoreAll(modelImages,
       [entry \in Deconvolved |-> Model(entry.polarization, entry.outputChannelIndex, major + 1)])
  /\ residualImages' = StoreAll(residualImages,
       [entry \in Deconvolved |->
         LET old == Load(residualImages, entry.polarization, entry.outputChannelIndex)
         IN  [parts |-> [p \in DOMAIN old.parts |->
                [old.parts[p] EXCEPT !.subtracted =
                   Model(ModelOf(entry), entry.outputChannelIndex, major + 1)]]]])
  /\ \E wantsMore \in BOOLEAN : LET reachedMajorThreshold == wantsMore /\ MayIterateAgain(major + 1) IN
       todo' = (IF settings.mgainIsOne THEN <<>> ELSE PredictAndImage(GroupTable))
                  \o (IF reachedMajorThreshold THEN Just("deconvolve") ELSE Saving(GroupTable))
  /\ UNCHANGED <<vars, settings, imagingTable, interval, groupIndex, pending, dataVars, psfImages, savedImages>>

\* saveRestoredImagesForGroup.
Save ==
  /\ Now("save")
  /\ LET entry == Head(todo).entry
         image == Load(residualImages, entry.polarization, entry.outputChannelIndex)
     IN  savedImages' = IF HasImages(entry)
                        THEN savedImages \cup {[entry |-> entry, residual |-> image]}
                        ELSE savedImages
  /\ todo' = Tail(todo)
  /\ UNCHANGED <<vars, settings, imagingTable, interval, groupIndex, major, pending, dataVars,
                 residualImages, modelImages, psfImages>>

\* readEarlierModelImages: the model image on disk, for entries with images.
ReadModel ==
  /\ Now("readModel")
  /\ LET entry == Head(todo).entry
         image == Model(entry.polarization, entry.outputChannelIndex, 0)
     IN  modelImages' = IF HasImages(entry)
                        THEN Store(modelImages, image, entry.polarization, entry.outputChannelIndex)
                        ELSE modelImages
  /\ todo' = Tail(todo)
  /\ UNCHANGED <<vars, settings, imagingTable, interval, groupIndex, major, pending, dataVars,
                 residualImages, psfImages, savedImages>>

RunIsOver == client = "idle" /\ todo = <<>> /\ groupIndex = Len(Groups) /\ interval = Intervals
Over == RunIsOver /\ UNCHANGED allVars

RunNext ==
  \/ StartImageGroup \/ StartPredictGroup \/ NextInterval
  \/ RunInversion \/ RunPrediction \/ EndRun \/ BeginFinish \/ EndFinish
  \/ \E t \in DOMAIN pending : Execute(t) \/ TaskCallback(t)
  \/ Deconvolve \/ Save \/ ReadModel
  \/ Over

RunSpec == RunInit /\ [][RunNext]_allVars

(***************************************************************************)
(* Properties.                                                             *)
(***************************************************************************)

\* The images that a step reads: those of the whole group when it is about to be
\* deconvolved, that of one entry when it is about to be saved.
ReadNow ==
  CASE Now("deconvolve") -> Deconvolved
    [] Now("save") -> {Head(todo).entry} \cap Deconvolved
    [] OTHER -> {}

Subtracted(pol, channel) ==
  IF major = 0 THEN NothingStored ELSE Model(IF pol = "YX" THEN "XY" ELSE pol, channel, major)

IsComplete(entry, image) ==
  /\ image # NothingStored
  /\ Len(image.parts) = Len(PolsOf(entry))
  /\ \A p \in DOMAIN image.parts :
       /\ image.parts[p].polarization = PolsOf(entry)[p]
       /\ image.parts[p].channel = entry.outputChannelIndex
       /\ image.parts[p].interval = interval
       /\ image.parts[p].normalized
       /\ image.parts[p].subtracted = Subtracted(PolsOf(entry)[p], entry.outputChannelIndex)

\* Every residual image that is deconvolved or written was made from this
\* interval's data of its own channel and polarization (XY: from XY and YX, once
\* each), with the last model of the group subtracted and normalized by the PSF
\* of its channel, in whatever order tasks were executed and called back.
ResidualsMatchModel ==
  (settings.joinPolarizations \/ ~ HasCross(settings)) =>
    \A entry \in ReadNow :
      IsComplete(entry, Load(residualImages, entry.polarization, entry.outputChannelIndex))

\* The PSF of each channel that is deconvolved was made for that channel in this
\* interval, although it is made only in the group of the first polarization and
\* may be held in the one image that the set keeps in memory; and a prediction
\* uses the latest model of its own channel and polarization (of XY for YX),
\* although in prediction mode the files of all channels have the same name.
OwnPSFAndModel ==
  /\ Now("deconvolve") => \A entry \in Deconvolved :
       Load(psfImages, FirstPol, entry.outputChannelIndex) =
         [channel |-> entry.outputChannelIndex, interval |-> interval]
  /\ \A t \in DOMAIN pending :
       pending[t].kind = "predict" =>
         LET entry == pending[t].entry
         IN  pending[t].carries =
               Model(IF entry.polarization = "YX" THEN "XY" ELSE entry.polarization,
                     entry.outputChannelIndex, major)

\* What the comments say of XY: its restored image has YX added to it.
SavedXYHasYX ==
  \A saved \in savedImages :
    saved.entry.polarization = "XY" => Len(saved.residual.parts) = 2
=============================================================================
