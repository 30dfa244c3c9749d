----------------------------- MODULE MultiScale -----------------------------
(***************************************************************************)
(* MultiScaleAlgorithm::ExecuteMajorIteration, with multiscaletransforms.h *)
(* and the sub-minor loop, in the major iterations of one or more phases.  *)
(*                                                                         *)
(* The images have one row, of integers.  A psf is given in halves and the *)
(* kernels of the scales have integer weights by whose sum nothing is      *)
(* divided before peaks are compared: a transformed image is as many times *)
(* too large.  Values of components are rounded so that what they add to   *)
(* the model and take from the images is an integer again.                 *)
(***************************************************************************)
EXTENDS Integers, Sequences, FiniteSetsExt, SequencesExt, TLC

CONSTANT ScaleSetups   \* images, psfs and settings

VARIABLES
  scaleJob,           \* the images, psfs and settings
  maskPhase,          \* the settings of auto-masking that are in force
  stage,              \* what is done next
  iterationNumber,    \* _iterationNumber
  scaleInfos,         \* _scaleInfos: the scales, with the peaks that were last found
  scaleWithPeak,
  limits,             \* firstThreshold, isFinalThreshold, firstSubIterationThreshold, thresholdCountdown
  dirtyImages,        \* dirtySet
  modelImages,        \* modelSet
  convolvedImages,    \* individualConvolvedImages
  subModel,           \* the positions and components of the sub-minor loop
  scaleMasks,         \* _scaleMasks
  componentList       \* _componentList, by scale and position

multiScaleVars == <<scaleJob, maskPhase, stage, iterationNumber, scaleInfos, scaleWithPeak, limits, dirtyImages,
                    modelImages, convolvedImages, subModel, scaleMasks, componentList>>

Columns == 0 .. scaleJob.width - 1
ImageIndices == DOMAIN scaleJob.dirty
Centre == scaleJob.width \div 2
Mode == scaleJob.phases[maskPhase]
LeastOf(a, b) == IF a < b THEN a ELSE b
GreatestOf(a, b) == IF a > b THEN a ELSE b
Abs(n) == IF n < 0 THEN -n ELSE n
RoundedToZero(n, d) == IF n < 0 THEN -((-n) \div d) ELSE n \div d

-----------------------------------------------------------------------------
(* Scales *)

\* A shape that falls off at its edge, of an odd number of pixels; scale 0 is one pixel.
Radius(scale) == scale \div 2
Shape(scale, distance) ==
  IF Abs(distance) > Radius(scale) THEN 0 ELSE IF Abs(distance) < Radius(scale) THEN 2 ELSE 1
ShapeSum(scale) == IF scale = 0 THEN 1 ELSE 2 * scale
Precision == 8   \* bound: a multiple of the sums of all shapes

\* Transform: a convolution over the edges of the image.
Transform(image, scale) ==
  [p \in Columns |-> MapThenSumSet(LAMBDA d : Shape(scale, d) * image[(p - d) % scaleJob.width],
                                   -Radius(scale) .. Radius(scale))]

\* initializeScaleInfo: the scales of the user, or doubled from the beam as long as they fit.
FirstAutoScaleSize == scaleJob.beam
AutoScales ==
  LET doubled == [k \in 1 .. 4 |-> FirstAutoScaleSize * 2 ^ k]
      fitting == <<0>> \o SelectSeq(doubled, LAMBDA s : 2 * s < scaleJob.width)
  IN  IF scaleJob.maxScales = 0 THEN fitting ELSE SubSeq(fitting, 1, LeastOf(scaleJob.maxScales, Len(fitting)))
ScaleSizes ==
  IF scaleJob.manualScales = {} THEN AutoScales ELSE SetToSortSeq(scaleJob.manualScales, LAMBDA a, b : a < b)

ScaleIndices == DOMAIN scaleInfos
ScaleOf(s) == scaleInfos[s].scale

\* In quarters: the power of the bias belongs to the user's scale, if there are two or more.
BiasFactor(infos, s) ==
  IF infos[s].scale = 0 \/ Len(infos) < 2 THEN 4 ELSE scaleJob.bias[infos[s].scale]

\* convolvePSFs, at the current scale, and the psf that convolved images show.
ConvolvedPSF(i) == Transform(scaleJob.psfs[i], ScaleOf(scaleWithPeak))
DoubleConvolvedPSF(i) == Transform(ConvolvedPSF(i), ScaleOf(scaleWithPeak))
TotalOver(images) == [p \in Columns |-> MapThenSumSet(LAMBDA i : images[i][p], DOMAIN images)]
PsfOfConvolvedOnce(i) == ConvolvedPSF(i)   \* mutant
PsfOfConvolved(i) == DoubleConvolvedPSF(i)
PsfPeak(scale) == Transform(TotalOver(scaleJob.psfs), scale)[Centre] \div Len(scaleJob.psfs)

\* A component of half the value that was measured, relative to the peak of the psf.
ComponentValue(measured) ==
  RoundedToZero(measured, 2 * PsfPeak(ScaleOf(scaleWithPeak)) * ShapeSum(ScaleOf(scaleWithPeak)))

-----------------------------------------------------------------------------
(* Peaks *)

AllowsNegatives == scaleJob.allowNegatives \/ scaleJob.stopOnNegative

MaskOf(s) == IF Mode.useMasks THEN scaleMasks[s] ELSE scaleJob.mask
InsideOf(border) == border .. GreatestOf(border, scaleJob.width - border) - 1
ScaleBorder(s) == GreatestOf(scaleJob.border, Radius(ScaleOf(s)))

\* The integrated image, in which scales and noise levels can be compared.
Compared(image, scale) ==
  [p \in Columns |-> (image[p] * scaleJob.rmsFactor[p] * (Precision \div ShapeSum(scale))) \div Len(scaleJob.dirty)]

HeightOf(value) == IF AllowsNegatives THEN Abs(value) ELSE value
PeakIn(image, pixels) ==
  LET highest == Max({0} \cup {HeightOf(image[p]) : p \in pixels})
      at == IF highest = 0 THEN 0 ELSE Min({p \in pixels : HeightOf(image[p]) = highest})
  IN  [at |-> at, maxValue |-> IF highest = 0 THEN 0 ELSE image[at]]

\* findActiveScaleConvolvedMaxima: scales that are not active keep their last peak.
PeakOfScale(info, s, images) ==
  PeakIn(Compared(Transform(TotalOver(images), info.scale), info.scale),
         InsideOf(GreatestOf(scaleJob.border, Radius(info.scale))) \cap MaskOf(s))
ActiveScaleConvolvedMaxima(infos, images) ==
  [s \in DOMAIN infos |->
     IF infos[s].isActive THEN PeakOfScale(infos[s], s, images) @@ infos[s] ELSE infos[s]]

BiasedPeak(infos, s) == Abs(infos[s].maxValue * BiasFactor(infos, s))

\* selectMaximumScale: of equal peaks the one that was inserted first.
MaximumScale(infos) ==
  CHOOSE s \in DOMAIN infos :
    /\ infos[s].isActive
    /\ \A t \in DOMAIN infos : infos[t].isActive =>
         BiasedPeak(infos, s) > BiasedPeak(infos, t) \/ (BiasedPeak(infos, s) = BiasedPeak(infos, t) /\ s <= t)

\* activateScales: those with a peak, as far as is known, that is not lower than what is left of
\* the current one.
IsSignificant(infos, s) == s = scaleWithPeak \/ 2 * BiasedPeak(infos, s) > BiasedPeak(infos, scaleWithPeak)
ActivatedScales(infos) ==
  [s \in DOMAIN infos |-> [infos[s] EXCEPT !.isActive = IsSignificant(infos, s)]]

-----------------------------------------------------------------------------
(* Components *)

\* An image with its centre on a pixel, cut off at the edges.
Shifted(image, at) ==
  [p \in Columns |-> IF p - at + Centre \in Columns THEN image[p - at + Centre] ELSE 0]

\* What components (by position) add to the model, and what the psf makes of them.
ShapesIn(values, scale, p) == MapThenSumSet(LAMBDA q : 2 * values[q] * Shape(scale, p - q), DOMAIN values)

Key(s, p) == <<s, p>>
ListWith(list, s, p, values) ==
  IF Key(s, p) \in DOMAIN list THEN [list EXCEPT ![Key(s, p)] = [i \in ImageIndices |-> @[i] + values[i]]]
  ELSE (Key(s, p) :> values) @@ list

-----------------------------------------------------------------------------
(* ExecuteMajorIteration *)

NoSubModel == [positions |-> {}, values |-> <<>>]
Blank == [p \in Columns |-> 0]

MultiScaleInit ==
  /\ scaleJob \in ScaleSetups
  /\ maskPhase = 1 /\ stage = "start" /\ iterationNumber = 0 /\ scaleWithPeak = 1
  /\ scaleInfos = [s \in DOMAIN ScaleSizes |->
       [scale |-> ScaleSizes[s], isActive |-> FALSE, at |-> 0, maxValue |-> 0]]
  /\ limits = [first |-> 0, isFinal |-> FALSE, sub |-> 0, countdown |-> 0]
  /\ dirtyImages = scaleJob.dirty /\ convolvedImages = <<>>
  /\ modelImages = [i \in ImageIndices |-> Blank]
  /\ subModel = NoSubModel
  /\ scaleMasks = [s \in DOMAIN ScaleSizes |-> {}] /\ componentList = <<>>

StartMajorIteration ==
  /\ stage = "start" /\ stage' = "choose"
  /\ scaleInfos' = ActiveScaleConvolvedMaxima([s \in ScaleIndices |-> [scaleInfos[s] EXCEPT !.isActive = TRUE]],
                                              dirtyImages)
  /\ scaleWithPeak' = MaximumScale(scaleInfos')
  /\ LET mGainThreshold == (BiasedPeak(scaleInfos', scaleWithPeak') * scaleJob.mKept) \div 4 IN
     limits' = [first |-> GreatestOf(mGainThreshold, Mode.threshold), isFinal |-> Mode.threshold > mGainThreshold,
                sub |-> 0, countdown |-> GreatestOf(8, (3 * Len(scaleInfos)) \div 2)]
  /\ UNCHANGED <<scaleJob, maskPhase, iterationNumber, dirtyImages, modelImages, convolvedImages, subModel, scaleMasks,
                 componentList>>

PeakValue == scaleInfos[scaleWithPeak].maxValue
MayIterate(value) == iterationNumber < scaleJob.nIter /\ (scaleJob.stopOnNegative => value >= 0)
Exceeds(value, threshold) == Abs(value * BiasFactor(scaleInfos, scaleWithPeak)) > threshold
Continues == MayIterate(PeakValue) /\ Exceeds(PeakValue, limits.first) /\ limits.countdown > 0

\* The images are convolved, and the loop at this scale ends with a part of the peak.
BeginScale ==
  /\ stage = "choose" /\ Continues
  /\ convolvedImages' = [i \in ImageIndices |-> Transform(dirtyImages[i], ScaleOf(scaleWithPeak))]
  /\ LET kept == (BiasedPeak(scaleInfos, scaleWithPeak) * scaleJob.scaleKept) \div 4 IN
     limits' = [limits EXCEPT !.sub = GreatestOf(kept, limits.first),
                              !.countdown = IF limits.first > kept THEN @ - 1 ELSE @]
  /\ stage' = IF scaleJob.fastSubMinorLoop THEN "find positions" ELSE "direct"
  /\ UNCHANGED <<scaleJob, maskPhase, iterationNumber, scaleInfos, scaleWithPeak, dirtyImages, modelImages, subModel,
                 scaleMasks, componentList>>

\* Without the fast loop the images are corrected for every component.  Except for the first,
\* components are also found where the scale does not fit in the image.
DirectComponent ==
  LET at == scaleInfos[scaleWithPeak].at
      scale == ScaleOf(scaleWithPeak)
      values == [i \in ImageIndices |-> ComponentValue(convolvedImages[i][at])]
      Corrected(image, psf, value) == [p \in Columns |-> image[p] - value * Shifted(psf, at)[p]]
  IN  /\ stage = "direct" /\ MayIterate(PeakValue) /\ Exceeds(PeakValue, limits.sub)
      /\ dirtyImages' = [i \in ImageIndices |-> Corrected(dirtyImages[i], ConvolvedPSF(i), values[i])]
      /\ convolvedImages' = [i \in ImageIndices |-> Corrected(convolvedImages[i], PsfOfConvolved(i), values[i])]
      /\ modelImages' = [i \in ImageIndices |-> [p \in Columns |->
           modelImages[i][p] + ShapesIn(at :> values[i], scale, p)]]
      /\ scaleMasks' = IF Mode.trackMasks THEN [scaleMasks EXCEPT ![scaleWithPeak] = @ \cup {at}] ELSE scaleMasks
      /\ componentList' = ListWith(componentList, scaleWithPeak, at, values)
      /\ scaleInfos' = [scaleInfos EXCEPT ![scaleWithPeak] =
           PeakIn(Compared(TotalOver(convolvedImages'), scale),
                  InsideOf(scaleJob.border) \cap MaskOf(scaleWithPeak)) @@ @]
      /\ iterationNumber' = iterationNumber + 1
      /\ UNCHANGED <<scaleJob, maskPhase, stage, scaleWithPeak, limits, subModel>>

\* The next scale is chosen.  The current one stays active, so that there is one.
ChooseScale(images) ==
  /\ scaleInfos' = ActiveScaleConvolvedMaxima(ActivatedScales(scaleInfos), images)
  /\ scaleWithPeak' = MaximumScale(scaleInfos')
  /\ stage' = "choose"

DirectDone ==
  /\ stage = "direct" /\ ~(MayIterate(PeakValue) /\ Exceeds(PeakValue, limits.sub))
  /\ ChooseScale(dirtyImages)
  /\ UNCHANGED <<scaleJob, maskPhase, iterationNumber, limits, dirtyImages, modelImages, convolvedImages, subModel,
                 scaleMasks, componentList>>

\* SubMinorLoop: the positions above the threshold, away from the edge.
FindPositions ==
  /\ stage = "find positions" /\ stage' = "sub-minor"
  /\ LET compared == Compared(TotalOver(convolvedImages), ScaleOf(scaleWithPeak))
         bias == BiasFactor(scaleInfos, scaleWithPeak)
         found == {p \in InsideOf(ScaleBorder(scaleWithPeak)) \cap MaskOf(scaleWithPeak) :
                     HeightOf(compared[p] * bias) >= limits.sub}
     IN  subModel' = [positions |-> found, values |-> [i \in ImageIndices |-> [p \in found |-> 0]]]
  /\ UNCHANGED <<scaleJob, maskPhase, iterationNumber, scaleInfos, scaleWithPeak, limits, dirtyImages, modelImages,
                 convolvedImages, scaleMasks, componentList>>

\* The highest position, of which the values follow from the components so far.
SubMinorResidual(i) ==
  LET psf == PsfOfConvolved(i) IN
  [p \in Columns |-> convolvedImages[i][p]
     - MapThenSumSet(LAMBDA q : subModel.values[i][q] * Shifted(psf, q)[p], subModel.positions)]
SubMinorPeak ==
  PeakIn(Compared([p \in Columns |-> MapThenSumSet(LAMBDA i : SubMinorResidual(i)[p], ImageIndices)],
                  ScaleOf(scaleWithPeak)), subModel.positions)

SubMinorComponent(peak) ==
  /\ stage = "sub-minor"
  /\ MayIterate(peak.maxValue) /\ Exceeds(peak.maxValue, limits.sub)
  /\ subModel' = [subModel EXCEPT !.values =
       [i \in ImageIndices |-> [@[i] EXCEPT ![peak.at] = @ + ComponentValue(SubMinorResidual(i)[peak.at])]]]
  /\ iterationNumber' = iterationNumber + 1
  /\ UNCHANGED <<scaleJob, maskPhase, stage, scaleInfos, scaleWithPeak, limits, dirtyImages, modelImages,
                 convolvedImages, scaleMasks, componentList>>

\* getConvolutionDimensions: one and a half scale and ten percent more, in a size for the FFT.
GoodFFTSize(n) ==   \* bound: small powers
  Min({m \in n .. 2 * n : m % 2 = 0 /\
         \E a \in 1 .. 5, b \in 0 .. 3, c, d \in 0 .. 2 : m = 2 ^ a * 3 ^ b * 5 ^ c * 7 ^ d})
ConvolutionSize(scale) == GoodFFTSize((11 * (3 * scale + 2 * scaleJob.width) + 19) \div 20)

\* CorrectResidualDirty: the model of the loop is convolved in the padded image.
Wrapped(distance, size) == ((distance + size \div 2) % size) - size \div 2
PaddedResponse(i, p, size) ==
  MapThenSumSet(LAMBDA q : LET at == Wrapped(p - q, size) + Centre
                           IN  IF at \in Columns THEN subModel.values[i][q] * ConvolvedPSF(i)[at] ELSE 0,
                subModel.positions)

RECURSIVE AddedToList(_, _)
AddedToList(list, positions) ==
  IF positions = {} THEN list
  ELSE LET p == Min(positions)
       IN  AddedToList(ListWith(list, scaleWithPeak, p, [i \in ImageIndices |-> subModel.values[i][p]]),
                       positions \ {p})
Cleaned == {p \in subModel.positions : \E i \in ImageIndices : subModel.values[i][p] # 0}

SubMinorDone(peak) ==
  /\ stage = "sub-minor" /\ ~(MayIterate(peak.maxValue) /\ Exceeds(peak.maxValue, limits.sub))
  /\ dirtyImages' = [i \in ImageIndices |-> [p \in Columns |->
       dirtyImages[i][p] - PaddedResponse(i, p, ConvolutionSize(ScaleOf(scaleWithPeak)))]]
  /\ modelImages' = [i \in ImageIndices |-> [p \in Columns |->
       modelImages[i][p] + ShapesIn(subModel.values[i], ScaleOf(scaleWithPeak), p)]]
  /\ scaleMasks' = IF Mode.trackMasks THEN [scaleMasks EXCEPT ![scaleWithPeak] = @ \cup Cleaned] ELSE scaleMasks
  /\ componentList' = AddedToList(componentList, Cleaned)
  /\ ChooseScale(dirtyImages')
  /\ subModel' = NoSubModel
  /\ UNCHANGED <<scaleJob, maskPhase, iterationNumber, limits, convolvedImages>>

\* The caller makes the images anew as long as the threshold of the major iteration is what
\* ended the loop, and then begins the next phase.
EndMajorIteration ==
  /\ stage = "choose" /\ ~Continues
  /\ LET reachedMajorThreshold ==
           iterationNumber < scaleJob.nIter /\ ~limits.isFinal /\ ~(scaleJob.stopOnNegative /\ PeakValue < 0)
     IN  \/ /\ reachedMajorThreshold /\ stage' = "start" /\ UNCHANGED maskPhase
         \/ /\ ~reachedMajorThreshold /\ maskPhase < Len(scaleJob.phases)
            /\ maskPhase' = maskPhase + 1 /\ stage' = "start"
         \/ /\ ~reachedMajorThreshold /\ maskPhase = Len(scaleJob.phases) /\ stage' = "done" /\ UNCHANGED maskPhase
  /\ UNCHANGED <<scaleJob, iterationNumber, scaleInfos, scaleWithPeak, limits, dirtyImages, modelImages,
                 convolvedImages, subModel, scaleMasks, componentList>>

MultiScaleNext ==
  \/ StartMajorIteration \/ BeginScale \/ DirectComponent \/ DirectDone \/ FindPositions
  \/ stage = "sub-minor" /\ \E peak \in {SubMinorPeak} : SubMinorComponent(peak) \/ SubMinorDone(peak)
  \/ EndMajorIteration

-----------------------------------------------------------------------------
(* Properties *)

ValuesAt(s, i) == [p \in {k[2] : k \in {k \in DOMAIN componentList : k[1] = s}} |-> componentList[Key(s, p)][i]]

\* The model is made of the shapes in the list, and what was subtracted from every image is
\* these shapes as its psf shows them, without what the edge cuts off.
ListMakesImages ==
  \A i \in ImageIndices : \A p \in Columns :
    /\ modelImages[i][p] =
         MapThenSumSet(LAMBDA s : ShapesIn(ValuesAt(s, i), ScaleOf(s), p), ScaleIndices)
    /\ scaleJob.dirty[i][p] - dirtyImages[i][p] =
         MapThenSumSet(LAMBDA k : componentList[k][i] * Shifted(Transform(scaleJob.psfs[i], ScaleOf(k[1])), k[2])[p],
                       DOMAIN componentList)

\* A scale is chosen by peaks that the images have, and the convolved images are those of the
\* images that are left, except near the edges.
PeaksAreCurrent ==
  /\ stage = "choose" =>
       \A s \in ScaleIndices : scaleInfos[s].isActive =>
         PeakOfScale(scaleInfos[s], s, dirtyImages).maxValue = scaleInfos[s].maxValue
  /\ stage = "direct" =>
       LET r == Radius(ScaleOf(scaleWithPeak)) IN
       \A i \in ImageIndices : \A p \in InsideOf(2 * r) :
         convolvedImages[i][p] = Transform(dirtyImages[i], ScaleOf(scaleWithPeak))[p]

\* Components lie in the mask of their scale while masks are tracked and when they are used.
ComponentsInMasks ==
  (\A m \in 1 .. maskPhase : scaleJob.phases[m].trackMasks \/ scaleJob.phases[m].useMasks) =>
    \A k \in DOMAIN componentList : k[2] \in scaleMasks[k[1]]

\* Whichever scales are cleaned, in whichever loop, the components that were found are what the
\* model holds and what is missing in the images, and the scale with the highest peak is next.
ScalesExplainImages == ListMakesImages /\ PeaksAreCurrent /\ ComponentsInMasks
=============================================================================
