---------------------------- MODULE MCComponents ----------------------------
(***************************************************************************)
(* Components that do not share state with one another, in one run of TLC: *)
(* in every behaviour one of them is run, and the others do not start.     *)
(***************************************************************************)
EXTENDS MCMeasurementSets, Subdivision, ImageBufferAllocator, Lane, CommandLine, PhaseCentre, UVector,
        MinorLoop

CONSTANTS
  LinkedPolarizations,   \* the lists of linked images
  AvxNegatives           \* settings of negative components with which peaks are found by FindPeakAVX
VARIABLES
  weightJob, gridded, providers, cachedWeights, currentWeightChannel, requests, given,
  iuwtJob, iterCounter, curMinScale, curEndScale, integratedDirty, dirtySet, modelSet, initialComponents,
  reachedThreshold, fit, iuwtStage,
  scaleJob, maskPhase, stage, iterationNumber, scaleInfos, scaleWithPeak, limits, dirtyImages, modelImages,
  convolvedImages, subModel, scaleMasks, componentList,
  fourierJob, fourierStep, fourierPass, fourierSample, uvLayers, layerStack, threadImages, spectra, fourierImage,
  savedImage, savedUV, predictedValues, restoredImage

weightVars == <<weightJob, gridded, providers, cachedWeights, currentWeightChannel, requests, given>>
iuwtVars == <<iuwtJob, iterCounter, curMinScale, curEndScale, integratedDirty, dirtySet, modelSet,
              initialComponents, reachedThreshold, fit, iuwtStage>>
multiScaleVars == <<scaleJob, maskPhase, stage, iterationNumber, scaleInfos, scaleWithPeak, limits, dirtyImages,
                    modelImages, convolvedImages, subModel, scaleMasks, componentList>>
fourierVars == <<fourierJob, fourierStep, fourierPass, fourierSample, uvLayers, layerStack, threadImages, spectra,
                 fourierImage, savedImage, savedUV, predictedValues, restoredImage>>

-----------------------------------------------------------------------------
(* Small images for the minor loop *)

FourByFour == (0 .. 3) \X (0 .. 3)

\* Sources next to one another, at the edge and at the corner; the unit is what four
\* iterations divide by.
Sky(sources) == [p \in FourByFour |-> IF p \in DOMAIN sources THEN 256 * sources[p] ELSE 0]
Sources == {[p \in {<<1, 1>>, <<2, 1>>, <<3, 2>>} |-> 8 - 2 * p[1]],
            [p \in {<<0, 0>>, <<2, 2>>} |-> IF p = <<0, 0>> THEN 6 ELSE -4]}

\* A psf with different sidelobes on its sides, in halves.
Psf(left, right) ==
  [p \in FourByFour |-> IF p = <<2, 2>> THEN 2 ELSE IF p = <<1, 2>> THEN left
                        ELSE IF p \in {<<3, 3>>, <<0, 0>>} THEN right ELSE 0]

CleanSetup(images, joined, linked, options) ==
  [width |-> 4, height |-> 4, dirty |-> images, joined |-> joined, linked |-> linked,
   psfs |-> IF Len(images) = 1 THEN <<Psf(1, -1)>> ELSE <<Psf(1, -1), Psf(-1, 1)>>,
   threads |-> options.threads, maxIter |-> options.maxIter, keptHalves |-> options.kept,
   threshold |-> 256 * 256, majorIterThreshold |-> 0, subMinor |-> options.subMinor,
   allowNegatives |-> options.negatives # "no", stopOnNegative |-> options.negatives = "stop",
   avx |-> options.negatives \in AvxNegatives, border |-> options.border,
   mask |-> IF options.masked THEN FourByFour \ {<<1, 1>>, <<0, 0>>} ELSE FourByFour,
   rmsFactor |-> [p \in FourByFour |-> IF options.weighted /\ p[1] = 2 THEN 2 ELSE 1]]

CleanOptions ==
  [threads : {1, 3}, maxIter : {1,4}, kept : {0, 1}, subMinor : BOOLEAN, negatives : {"yes", "no", "stop"},
   border : {0, 1}, masked : BOOLEAN, weighted : BOOLEAN]

CleanedSetups ==
  {CleanSetup(<<Sky(s)>>, "channels", {}, o) : s \in Sources, o \in CleanOptions}
  \cup {CleanSetup(<<Sky(s), Sky(t)>>, joined, {}, o) :
          s \in Sources, t \in Sources, joined \in {"channels", "polarizations"},
          o \in {o \in CleanOptions : o.threads = 1 /\ o.border = 0 /\ ~o.masked}}
  \cup {CleanSetup(<<Sky(s), Sky(t)>>, "polarizations", linked, o) :
          s \in Sources, t \in Sources, linked \in LinkedPolarizations,
          o \in {o \in CleanOptions : o.threads = 1 /\ o.border = 0 /\ ~o.masked /\ ~o.weighted}}

\* A small image without flux.
BlankSetup ==
  LET blank == [p \in PixelsOf(2, 2) |-> 0]
      cleaned == CleanSetup(<<Sky(<<>>)>>, "channels", {}, CHOOSE o \in CleanOptions : TRUE)
  IN  [cleaned EXCEPT !.width = 2, !.height = 2, !.dirty = <<blank>>, !.psfs = <<blank>>, !.mask = PixelsOf(2, 2),
                    !.rmsFactor = blank]
MCCleanSetups == CleanedSetups \cup {BlankSetup}

ASSUME SubtractionIsExact == EvenSizes /\ NothingWrapsAround

-----------------------------------------------------------------------------
(* Weights *)

\* Four samples of three channels, in two output channels, two polarizations and every
\* mode; MF weights with and without reordering, joined channels without them; and a
\* superweighted grid with tapers.
UVSample(u, v, w) == [u |-> u, v |-> v, weights |-> w]
PlainWeightJob ==
  [polarizations |-> <<"XX", "YY">>, joinPolarizations |-> FALSE, joinChannels |-> FALSE, channelsOut |-> 2,
   mfWeighting |-> FALSE, reorder |-> TRUE, freqs |-> <<1, 2, 3>>, ranges |-> <<<<1, 1>>, <<2, 3>>>>,
   rows |-> <<UVSample(1, 1, [XX |-> <<1, 2, 1>>, YY |-> <<2, 2, 1>>]),
              UVSample(-3, 2, [XX |-> <<2, 3, 2>>, YY |-> <<0, 1, 2>>]),
              UVSample(2, -3, [XX |-> <<1, 1, 1>>, YY |-> <<1, 0, 3>>]),
              UVSample(2, 3, [XX |-> <<0, 2, 2>>, YY |-> <<1, 1, 1>>])>>,
   mode |-> "uniform", robustness |-> 25, width |-> 4, height |-> 4, superWeight |-> 1, weightsAsTaper |-> FALSE,
   rankLevel |-> 0, rankSize |-> 2, gaussian |-> 0, minUV |-> 0, innerTukey |-> 0, maxUV |-> 0, tukey |-> 0,
   edge |-> 0, edgeTukey |-> 0]
MCWeightJobs ==
  {[PlainWeightJob EXCEPT !.mode = m, !.mfWeighting = mf, !.joinChannels = mf, !.joinPolarizations = jp,
                          !.weightsAsTaper = t] :
     m \in {"uniform", "natural", "briggs"}, mf \in BOOLEAN, jp \in BOOLEAN, t \in BOOLEAN}
  \cup {[PlainWeightJob EXCEPT !.mode = m, !.mfWeighting = TRUE, !.reorder = FALSE] : m \in {"uniform", "briggs"}}
  \cup {[PlainWeightJob EXCEPT !.joinChannels = TRUE, !.joinPolarizations = jp] : jp \in BOOLEAN}
  \cup {[PlainWeightJob EXCEPT !.width = 8, !.superWeight = 2, !.rankLevel = r, !.gaussian = g, !.minUV = 2,
                               !.innerTukey = t, !.maxUV = 7, !.tukey = t, !.edge = 1, !.edgeTukey = t] :
           r \in {0, 1}, g \in {0, 3}, t \in {0, 2}}
Weights == INSTANCE ImageWeights WITH WeightJobs <- MCWeightJobs

-----------------------------------------------------------------------------
(* Sets of which the phase centre is moved *)

\* A set with one field, that is shifted in every way, and one with two fields of which the
\* centre is moved without a shift; three antennas, two times and two spectral windows.
Directions == {<<0, 0>>, <<1, 0>>, <<4, 2>>, <<2, 6>>}
AntennaPositions == <<<<1, 0, 1>>, <<0, 2, 1>>, <<3, 1, -1>>>>
AntennaUVW(d, t, p) == <<p[1] + t * p[2], p[2] + d[1], p[1] * d[1] + p[2] * d[2] + t * p[3]>>
ObservedRow(f, t, a1, a2, dd) ==
  [field |-> f, time |-> t, antenna1 |-> a1, antenna2 |-> a2, dataDescId |-> dd]
CallWith(options, d, c) == [options |-> options, direction |-> d, column |-> c]
SetOfOneField ==
  [rows |-> <<ObservedRow(1, 1, 1, 2, 1), ObservedRow(1, 2, 1, 3, 2)>>, phaseDir |-> <<<<0, 0>>>>,
   columns |-> {"DATA", "MODEL_DATA"}, bands |-> <<<<2, 3>>, <<5>>>>, precision |-> 2,
   uvws |-> [d \in Directions |-> [t \in {1, 2} |->
               [a \in {1, 2, 3} |-> AntennaUVW(d, t, AntennaPositions[a])]]],
   zenith |-> <<<<4, 2>>, <<2, 6>>>>, minw |-> <<2, 6>>, template |-> [direction |-> <<1, 0>>, shift |-> <<1, -1>>],
   calls |-> {CallWith({}, d, "") : d \in Directions}
     \cup {CallWith(o, <<4, 2>>, c) :
             o \in {{}, {"shiftback"}, {"f", "flipuvwsign", "shiftback"}, {"only-uvw"}}, c \in {"", "DATA"}}
     \cup {CallWith(o, <<0, 0>>, "") :
             o \in {{"minw", "shiftback"}, {"same"}, {"from-ms"}, {"from-ms", "shiftback"}, {"zenith", "flipuvwsign"}}}]
SetOfTwoFields ==
  [SetOfOneField EXCEPT
     !.phaseDir = <<<<0, 0>>, <<4, 2>>>>,
     !.rows = <<ObservedRow(1, 1, 1, 2, 1), ObservedRow(2, 1, 2, 3, 2), ObservedRow(1, 2, 1, 3, 2)>>,
     !.calls = {CallWith({}, d, "") : d \in Directions}
       \cup {CallWith(o, <<0, 0>>, "") :
               o \in {{"same"}, {"zenith"}, {"geozenith"}, {"minw", "f", "flipuvwsign"},
                      {"geozenith", "only-uvw", "flipuvwsign"}, {"show"}}}]
\* One row and one direction.
SetOfOneRow ==
  [SetOfOneField EXCEPT
     !.rows = <<ObservedRow(1, 1, 1, 2, 2)>>, !.columns = {"DATA"},
     !.uvws = [d \in {<<0, 0>>} |-> <<<<<<0, 0, 0>>, <<2, 1, 1>>>>>>],
     !.zenith = <<<<0, 0>>>>, !.minw = <<0, 0>>, !.template = [direction |-> <<0, 0>>, shift |-> <<0, 0>>],
     !.calls = {CallWith({}, <<0, 0>>, "")}]
MCPhaseCentreSets == {SetOfOneField, SetOfTwoFields, SetOfOneRow}

-----------------------------------------------------------------------------
(* Images with structures for the wavelets *)

\* Fluxes of sources in two channels: that are weak, that overlap, at an edge, that are only
\* found at the largest scale, and that are negative.
FaintSource == (<<0, 60, 200>> :> <<64, 192>>) @@ (<<1, 60, 200>> :> <<32, 96>>)
PairOfSources ==
  (<<0, 100, 90>> :> <<256, 256>>) @@ (<<0, 101, 90>> :> <<1024, 0>>) @@ (<<1, 100, 90>> :> <<640, 128>>)
  @@ (<<1, 100, 91>> :> <<640, 128>>)
SourceAtEdge == <<0, 2, 130>> :> <<832, 0>>
BroadSources == [s \in (0 .. 4) \X {200} \X {100} |-> <<448, 192>>]
NegativeSource == [s \in {0} \X {150} \X {60, 61, 62} |-> <<-256, -256>>]

\* The images are integrated over two channels with psfs 2 and 6.
SeenIn(sky, channel, psf) == [c \in DOMAIN sky |-> psf * sky[c][channel]]
IuwtJob(images, psfIndex) ==
  [width |-> 304, height |-> 272, border |-> 0, masked |-> FALSE, mask |-> {}, negative |-> FALSE,
   dirty |-> images, psfs |-> <<2, 6>>, psfIndex |-> psfIndex, sensitivity |-> <<2, 2, 2, 2, 2>>,
   nextScaleRatio |-> 1, noise |-> <<4, 3, 2, 2, 2>>, threshold |-> 64, gainPart |-> 2, mgain |-> 60,
   errors |-> {1, 2}, nIter |-> 5]
JoinedIuwtJob(sky) == IuwtJob(<<SeenIn(sky, 1, 2), SeenIn(sky, 2, 6)>>, <<1, 2>>)
MCIuwtJobs ==
  {[JoinedIuwtJob(PairOfSources @@ SourceAtEdge @@ FaintSource) EXCEPT !.border = b, !.nextScaleRatio = r] :
     b \in {0, 5}, r \in {1, 2}}
  \cup {[JoinedIuwtJob(NegativeSource @@ PairOfSources) EXCEPT !.negative = TRUE],
        [JoinedIuwtJob(PairOfSources @@ FaintSource) EXCEPT !.masked = TRUE, !.mask = {<<60, 200>>, <<100, 90>>}],
        [IuwtJob(<<SeenIn(PairOfSources, 1, 2), SeenIn(FaintSource, 1, 2), SeenIn(PairOfSources, 2, 6),
                   SeenIn(SourceAtEdge, 2, 6)>>, <<1, 1, 2, 2>>) EXCEPT !.errors = {1}],
        [IuwtJob(<<SeenIn(PairOfSources @@ FaintSource, 1, 4)>>, <<1>>) EXCEPT !.psfs = <<4>>],
        [JoinedIuwtJob(BroadSources @@ SourceAtEdge) EXCEPT !.errors = {1}, !.nIter = 12]}
Wavelets == INSTANCE IUWT WITH IuwtJobs <- MCIuwtJobs

-----------------------------------------------------------------------------
(* Rows of images for the scales *)

\* Sources that overlap, with a negative one; sidelobes differ on both sides and in both psfs.
RowOf(sources) == [p \in 0 .. 15 |-> IF p \in DOMAIN sources THEN 64 * sources[p] ELSE 0]
ExtendedSource == RowOf(5 :> 3 @@ 6 :> 5 @@ 7 :> 6 @@ 8 :> 5 @@ 9 :> 9)
MixedSources == RowOf(3 :> 9 @@ 7 :> 4 @@ 8 :> 4 @@ 9 :> 4 @@ 12 :> -5)
SourceNearEdge == RowOf(0 :> 8 @@ 1 :> 9 @@ 2 :> 8 @@ 3 :> 6 @@ 15 :> 9)
RowPsf(left, right) == [p \in 0 .. 15 |-> CASE p = 8 -> 2 [] p = 5 -> left [] p = 11 -> right [] OTHER -> 0]
Phase(threshold, trackMasks, useMasks) == [threshold |-> threshold, trackMasks |-> trackMasks, useMasks |-> useMasks]
ScaleSetup(images, fast, masking) ==
  [width |-> 16, dirty |-> images,
   psfs |-> IF Len(images) = 1 THEN <<RowPsf(1, -1)>> ELSE <<RowPsf(1, -1), RowPsf(0, 1)>>,
   manualScales |-> {}, beam |-> 1, maxScales |-> 0, bias |-> 2 :> 6 @@ 4 :> 8,
   phases |-> masking, mKept |-> 1, scaleKept |-> 3, nIter |-> 40, fastSubMinorLoop |-> fast,
   border |-> 2, mask |-> 0 .. 15, rmsFactor |-> [p \in 0 .. 15 |-> 1],
   allowNegatives |-> TRUE, stopOnNegative |-> FALSE]
AutoMasked == <<Phase(4096, TRUE, FALSE), Phase(1024, FALSE, TRUE)>>
MCScaleSetups ==
  {ScaleSetup(images, fast, masking) :
     images \in {<<ExtendedSource>>, <<MixedSources>>, <<ExtendedSource, MixedSources>>}, fast \in BOOLEAN,
     masking \in {<<Phase(1024, FALSE, FALSE)>>, AutoMasked}}
  \cup {[ScaleSetup(<<MixedSources>>, fast, <<Phase(1024, FALSE, FALSE)>>) EXCEPT
           !.manualScales = {4, 0}, !.allowNegatives = n, !.stopOnNegative = ~n,
           !.rmsFactor = [p \in 0 .. 15 |-> IF p > 6 THEN 2 ELSE 1], !.mask = {3} \cup 7 .. 12] :
         fast \in BOOLEAN, n \in BOOLEAN}
  \cup {[ScaleSetup(<<MixedSources>>, TRUE, AutoMasked) EXCEPT !.mask = {12}, !.allowNegatives = FALSE]}
  \cup {[ScaleSetup(<<SourceNearEdge>>, FALSE, AutoMasked) EXCEPT !.border = 0, !.maxScales = m, !.nIter = n,
                                                                          !.manualScales = u] :
         m \in {0, 1}, n \in {3, 40}, u \in {{}, {4}}}
Scales == INSTANCE MultiScale WITH ScaleSetups <- MCScaleSetups

-----------------------------------------------------------------------------
(* Visibilities and images of the gridders *)

\* Samples on cells and layers, anywhere between them, and at w = 0; and one sample in every
\* corner of the plane, with either sign of w.
FourierModel == [re |-> [p \in 0 .. 63 |-> (7 * p * p + 3) % 47], im |-> [p \in 0 .. 63 |-> (5 * p * p + p) % 47]]
PlainFourierJob ==
  [gridder |-> "w-stacking", width |-> 4, height |-> 4, imageWidth |-> 4, imageHeight |-> 4, trimWidth |-> 4,
   trimHeight |-> 4, mode |-> "nearest", isComplex |-> FALSE, dl |-> 0, dm |-> 0, horizon |-> 6, minW |-> 0, maxW |-> 4,
   nWLayers |-> 3, nPasses |-> 1, threads |-> 2, kernel |-> <<5, 4, 3, 2, 1>>, totalWeight |-> 3, samples |-> <<>>,
   beamBox |-> 3, model |-> FourierModel]
Visibility(u, v, w, value) == [u |-> u, v |-> v, w |-> w, value |-> value]
OnCells ==
  <<Visibility(3, -3, 2, <<3, 5>>), Visibility(-6, 3, -4, <<11, 2>>), Visibility(6, 0, 0, <<1, 7>>),
    Visibility(-6, 3, 4, <<2, 9>>)>>
OffCells ==
  <<Visibility(2, -4, 1, <<3, 5>>), Visibility(-5, 4, -4, <<11, 2>>), Visibility(1, 5, 3, <<1, 7>>),
    Visibility(0, -8, 3, <<2, 9>>)>>
Flat == <<Visibility(3, -3, 0, <<3, 5>>), Visibility(-3, 0, 0, <<11, 2>>), Visibility(0, 3, 0, <<1, 7>>)>>
MCFourierJobs ==
  {[PlainFourierJob EXCEPT !.samples = OnCells],
   [PlainFourierJob EXCEPT !.samples = OnCells, !.nPasses = 2, !.dl = 1, !.dm = -1, !.beamBox = 0],
   [PlainFourierJob EXCEPT !.samples = OffCells, !.mode = "kernel"],
   [PlainFourierJob EXCEPT !.samples = OnCells, !.isComplex = TRUE, !.nWLayers = 5, !.nPasses = 3],
   [PlainFourierJob EXCEPT !.samples = OffCells, !.isComplex = TRUE, !.mode = "kernel", !.height = 8,
                           !.imageHeight = 8, !.trimHeight = 6],
   [PlainFourierJob EXCEPT !.samples = Flat, !.imageWidth = 8, !.imageHeight = 8, !.trimWidth = 6, !.trimHeight = 6,
                           !.nWLayers = 1, !.horizon = 99],
   [PlainFourierJob EXCEPT !.samples = Flat, !.imageWidth = 8, !.isComplex = TRUE, !.horizon = 99],
   [PlainFourierJob EXCEPT !.samples = OnCells, !.height = 8, !.imageHeight = 8, !.trimHeight = 6, !.trimWidth = 2,
                           !.horizon = 9],
   [PlainFourierJob EXCEPT !.samples = OffCells, !.gridder = "direct"]}
  \cup {[PlainFourierJob EXCEPT !.samples = <<Visibility(u, v, w, <<3, 5>>)>>] :
          u \in {-6, -3, 3}, v \in {-3, 6}, w \in {-4, -2, 4}}

\* The powers of 4 + 19i modulo 47.
MCRoots ==
  FoldLeft(LAMBDA powers, k : Append(powers, <<(4 * Last(powers)[1] - 19 * Last(powers)[2]) % 47,
                                               (19 * Last(powers)[1] + 4 * Last(powers)[2]) % 47>>),
           <<<<1, 0>>>>, [k \in 1 .. 47 |-> k])
Fourier == INSTANCE FourierImaging WITH FourierJobs <- MCFourierJobs, Roots <- MCRoots

-----------------------------------------------------------------------------
(* Command lines: every option by itself, every two options that have to do with others, *)
(* every three of those that the validation relates, and lines that are wrong            *)

Samples(parser) ==
  CASE parser.kind = "text" -> {"a"} [] parser.kind = "word" -> parser.words [] OTHER -> {"3"}
PhrasesOf(o) ==
  CASE Len(o.arguments) = 0 -> {<<o.name>>}
    [] Len(o.arguments) = 1 -> {<<o.name, a>> : a \in Samples(o.arguments[1].parser)}
    [] OTHER -> {<<IF o.name = "weight briggs" THEN "weight" ELSE o.name>>
                 \o [i \in DOMAIN o.arguments |-> CHOOSE a \in Samples(o.arguments[i].parser) : TRUE]}
Related ==
  {<<"join-polarizations">>, <<"pol", "iquv">>, <<"link-polarizations", "iquv">>, <<"use-idg">>, <<"niter", "10">>,
   <<"join-channels">>, <<"channels-out", "4">>, <<"no-mf-weighting">>, <<"baseline-averaging", "1">>,
   <<"no-update-model-required">>, <<"no-reorder">>, <<"simulate-noise", "1">>, <<"save-source-list">>,
   <<"fit-spectral-pol", "2">>, <<"predict">>}
Interacting ==
  Related
  \cup {<<n>> : n \in {"negative", "no-negative", "iuwt", "small-inversion", "direct-ft", "reorder", "mf-weighting",
                       "grid-with-beam", "dry-run", "continue", "theoretic-beam", "fit-beam", "apply-primary-beam",
                       "use-wgridder"}}
  \cup {<<"padding", "2">>, <<"weight", "uniform">>, <<"weight", "briggs", "0">>, <<"super-weight", "2">>,
        <<"multiscale-shape", "tapered-quadratic">>, <<"pol", "xx,yy">>, <<"link-polarizations", "xx,yy">>,
        <<"aterm-config", "a">>, <<"aterm-kernel-size", "3">>, <<"auto-threshold", "1">>, <<"auto-mask", "3">>,
        <<"fit-spectral-log-pol", "2">>, <<"beam-size", "1">>, <<"beam-shape", "2", "1", "3">>,
        <<"restore", "a", "b", "c">>, <<"direct-ft-precision", "half">>, <<"deconvolution-channels", "2">>}
Wrong ==
  {<<>>, <<"name">>, <<"size", "3">>, <<"weight", "briggs">>, <<"weight">>, <<"version">>, <<"unknown">>, <<"weight", "x">>,
   <<"size", "x", "3">>, <<"j", "-1">>, <<"gain", "0">>, <<"pol", "x">>, <<"help">>, <<"size", "3", "3", "scale", "1">>}
Requests ==
  UNION {PhrasesOf(Options[i]) : i \in DOMAIN Options} \cup {p \o q : p \in Interacting, q \in Interacting}
  \cup {p \o q \o r : p \in Related, q \in Related, r \in Related}

\* What is accepted although an option of it is lost: the second option of a pair after the
\* first, and two that cannot both be had.  These are all requests for which the code does
\* not keep OptionsAreInForce.
Undone ==
  {<<"super-weight", "weight">>, <<"padding", "direct-ft">>, <<"small-inversion", "direct-ft">>,
   <<"small-inversion", "use-idg">>, <<"negative", "iuwt">>, <<"mf-weighting", "no-mf-weighting">>,
   <<"fit-beam", "theoretic-beam">>}
NotTogether ==
  {{"multiscale-shape", "save-source-list"}, {"direct-ft", "use-idg"}, {"direct-ft", "use-wgridder"},
   {"use-idg", "use-wgridder"}, {"baseline-averaging", "simulate-noise"}, {"predict", "restore"}}
LosesAnOption(line) ==
  \E i, j \in DOMAIN line : i < j /\ (<<line[i], line[j]>> \in Undone \/ {line[i], line[j]} \in NotTogether)
MCLines ==
  Wrong \cup {line \in {<<"size", "3", "3", "scale", "1">> \o request \o <<"a.ms">> : request \in Requests} :
                 ~LosesAnOption(line)}

-----------------------------------------------------------------------------
RoleSymmetry == Permutations(Writers) \cup Permutations(Readers)

DivisionOfImageIdle ==
  vertical = <<>> /\ horizontal = <<>> /\ visited = {} /\ subImages = <<>>

WeightsIdle ==
  /\ weightJob = 0 /\ gridded = 0 /\ providers = 0 /\ cachedWeights = 0 /\ currentWeightChannel = 0
  /\ requests = 0 /\ given = 0

CentreIdle == measurementSet = SetOfOneRow

WaveletsIdle ==
  /\ iuwtJob = 0 /\ iterCounter = 0 /\ curMinScale = 0 /\ curEndScale = 0 /\ integratedDirty = 0
  /\ dirtySet = 0 /\ modelSet = 0 /\ initialComponents = 0 /\ reachedThreshold = 0 /\ fit = 0
  /\ iuwtStage = 0

ScalesIdle ==
  /\ scaleJob = 0 /\ maskPhase = 0 /\ stage = 0 /\ iterationNumber = 0 /\ scaleInfos = 0 /\ scaleWithPeak = 0
  /\ limits = 0 /\ dirtyImages = 0 /\ modelImages = 0 /\ convolvedImages = 0 /\ subModel = 0
  /\ scaleMasks = 0 /\ componentList = 0

FourierIdle ==
  /\ fourierJob = 0 /\ fourierStep = 0 /\ fourierPass = 0 /\ fourierSample = 0 /\ uvLayers = 0
  /\ layerStack = 0 /\ threadImages = 0 /\ spectra = 0 /\ fourierImage = 0 /\ savedImage = 0
  /\ savedUV = 0 /\ predictedValues = 0 /\ restoredImage = 0

ParserIdle == commandLine = <<>> /\ argi = 0 /\ parsed = 0 /\ parseResult = "idle"

ComponentsInit ==
  /\ MSInit
  /\ IF which = "subdivision" THEN SubdivisionInit ELSE DivisionOfImageIdle
  /\ clean \in (IF which = "clean" THEN CleanedSetups ELSE {BlankSetup}) /\ MinorLoopInit
  /\ IF which = "weights" THEN Weights!WeightsInit ELSE WeightsIdle
  /\ IF which = "command line" THEN CommandLineInit ELSE ParserIdle
  /\ PhaseCentreInit /\ (which # "phase centre" => CentreIdle)
  /\ IF which = "wavelets" THEN Wavelets!IuwtInit ELSE WaveletsIdle
  /\ IF which = "scales" THEN Scales!MultiScaleInit ELSE ScalesIdle
  /\ IF which = "fourier" THEN Fourier!FourierInit ELSE FourierIdle
  /\ UVectorInit /\ AllocInit /\ Init

MeasurementSetStep ==
  /\ MSNext
  /\ UNCHANGED <<subdivisionVars, allocVars, vars, uvectorVars, minorLoopVars, weightVars,
                  commandLineVars, phaseCentreVars, iuwtVars, multiScaleVars, fourierVars>>
SubdivisionStep ==
  /\ which = "subdivision" /\ (Subdivide \/ SubdivisionDone)
  /\ UNCHANGED <<msVars, allocVars, vars, uvectorVars, minorLoopVars, weightVars, commandLineVars,
                  phaseCentreVars, iuwtVars, multiScaleVars, fourierVars>>
AllocatorStep ==
  /\ which = "allocator" /\ AllocNext
  /\ UNCHANGED <<msVars, subdivisionVars, vars, uvectorVars, minorLoopVars, weightVars, commandLineVars,
                  phaseCentreVars, iuwtVars, multiScaleVars, fourierVars>>
LaneStep ==
  /\ which = "lane" /\ Next
  /\ UNCHANGED <<msVars, subdivisionVars, allocVars, uvectorVars, minorLoopVars, weightVars,
                  commandLineVars, phaseCentreVars, iuwtVars, multiScaleVars, fourierVars>>
UVectorStep ==
  /\ which = "uvector" /\ UVectorNext
  /\ UNCHANGED <<msVars, subdivisionVars, allocVars, vars, minorLoopVars, weightVars, commandLineVars,
                  phaseCentreVars, iuwtVars, multiScaleVars, fourierVars>>
MinorLoopStep ==
  /\ which = "clean" /\ MinorLoopNext
  /\ UNCHANGED <<msVars, subdivisionVars, allocVars, vars, uvectorVars, weightVars, commandLineVars,
                  phaseCentreVars, iuwtVars, multiScaleVars, fourierVars>>
WeightsStep ==
  /\ which = "weights" /\ Weights!WeightsNext
  /\ UNCHANGED <<msVars, subdivisionVars, allocVars, vars, uvectorVars, minorLoopVars, commandLineVars,
                  phaseCentreVars, iuwtVars, multiScaleVars, fourierVars>>
ParserStep ==
  /\ which = "command line" /\ CommandLineNext
  /\ UNCHANGED <<msVars, subdivisionVars, allocVars, vars, uvectorVars, minorLoopVars, weightVars,
                  phaseCentreVars, iuwtVars, multiScaleVars, fourierVars>>
CentreStep ==
  /\ which = "phase centre" /\ PhaseCentreNext
  /\ UNCHANGED <<msVars, subdivisionVars, allocVars, vars, uvectorVars, minorLoopVars, weightVars,
                  commandLineVars, iuwtVars, multiScaleVars, fourierVars>>

WaveletsStep ==
  /\ which = "wavelets" /\ Wavelets!IuwtNext
  /\ UNCHANGED <<msVars, subdivisionVars, allocVars, vars, uvectorVars, minorLoopVars, weightVars,
                  commandLineVars, phaseCentreVars, multiScaleVars, fourierVars>>
ScalesStep ==
  /\ which = "scales" /\ Scales!MultiScaleNext
  /\ UNCHANGED <<msVars, subdivisionVars, allocVars, vars, uvectorVars, minorLoopVars, weightVars,
                  commandLineVars, phaseCentreVars, iuwtVars, fourierVars>>

FourierStep ==
  /\ which = "fourier" /\ Fourier!FourierNext
  /\ UNCHANGED <<msVars, subdivisionVars, allocVars, vars, uvectorVars, minorLoopVars, weightVars,
                  commandLineVars, phaseCentreVars, iuwtVars, multiScaleVars>>

ComponentsNext ==
  \/ MeasurementSetStep \/ SubdivisionStep \/ AllocatorStep \/ LaneStep \/ UVectorStep
  \/ MinorLoopStep \/ WeightsStep \/ ParserStep \/ CentreStep \/ WaveletsStep \/ ScalesStep
  \/ FourierStep

ComponentsSpec ==
  ComponentsInit /\ [][ComponentsNext]_<<msVars, subdivisionVars, allocVars, vars, uvectorVars, minorLoopVars, weightVars,
                                          commandLineVars, phaseCentreVars, iuwtVars, multiScaleVars, fourierVars>>

\* Weights belong to the channels of the image (ImageWeights).
WeightsFitTheirImages == which = "weights" => Weights!WeightsFitTheirImages

\* Structures are moved from residuals to models (IUWT).
StructuresMoveFlux == which = "wavelets" => Wavelets!StructuresMoveFlux

\* The components that were found explain model and images (MultiScale).
ScalesExplainImages == which = "scales" => Scales!ScalesExplainImages

\* Images are transforms of the samples, and predictions of the model (FourierImaging).
GriddersTransform == which = "fourier" => Fourier!GriddersTransform
=============================================================================
