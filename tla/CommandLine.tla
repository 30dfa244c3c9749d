---------------------------- MODULE CommandLine ----------------------------
(***************************************************************************)
(* The command line (wsclean/commandline.cpp), the settings it changes     *)
(* (wsclean/wscleansettings.h), their validation (wscleansettings.cpp) and *)
(* what is run for them.                                                   *)
(*                                                                         *)
(* Arguments and values are texts; the texts that are numbers are in       *)
(* NumberOf.  Options are written without their dash.  An option is a      *)
(* record: every argument is parsed and set in one or more fields, and     *)
(* `constants' are set whatever the arguments are.  Deprecated second      *)
(* names of options are left out, and percentages stay percentages.        *)
(***************************************************************************)
EXTENDS Integers, Sequences, FiniteSets, SequencesExt, Functions, TLC

CONSTANT Lines   \* the command lines: sequences of texts

VARIABLES
  commandLine,
  argi,         \* the position of the next option
  parsed,       \* WSCleanSettings, and the local variables of Parse
  parseResult

commandLineVars == <<commandLine, argi, parsed, parseResult>>

NumberOf ==
  "-1" :> -1 @@ "0" :> 0 @@ "1" :> 1 @@ "2" :> 2 @@ "3" :> 3 @@ "4" :> 4 @@ "7" :> 7 @@ "10" :> 10 @@ "16" :> 16
IsZero(text) == text = "0"

\* Parsers: any text, a word of a list, a number, or a number that is at least a minimum
\* (0 or 1; with a minimum of 1 standing for `larger than 0' too).
Anything == [kind |-> "text"]
OneOf(words) == [kind |-> "word", words |-> words]
AnyNumber == [kind |-> "number"]
AtLeast(minimum) == [kind |-> "bounded", minimum |-> minimum]
ParserAccepts(parser, text) ==
  CASE parser.kind = "text" -> TRUE
    [] parser.kind = "word" -> text \in parser.words
    [] parser.kind = "number" -> text \in DOMAIN NumberOf
    [] parser.kind = "bounded" -> text \in DOMAIN NumberOf /\ NumberOf[text] >= parser.minimum

Argument(fields, parser) == [fields |-> fields, parser |-> parser]
NoFields == [f \in {} |-> ""]
Option(name, arguments, constants) == [name |-> name, arguments |-> arguments, constants |-> constants]
Flag(name, field, value) == Option(name, <<>>, field :> value)
On(name, field) == Flag(name, field, "on")
Off(name, field) == Flag(name, field, "off")
Value(name, field, parser) == Option(name, <<Argument({field}, parser)>>, NoFields)
Text(name, field) == Value(name, field, Anything)
Number(name, field, minimum) == Value(name, field, AtLeast(minimum))
Word(name, field, words) == Value(name, field, OneOf(words))
TwoNumbers(name, first, second, parser) ==
  Option(name, <<Argument({first}, parser), Argument({second}, parser)>>, NoFields)
AlsoSets(option, constants) == [option EXCEPT !.constants = constants @@ @]

-----------------------------------------------------------------------------
(* The options, in the order of Parse *)

PolarizationsOf ==
  "i" :> {"I"} @@ "iquv" :> {"I", "Q", "U", "V"} @@ "xx,yy" :> {"XX", "YY"} @@ "xy" :> {"XY"}
  @@ "xx,xy,yx,yy" :> {"XX", "XY", "YX", "YY"} @@ "xy,yx" :> {"XY", "YX"} @@ "" :> {}

GeneralOptions ==
  <<Flag("quiet", "verbosity", "quiet"), Flag("verbose", "verbosity", "verbose"),
    On("log-time", "logTime"), Text("temp-dir", "temporaryDirectory"), On("save-weights", "isWeightImageSaved"),
    On("save-uv", "isUVImageSaved"), AlsoSets(Text("reuse-psf", "reusePsfPrefix"), "reusePsf" :> "on"),
    AlsoSets(Text("reuse-dirty", "reuseDirtyPrefix"), "reuseDirty" :> "on"),
    Flag("predict", "mode", "predict"), Number("predict-channels", "predictionChannels", 0),
    AlsoSets(On("continue", "continuedRun"), "makePSF" :> "on"), On("subtract-model", "subtractModel"),
    TwoNumbers("size", "trimmedImageWidth", "trimmedImageHeight", AtLeast(0)),
    Number("padding", "imagePadding", 1),
    Option("scale", <<Argument({"pixelScaleX", "pixelScaleY"}, AnyNumber)>>, NoFields),
    Number("nwlayers", "nWLayers", 0), Number("nwlayers-factor", "nWLayersFactor", 1),
    TwoNumbers("nwlayers-for-size", "widthForNWCalculation", "heightForNWCalculation", AtLeast(0))>>

CleaningOptions ==
  <<Number("gain", "deconvolutionGain", 1), Number("mgain", "deconvolutionMGain", 0),
    Number("niter", "deconvolutionIterationCount", 0), Number("nmiter", "majorIterationCount", 0),
    Value("threshold", "deconvolutionThreshold", AnyNumber),
    AlsoSets(Number("auto-threshold", "autoDeconvolutionThresholdSigma", 0), "autoDeconvolutionThreshold" :> "on"),
    AlsoSets(Number("auto-mask", "autoMaskSigma", 0), "autoMask" :> "on"),
    On("local-rms", "localRMS"), AlsoSets(Number("local-rms-window", "localRMSWindow", 1), "localRMS" :> "on"),
    AlsoSets(Text("local-rms-image", "localRMSImage"), "localRMS" :> "on"),
    AlsoSets(Word("local-rms-method", "localRMSMethod", {"rms", "rms-with-min"}), "localRMS" :> "on"),
    Text("data-column", "dataColumnName"), Word("pol", "polarizations", DOMAIN PolarizationsOf \ {""}),
    On("apply-primary-beam", "applyPrimaryBeam"), On("reuse-primary-beam", "reusePrimaryBeam"),
    On("use-differential-lofar-beam", "useDifferentialLofarBeam"), Text("mwa-path", "mwaPath"), On("dry-run", "dryRun"),
    On("save-psf-pb", "savePsfPb"), Number("pb-undersampling", "primaryBeamUndersampling", 0)>>

ComponentOptions ==
  <<On("negative", "allowNegativeComponents"), Off("no-negative", "allowNegativeComponents"),
    On("stop-negative", "stopOnNegativeComponents"),
    AlsoSets(On("iuwt", "useIUWTDeconvolution"), "allowNegativeComponents" :> "off"),
    On("iuwt-snr-test", "iuwtSNRTest"), Off("no-iuwt-snr-test", "iuwtSNRTest"),
    AlsoSets(Text("moresane-ext", "moreSaneLocation"), "useMoreSaneDeconvolution" :> "on"),
    Text("moresane-arg", "moreSaneArgs"), Text("moresane-sl", "moreSaneSigmaLevels"), On("make-psf", "makePSF"),
    On("make-psf-only", "makePSFOnly"), Text("name", "prefixName"),
    Word("grid-mode", "gridMode", {"kb", "bn", "bh", "gaus", "rect", "kb-no-sinc", "nn"}),
    On("small-inversion", "smallInversion"), Off("no-small-inversion", "smallInversion")>>

\* intervals-out is read by atoi, which makes 0 of a text that is not a number.
SelectionOptions ==
  <<TwoNumbers("interval", "startTimestep", "endTimestep", AtLeast(0)), Text("intervals-out", "intervalsOut"),
    Flag("even-timesteps", "evenOddTimesteps", "even"),
    Flag("odd-timesteps", "evenOddTimesteps", "odd"),
    TwoNumbers("channel-range", "startChannel", "endChannel", AtLeast(0)),
    Number("channels-out", "channelsOut", 0), On("gap-channel-division", "divideChannelsByGaps"),
    Text("channel-division-frequencies", "divideChannelFrequencies"),
    On("join-polarizations", "joinedPolarizationCleaning"),
    AlsoSets(Word("link-polarizations", "linkedPolarizations", DOMAIN PolarizationsOf \ {""}),
         "joinedPolarizationCleaning" :> "on"),
    On("join-channels", "joinedFrequencyCleaning"), On("mf-weighting", "mfWeightingGiven"),
    On("no-mf-weighting", "noMFWeighting"),
    Option("spectral-correction", <<Argument({"spectralCorrectionFrequency"}, AtLeast(1)),
                                    Argument({"spectralCorrection"}, Anything)>>, NoFields),
    Value("taper-gaussian", "gaussianTaperBeamSize", AnyNumber),
    Number("taper-edge", "edgeTaperInLambda", 0), Number("taper-edge-tukey", "edgeTukeyTaperInLambda", 0),
    Number("taper-tukey", "tukeyTaperInLambda", 0), Number("taper-inner-tukey", "tukeyInnerTaperInLambda", 0),
    On("use-weights-as-taper", "useWeightsAsTaper"), On("store-imaging-weights", "writeImagingWeightSpectrumColumn")>>

MultiscaleOptions ==
  <<Off("no-fast-subminor", "useSubMinorOptimization"), On("multiscale", "useMultiscale"),
    Number("multiscale-gain", "multiscaleGain", 1),
    Number("multiscale-scale-bias", "multiscaleDeconvolutionScaleBias", 1),
    Number("multiscale-max-scales", "multiscaleMaxScales", 0), Text("multiscale-scales", "multiscaleScaleList"),
    Word("multiscale-shape", "multiscaleShapeFunction", {"tapered-quadratic", "gaussian"}),
    Number("multiscale-convolution-padding", "multiscaleConvolutionPadding", 1),
    Off("no-multiscale-fast-subminor", "multiscaleFastSubMinorLoop"),
    Number("weighting-rank-filter", "rankFilterLevel", 0), Number("weighting-rank-filter-size", "rankFilterSize", 0),
    AlsoSets(On("save-source-list", "saveSourceList"), "multiscaleShapeFunction" :> "gaussian"),
    Number("clean-border", "deconvolutionBorderRatio", 0), Text("fits-mask", "fitsDeconvolutionMask"),
    Text("casa-mask", "casaDeconvolutionMask"),
    AlsoSets(Value("horizon-mask", "horizonMaskDistance", AnyNumber), "horizonMask" :> "on"),
    AlsoSets(Number("fit-spectral-pol", "spectralFittingTerms", 0), "spectralFittingMode" :> "polynomial"),
    AlsoSets(Number("fit-spectral-log-pol", "spectralFittingTerms", 0), "spectralFittingMode" :> "log polynomial"),
    Number("deconvolution-channels", "deconvolutionChannelCount", 0), On("squared-channel-joining", "squaredJoins"),
    Number("parallel-deconvolution", "parallelDeconvolutionMaxSize", 0), Text("field", "fieldIds"),
    Text("spws", "spectralWindows")>>

\* Every weighting mode is a WeightMode of its own, without super weight; briggs has a
\* second argument, for which it is an option of its own here.
WeightAndBeamOptions ==
  <<AlsoSets(Word("weight", "weightMode", {"natural", "uniform"}), "superWeight" :> "1" @@ "briggsRobustness" :> "0"),
    Option("weight briggs", <<Argument({"weightMode"}, OneOf({"briggs"})), Argument({"briggsRobustness"}, AnyNumber)>>,
           "superWeight" :> "1"),
    Number("super-weight", "superWeight", 0),
    AlsoSets(Option("restore",
                    [i \in 1 .. 3 |-> Argument({<<"restoreInput", "restoreModel", "restoreOutput">>[i]}, Anything)],
                    NoFields), "mode" :> "restore"),
    Option("beam-size", <<Argument({"manualBeamMajorSize", "manualBeamMinorSize"}, AnyNumber)>>, "manualBeamPA" :> "0"),
    Option("beam-shape", [i \in 1 .. 3 |->
             Argument({<<"manualBeamMajorSize", "manualBeamMinorSize", "manualBeamPA">>[i]}, AnyNumber)], NoFields),
    On("fit-beam", "fittedBeam"), Off("no-fit-beam", "fittedBeam"),
    Number("beam-fitting-size", "beamFittingBoxSize", 1),
    AlsoSets(On("theoretic-beam", "theoreticBeam"), "fittedBeam" :> "off"), On("circular-beam", "circularBeam"),
    Off("elliptical-beam", "circularBeam"), Number("kernel-size", "antialiasingKernelSize", 0),
    Number("oversampling", "overSamplingFactor", 0), AlsoSets(On("reorder", "forceReorder"), "forceNoReorder" :> "off"),
    AlsoSets(On("no-reorder", "forceNoReorder"), "forceReorder" :> "off"),
    On("update-model-required", "modelUpdateRequired"), Off("no-update-model-required", "modelUpdateRequired")>>

ResourceOptions ==
  <<Number("j", "threadCount", 0), Number("parallel-reordering", "parallelReordering", 0),
    Number("parallel-gridding", "parallelGridding", 0), Number("mem", "memFraction", 1),
    Number("abs-mem", "absMemLimit", 1), On("direct-allocation", "directAllocation"),
    Number("maxuvw-m", "maxUVWInMeters", 1), Number("minuvw-m", "minUVWInMeters", 0),
    Number("maxuv-l", "maxUVInLambda", 1), Number("minuv-l", "minUVInLambda", 0), Number("maxw", "wLimit", 0),
    Number("baseline-averaging", "baselineDependentAveragingInWavelengths", 1),
    AlsoSets(Number("simulate-noise", "simulatedNoiseStdDev", 0), "simulateNoise" :> "on")>>

GridderOptions ==
  <<Text("aterm-config", "atermConfigFilename"), On("grid-with-beam", "gridWithBeam"),
    Option("beam-aterm-update", <<Argument({"beamAtermUpdateTime", "primaryBeamUpdateTime"}, AtLeast(0))>>, NoFields),
    Number("aterm-kernel-size", "atermKernelSizeGiven", 0),
    On("save-aterms", "saveATerms"),
    Word("visibility-weighting-mode", "visibilityWeightingMode", {"normal", "squared", "unit"}),
    AlsoSets(On("direct-ft", "directFT"), "imagePadding" :> "1" @@ "smallInversion" :> "off"),
    Word("direct-ft-precision", "directFTPrecision", {"half", "float", "double", "ldouble"}),
    AlsoSets(On("use-idg", "useIDG"), "smallInversion" :> "off"),
    Word("idg-mode", "idgMode", {"cpu", "gpu", "hybrid"}), On("use-wgridder", "useWGridder"),
    Off("no-dirty", "isDirtySaved"), On("save-first-residual", "isFirstResidualSaved")>>

Options ==
  FlattenSeq(<<GeneralOptions, CleaningOptions, ComponentOptions, SelectionOptions, MultiscaleOptions,
               WeightAndBeamOptions, ResourceOptions, GridderOptions>>)
OptionTable ==
  [name \in {Options[i].name : i \in DOMAIN Options} |-> Options[CHOOSE i \in DOMAIN Options : Options[i].name = name]]
Stops == {"version", "help"}
\* The texts that start with a dash.
IsOption(text) == text \in DOMAIN OptionTable \cup Stops \cup {"unknown"}

-----------------------------------------------------------------------------
(* The settings *)

FieldsOf(option) == DOMAIN option.constants \cup UNION {a.fields : a \in Range(option.arguments)}
Settings == UNION {FieldsOf(option) : option \in Range(OptionTable)}
Switches ==
  {f \in Settings : \E o \in Range(OptionTable) : f \in DOMAIN o.constants /\ o.constants[f] \in {"on", "off"}}
Texts == {f \in Settings : \E o \in Range(OptionTable) : \E a \in Range(o.arguments) :
                              f \in a.fields /\ a.parser.kind \in {"text", "word"}}
OnByDefault ==
  {"fittedBeam", "smallInversion", "isDirtySaved", "modelUpdateRequired", "allowNegativeComponents",
   "useSubMinorOptimization", "multiscaleFastSubMinorLoop"}
OtherDefaults ==
  "mode" :> "imaging" @@ "verbosity" :> "normal" @@ "imagePadding" :> "1.2" @@ "channelsOut" :> "1"
  @@ "intervalsOut" :> "1"
  @@ "evenOddTimesteps" :> "all" @@ "beamFittingBoxSize" :> "10" @@ "memFraction" :> "100" @@ "rankFilterLevel" :> "3"
  @@ "rankFilterSize" :> "16" @@ "nWLayersFactor" :> "1" @@ "antialiasingKernelSize" :> "7"
  @@ "overSamplingFactor" :> "1023" @@ "threadCount" :> "processors" @@ "parallelReordering" :> "1"
  @@ "parallelGridding" :> "1" @@ "fieldIds" :> "0" @@ "polarizations" :> "i" @@ "weightMode" :> "uniform"
  @@ "superWeight" :> "1" @@ "briggsRobustness" :> "0" @@ "prefixName" :> "wsclean" @@ "primaryBeamUndersampling" :> "8"
  @@ "primaryBeamUpdateTime" :> "1800" @@ "directFTPrecision" :> "double" @@ "beamAtermUpdateTime" :> "300"
  @@ "idgMode" :> "default" @@ "gridMode" :> "kb" @@ "visibilityWeightingMode" :> "normal"
  @@ "deconvolutionGain" :> "0.1"
  @@ "deconvolutionMGain" :> "1" @@ "localRMSWindow" :> "25" @@ "localRMSMethod" :> "rms"
  @@ "majorIterationCount" :> "20"
  @@ "multiscaleGain" :> "0.2" @@ "multiscaleDeconvolutionScaleBias" :> "0.6" @@ "multiscaleConvolutionPadding" :> "1.1"
  @@ "multiscaleShapeFunction" :> "tapered-quadratic" @@ "spectralFittingMode" :> "none" @@ "atermKernelSizeGiven" :> ""
Default ==
  [f \in Settings |-> IF f \in DOMAIN OtherDefaults THEN OtherDefaults[f] ELSE IF f \in OnByDefault THEN "on"
                       ELSE IF f \in Switches THEN "off" ELSE IF f \in Texts THEN "" ELSE "0"]
IsOn(field) == parsed[field] = "on"

-----------------------------------------------------------------------------
(* Parse *)

CommandLineInit ==
  /\ commandLine \in Lines
  /\ argi = 1 /\ parsed = Default /\ parseResult = "parsing"

Assigned(settings, option, texts) ==
  [f \in DOMAIN settings |->
     IF f \in DOMAIN option.constants THEN option.constants[f]
     ELSE IF \E i \in DOMAIN option.arguments : f \in option.arguments[i].fields
     THEN texts[CHOOSE i \in DOMAIN option.arguments : f \in option.arguments[i].fields]
     ELSE settings[f]]

\* Behind the last argument there is a null pointer, which is used as a text all the same.
ParseKnown(option) ==
  LET n == Len(option.arguments)
      texts == SubSeq(commandLine, argi + 1, argi + n)
  IN  IF argi + n > Len(commandLine) THEN parseResult' = "undefined" /\ UNCHANGED <<argi, parsed>>
      ELSE IF \E i \in 1 .. n : ~ParserAccepts(option.arguments[i].parser, texts[i])
      THEN parseResult' = "error" /\ UNCHANGED <<argi, parsed>>
      ELSE /\ parsed' = Assigned(parsed, option, texts)
           /\ argi' = argi + n + 1 /\ UNCHANGED parseResult

NextIsOption == argi <= Len(commandLine) /\ IsOption(commandLine[argi])
ParseOption ==
  /\ parseResult = "parsing" /\ NextIsOption
  /\ CASE commandLine[argi] \in Stops -> parseResult' = "stopped" /\ UNCHANGED <<argi, parsed>>
       [] commandLine[argi] = "unknown" -> parseResult' = "error" /\ UNCHANGED <<argi, parsed>>
       [] commandLine[argi] = "weight" /\ argi < Len(commandLine) /\ commandLine[argi + 1] = "briggs" ->
            ParseKnown(OptionTable["weight briggs"])
       [] OTHER -> ParseKnown(OptionTable[commandLine[argi]])
  /\ UNCHANGED commandLine

Imaged(settings) == PolarizationsOf[settings["polarizations"]]

\* checkPolarizations
ValidPolarizations(s) ==
  LET imaged == Imaged(s)
      joined == s["joinedPolarizationCleaning"] = "on"
  IN  /\ joined => Cardinality(imaged) # 1
      /\ ~joined /\ ~IsZero(s["deconvolutionIterationCount"]) => imaged \cap {"XY", "YX"} = {}
      /\ PolarizationsOf[s["linkedPolarizations"]] \subseteq imaged
      /\ "XY" \in imaged <=> "YX" \in imaged
      /\ s["spectralFittingMode"] # "none" => ~joined /\ s["joinedFrequencyCleaning"] = "on"
      /\ s["autoDeconvolutionThreshold"] = "on" /\ s["autoMask"] = "on" =>
           NumberOf[s["autoDeconvolutionThresholdSigma"]] < NumberOf[s["autoMaskSigma"]]

ValidIDG(s) ==
  /\ Imaged(s) \in {{"I"}, {"I", "Q", "U", "V"}}
  /\ Imaged(s) # {"I"} /\ ~IsZero(s["deconvolutionIterationCount"]) => s["joinedPolarizationCleaning"] = "on"
  /\ s["trimmedImageWidth"] = s["trimmedImageHeight"] /\ s["parallelGridding"] = "1"

Validate(s) ==
  LET Is(field) == s[field] = "on"
      isCorrected == Is("gridWithBeam") \/ Is("applyPrimaryBeam")
      isAveraged == ~IsZero(s["baselineDependentAveragingInWavelengths"])
  IN  /\ s["mode"] = "imaging" =>
           \A f \in {"trimmedImageWidth", "trimmedImageHeight", "pixelScaleX", "pixelScaleY"} : ~IsZero(s[f])
      /\ NumberOf[s["antialiasingKernelSize"]] % 2 = 1
      /\ Is("useIDG") => ValidIDG(s)
      /\ Is("gridWithBeam") => Is("useIDG") /\ ~Is("applyPrimaryBeam") /\ s["atermConfigFilename"] = ""
      /\ Is("useDifferentialLofarBeam") \/ Is("savePsfPb") => isCorrected
      /\ isAveraged => ~Is("forceNoReorder") /\ ~Is("modelUpdateRequired")
      /\ Is("simulateNoise") => ~Is("forceNoReorder")
      /\ ~IsZero(s["channelsOut"])
      /\ Is("joinedFrequencyCleaning") => s["channelsOut"] # "1"
      /\ ~(Is("forceReorder") /\ Is("forceNoReorder"))
      /\ s["deconvolutionChannelCount"] \in {"0", s["channelsOut"]} \/ s["spectralFittingMode"] # "none"
      /\ Is("saveSourceList") => Imaged(s) = {"I"} /\ ~IsZero(s["deconvolutionIterationCount"])
      /\ ValidPolarizations(s)

\* Settings that depend on others are set when all options are known.
PolarizationsToLink(s) ==
  IF s["joinedPolarizationCleaning"] = "on" /\ s["linkedPolarizations"] = "" THEN s["polarizations"]
  ELSE s["linkedPolarizations"]
MFWeighting(s) ==
  IF (s["joinedFrequencyCleaning"] = "on" /\ s["noMFWeighting"] = "off") \/ s["mfWeightingGiven"] = "on"
  THEN "on" ELSE "off"
ATermKernelSize(s) ==
  IF s["atermKernelSizeGiven"] # "" THEN s["atermKernelSizeGiven"]
  ELSE IF s["atermConfigFilename"] = "" THEN "5" ELSE "16"

FinishParsing ==
  /\ parseResult = "parsing" /\ ~NextIsOption
  /\ parsed' = "mfWeighting" :> MFWeighting(parsed) @@ "atermKernelSize" :> ATermKernelSize(parsed)
                @@ "linkedPolarizations" :> PolarizationsToLink(parsed) @@ parsed
  /\ parseResult' =
       IF commandLine = <<>> THEN "stopped"
       ELSE IF argi > Len(commandLine) /\ parsed["mode"] # "restore" THEN "error"
       ELSE IF ~Validate(parsed') THEN "error"
       ELSE IF IsOn("dryRun") THEN "dry run" ELSE "ready"
  /\ UNCHANGED <<commandLine, argi>>

-----------------------------------------------------------------------------
(* Run *)

PreferReorderingOfChannels(s) ==   \* mutant
  s["forceNoReorder"] = "off" /\ (s["channelsOut"] # "1" \/ Cardinality(Imaged(s)) >= 4 \/ s["forceReorder"] = "on")
PreferReordering(s) ==
  /\ s["forceNoReorder"] = "off"
  /\ \/ s["channelsOut"] # "1" \/ Cardinality(Imaged(s)) >= 4 \/ s["deconvolutionMGain"] # "1"
     \/ ~IsZero(s["baselineDependentAveragingInWavelengths"]) \/ s["simulateNoise"] = "on" \/ s["forceReorder"] = "on"

\* How the rows of a set are read; "none" when that is not possible.
RowProvider(s) ==
  IF ~PreferReordering(s) THEN "direct"
  ELSE IF IsZero(s["baselineDependentAveragingInWavelengths"])
  THEN IF s["simulateNoise"] = "on" THEN "noise" ELSE "direct"
  ELSE IF s["subtractModel"] = "on" \/ s["continuedRun"] = "on" THEN "none" ELSE "averaging"

Gridder(s) ==
  IF s["useIDG"] = "on" THEN "idg" ELSE IF s["useWGridder"] = "on" THEN "wgridder"
  ELSE IF s["directFT"] = "off" THEN "w-stacking"
  ELSE IF s["directFTPrecision"] = "half" THEN "none" ELSE "direct"

CannotRun(s) ==
  \/ RowProvider(s) = "none" \/ Gridder(s) = "none"
  \/ s["mode"] = "predict" /\ (s["joinedFrequencyCleaning"] = "on" \/ s["joinedPolarizationCleaning"] = "on")

RunMode ==
  /\ parseResult = "ready"
  /\ parseResult' = IF parsed["mode"] # "restore" /\ CannotRun(parsed) THEN "error" ELSE parsed["mode"]
  /\ UNCHANGED <<commandLine, argi, parsed>>

CommandLineNext == ParseOption \/ FinishParsing \/ RunMode

-----------------------------------------------------------------------------
(* Properties *)

\* Options that the help gives as opposites or as forms of one another: the last one counts.
Variants ==
  {{"negative", "no-negative"}, {"small-inversion", "no-small-inversion"}, {"weight", "weight briggs"},
   {"beam-size", "beam-shape"}, {"fit-beam", "no-fit-beam"}, {"circular-beam", "elliptical-beam"},
   {"reorder", "no-reorder"}, {"update-model-required", "no-update-model-required"}, {"quiet", "verbose"},
   {"fit-spectral-pol", "fit-spectral-log-pol"}, {"iuwt-snr-test", "no-iuwt-snr-test"}}

\* What options set without the help saying so: nobody who gives them asks for it.
SideEffects ==
  "weight" :> {"superWeight"} @@ "weight briggs" :> {"superWeight"} @@ "iuwt" :> {"allowNegativeComponents"}
  @@ "direct-ft" :> {"imagePadding", "smallInversion"} @@ "use-idg" :> {"smallInversion"}
  @@ "theoretic-beam" :> {"fittedBeam"}
AskedBy(name) == FieldsOf(OptionTable[name]) \ (IF name \in DOMAIN SideEffects THEN SideEffects[name] ELSE {})
AreVariants(one, other) == one = other \/ \E group \in Variants : {one, other} \subseteq group

GridderOf == "direct-ft" :> "direct" @@ "use-idg" :> "idg" @@ "use-wgridder" :> "wgridder"
RowsFor == "baseline-averaging" :> "averaging" @@ "simulate-noise" :> "noise"

\* The positions of the options of a line.
OptionAt(i) ==
  IF commandLine[i] = "weight" /\ commandLine[i + 1] = "briggs" THEN "weight briggs" ELSE commandLine[i]
Positions == {i \in 1 .. argi - 1 : IsOption(commandLine[i])}
ValueFrom(i, f) == Assigned(Default, OptionTable[OptionAt(i)], SubSeq(commandLine, i + 1, Len(commandLine)))[f]

\* What is accepted is in force: what an option is given for keeps its value, unless the
\* option or a variant of it follows; no other option undoes it, by a side effect or
\* otherwise.  Every field has its default or comes from an option that was given.  What is
\* decided after parsing follows from what was given: weighting, links and the kernel of
\* a-terms, whether anything is run, and the gridder and the rows that options ask for.
OptionsAreInForce ==
  parseResult \in {"dry run", "ready", "imaging", "predict", "restore"} =>
    /\ \A i \in Positions : \A f \in AskedBy(OptionAt(i)) :
         \/ parsed[f] = ValueFrom(i, f)
         \/ \E j \in Positions : j > i /\ f \in AskedBy(OptionAt(j)) /\ AreVariants(OptionAt(i), OptionAt(j))
    /\ \A f \in Settings \ {"linkedPolarizations"} :
         LET setters == {i \in Positions : f \in FieldsOf(OptionTable[OptionAt(i)])}
         IN  IF setters = {} THEN parsed[f] = Default[f] ELSE \E i \in setters : parsed[f] = ValueFrom(i, f)
    /\ LET given == {OptionAt(i) : i \in Positions}
           aboutMF == {i \in Positions : OptionAt(i) \in {"mf-weighting", "no-mf-weighting"}}
       IN
       /\ parsed["mfWeighting"] = "on" <=>
            IF aboutMF = {} THEN "join-channels" \in given ELSE OptionAt(Max(aboutMF)) = "mf-weighting"
       /\ "link-polarizations" \notin given =>
            parsed["linkedPolarizations"] = IF "join-polarizations" \in given THEN parsed["polarizations"] ELSE ""
       /\ "aterm-kernel-size" \notin given =>
            (parsed["atermKernelSize"] = "16" <=> "aterm-config" \in given)
       /\ parseResult = "dry run" <=> "dry-run" \in given
       /\ parseResult \in {"imaging", "predict"} =>
            /\ \A o \in given \cap DOMAIN GridderOf : Gridder(parsed) = GridderOf[o]
            /\ \A o \in given \cap DOMAIN RowsFor : RowProvider(parsed) = RowsFor[o]
=============================================================================
