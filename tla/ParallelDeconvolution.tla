------------------------ MODULE ParallelDeconvolution ------------------------
(***************************************************************************)
(* The major cleaning iterations with -multiscale, -auto-mask, -local-rms, *)
(* -save-source-list and -parallel-deconvolution: Deconvolution::Perform,  *)
(* ParallelDeconvolution (executeParallelRun, runSubImage) and the state   *)
(* that a MultiScaleAlgorithm keeps from one iteration to the next.        *)
(*                                                                         *)
(* An iteration divides the image anew and runs over the subimages twice,  *)
(* first to find the highest peak and then to clean.  Subimages run        *)
(* concurrently, in any order and number at a time; what they share is     *)
(* protected by one mutex that each takes several times, and every action  *)
(* below is one critical section with the local work after it.             *)
(*                                                                         *)
(* Every pixel has bright flux, above the threshold of the first phase,    *)
(* and faint flux.  A component is one of both, found at some scale; what  *)
(* is left to clean follows from the model.  Positions are those in the    *)
(* full image.                                                             *)
(***************************************************************************)
EXTENDS Integers, Sequences, FiniteSetsExt

CONSTANTS
  Pixels,
  SubImages,              \* indices of the subimages, and of _algorithms
  Subdivisions,           \* mask and box of every subimage, for each way to divide
  MaxScales,              \* -multiscale-max-scales
  MajorIterationCount,    \* -nmiter
  MaxGroups,              \* bound: groups that are imaged one after another
  MaxInherited            \* bound: components found before the next group begins

\* What an algorithm has when it holds no component list or RMS image.
NoList == [box |-> {}, components |-> {}]
NoImage == {}

Components == [pixel : Pixels, scale : 1 .. MaxScales, flux : {"bright", "faint"}]
SameFlux(c, d) == c.pixel = d.pixel /\ c.flux = d.flux
PixelsAt(C, i) == {c.pixel : c \in {d \in C : d.scale = i}}

\* What Subdivision promises, apart from the box that is too small.
ASSUME SubdivisionsAssumption ==
  \A d \in Subdivisions :
    /\ d \in [SubImages -> [mask : SUBSET Pixels, box : SUBSET Pixels]]
    /\ \A s \in SubImages : d[s].box # {} /\ d[s].mask \subseteq d[s].box
    /\ \A s, t \in SubImages : s # t => d[s].mask \cap d[t].mask = {}

ASSUME BoundsAssumption ==
  /\ IsFiniteSet(Pixels)
  /\ MaxScales \in Nat \ {0} /\ MajorIterationCount \in Nat \ {0} /\ MaxGroups \in Nat \ {0}

VARIABLES
  group, iteration,       \* which group, and its major iteration
  autoMaskIsFinished,     \* second phase: clean deeper, inside the masks
  usePerScaleMasks,       \* set for the iteration; _trackPerScaleMasks is its negation
  pass,                   \* where executeParallelRun is
  subdivision,            \* of this iteration
  pc,                     \* where runSubImage is, per subimage
  rmsImage,               \* whether _rmsImage is set
  scaleMasks,             \* _scaleMasks: the pixels in the mask of each scale
  componentList,          \* _componentList: how often each component is in it
  model,                  \* the components in the model image
  subModel,               \* per subimage: the part of the model it works on
  scaleCount,             \* per algorithm: ScaleCount()
  algMasks,               \* per algorithm: its scale masks, with the box they are made for
  algList,                \* per algorithm: its component list, with the box it is made for
  algRms,                 \* per algorithm: box of its RMS image
  inherited               \* history: scaleMasks and componentList as the group began

shared == <<group, iteration, autoMaskIsFinished, usePerScaleMasks, pass, subdivision, rmsImage, inherited>>
algorithms == <<scaleCount, algMasks, algList, algRms>>
deconvolutionVars == <<shared, pc, scaleMasks, componentList, model, subModel, algorithms>>

Mask(s) == subdivision[s].mask
Box(s) == subdivision[s].box

\* In the models here one more scale fits with every pixel that a box is larger.
Fits(box) == Min({MaxScales, Cardinality(box)})

NewAlgorithms ==
  [count |-> [s \in SubImages |-> 0], masks |-> [s \in SubImages |-> <<>>],
   list |-> [s \in SubImages |-> NoList], rms |-> [s \in SubImages |-> NoImage]]

DeconvolutionInit ==
  /\ group = 1 /\ iteration = 1
  /\ autoMaskIsFinished = FALSE /\ usePerScaleMasks = FALSE
  /\ pass = "next iteration"
  /\ subdivision \in Subdivisions
  /\ pc = [s \in SubImages |-> "done"]
  /\ rmsImage = FALSE
  /\ scaleMasks = <<>>
  /\ componentList = [c \in Components |-> 0]
  /\ model = {}
  /\ subModel = [s \in SubImages |-> {}]
  /\ scaleCount = NewAlgorithms.count /\ algMasks = NewAlgorithms.masks
  /\ algList = NewAlgorithms.list /\ algRms = NewAlgorithms.rms
  /\ inherited = [masks |-> scaleMasks, list |-> componentList]

(***************************************************************************)
(* Deconvolution::Perform and executeParallelRun.                          *)
(***************************************************************************)
Perform ==
  /\ pass = "next iteration"
  /\ pass' = "find peak"
  /\ usePerScaleMasks' = autoMaskIsFinished
  /\ rmsImage' = ~autoMaskIsFinished
  /\ subdivision' \in Subdivisions
  /\ pc' = [s \in SubImages |-> "start"]
  /\ UNCHANGED <<group, iteration, autoMaskIsFinished, inherited, scaleMasks, componentList,
                 model, subModel, algorithms>>

AllDone == \A s \in SubImages : pc[s] = "done"

RmsBetweenLoops == rmsImage

RunDeconvolution ==
  /\ pass = "find peak" /\ AllDone
  /\ pass' = "clean"
  /\ rmsImage' = RmsBetweenLoops
  /\ pc' = [s \in SubImages |-> "start"]
  /\ UNCHANGED <<group, iteration, autoMaskIsFinished, usePerScaleMasks, subdivision, inherited,
                 scaleMasks, componentList, model, subModel, algorithms>>

\* Whether a subimage reached the threshold of this iteration is left open.
FinishIteration(reachedMajorThreshold) ==
  /\ pass = "clean" /\ AllDone
  /\ rmsImage' = FALSE
  /\ autoMaskIsFinished' = (autoMaskIsFinished \/ ~reachedMajorThreshold)
  /\ IF (reachedMajorThreshold \/ ~autoMaskIsFinished) /\ iteration < MajorIterationCount
     THEN pass' = "next iteration" /\ iteration' = iteration + 1
     ELSE pass' = "ended" /\ UNCHANGED iteration
  /\ UNCHANGED <<group, usePerScaleMasks, subdivision, inherited, pc, scaleMasks, componentList,
                 model, subModel, algorithms>>

\* FreeDeconvolutionAlgorithms, and InitializeDeconvolutionAlgorithm for the next
\* group: _scaleMasks and _componentList stay as they are.
InitializeDeconvolutionAlgorithm ==
  /\ pass = "ended" /\ group < MaxGroups
  /\ Cardinality({c \in Components : componentList[c] # 0}) <= MaxInherited
  /\ pass' = "next iteration"
  /\ group' = group + 1 /\ iteration' = 1
  /\ autoMaskIsFinished' = FALSE
  /\ scaleCount' = NewAlgorithms.count /\ algMasks' = NewAlgorithms.masks
  /\ algList' = NewAlgorithms.list /\ algRms' = NewAlgorithms.rms
  /\ model' = {}
  /\ inherited' = [masks |-> scaleMasks, list |-> componentList]
  /\ UNCHANGED <<usePerScaleMasks, subdivision, pc, rmsImage, scaleMasks, componentList, subModel>>

(***************************************************************************)
(* ParallelDeconvolution::runSubImage.                                     *)
(***************************************************************************)
Trim(s) ==
  /\ pc[s] = "start"
  /\ pc' = [pc EXCEPT ![s] = "trimmed"]
  /\ subModel' = [subModel EXCEPT ![s] = {c \in model : c.pixel \in Box(s)}]
  /\ algRms' = [algRms EXCEPT ![s] = IF rmsImage THEN Box(s) ELSE @]
  /\ UNCHANGED <<shared, scaleMasks, componentList, model, scaleCount, algMasks, algList>>

SetScaleMasks(s) ==
  /\ pc[s] = "trimmed"
  /\ pc' = [pc EXCEPT ![s] = "ready"]
  /\ algMasks' = [algMasks EXCEPT ![s] =
       IF scaleMasks = <<>> THEN @
       ELSE [i \in 1 .. Max({Len(@), Len(scaleMasks)}) |->
               [box |-> Box(s),
                pixels |-> IF i <= Len(scaleMasks) THEN scaleMasks[i] \cap Box(s) ELSE {}]]]
  /\ UNCHANGED <<shared, scaleMasks, componentList, model, subModel, scaleCount, algList, algRms>>

(***************************************************************************)
(* MultiScaleAlgorithm::ExecuteMajorIteration.                             *)
(***************************************************************************)
ScalesFor(s) ==
  IF scaleCount[s] = 0 THEN Fits(Box(s)) ELSE Min({scaleCount[s], Fits(Box(s))})

WithEmptyMasks(masks, s) ==
  [i \in 1 .. Max({Len(masks), ScalesFor(s)}) |->
     IF i <= Len(masks) THEN masks[i] ELSE [box |-> Box(s), pixels |-> {}]]

WithComponents(masks, C) ==
  [i \in DOMAIN masks |-> [masks[i] EXCEPT !.pixels = @ \cup PixelsAt(C, i)]]

\* The sets of components that may be found, each for flux that is left: first
\* bright ones inside the mask of the subimage, later inside the scales' masks.
CleanMask(s, i) == IF usePerScaleMasks THEN algMasks[s][i].pixels ELSE Mask(s)
Findable(s) ==
  IF pass = "find peak" THEN {{}}     \* with SetMaxNIter(0)
  ELSE {C \in SUBSET {c \in Components : /\ c.scale <= ScalesFor(s)
                                         /\ c.pixel \in CleanMask(s, c.scale)
                                         /\ usePerScaleMasks \/ c.flux = "bright"
                                         /\ ~\E d \in subModel[s] : SameFlux(c, d)} :
          \A c, d \in C : SameFlux(c, d) => c = d}

ExecuteMajorIteration(s) ==
  /\ pc[s] = "ready"
  /\ pc' = [pc EXCEPT ![s] = IF usePerScaleMasks THEN "masks saved" ELSE "executed"]
  /\ scaleCount' = [scaleCount EXCEPT ![s] = ScalesFor(s)]
  /\ algRms' = [algRms EXCEPT ![s] = NoImage]
  /\ \E C \in Findable(s) :
       /\ algMasks' = [algMasks EXCEPT ![s] =
            IF usePerScaleMasks THEN @ ELSE WithComponents(WithEmptyMasks(@, s), C)]
       /\ algList' = [algList EXCEPT ![s] =
            IF @ = NoList THEN [box |-> Box(s), components |-> C]
            ELSE [box |-> @.box, components |-> @.components \cup C]]
       /\ subModel' = [subModel EXCEPT ![s] = @ \cup C]
  /\ UNCHANGED <<shared, scaleMasks, componentList, model>>

(***************************************************************************)
(* The rest of runSubImage: Image::CopyMasked writes a subimage back.      *)
(***************************************************************************)
WholeBox(s) == Box(s)   \* mutant: the whole box is copied
Copied(s) == Mask(s)

Merged(old, new, s) == (old \ Mask(s)) \cup (new \cap Mask(s))

\* The first to get here decides the number of masks; those of further scales
\* are not copied.
WriteScaleMasks(s) ==
  LET global == IF scaleMasks = <<>> THEN [i \in 1 .. scaleCount[s] |-> {}] ELSE scaleMasks
  IN  /\ pc[s] = "executed"
      /\ pc' = [pc EXCEPT ![s] = "masks saved"]
      /\ scaleMasks' = [i \in DOMAIN global |->
           IF i <= scaleCount[s] THEN Merged(global[i], algMasks[s][i].pixels, s) ELSE global[i]]
      /\ UNCHANGED <<shared, componentList, model, subModel, algorithms>>

Kept(s) == algList[s]   \* mutant: the list of the algorithm is not cleared
ClearComponentList(s) == NoList

AddComponents(s) ==
  /\ pc[s] = "masks saved"
  /\ pc' = [pc EXCEPT ![s] = IF pass = "find peak" THEN "done" ELSE "added"]
  /\ componentList' = [c \in Components |->
       componentList[c] + (IF c \in algList[s].components THEN 1 ELSE 0)]
  /\ algList' = [algList EXCEPT ![s] = ClearComponentList(s)]
  /\ UNCHANGED <<shared, scaleMasks, model, subModel, scaleCount, algMasks, algRms>>

CopyBack(s) ==
  /\ pc[s] = "added"
  /\ pc' = [pc EXCEPT ![s] = "done"]
  /\ model' = {c \in model : c.pixel \notin Copied(s)} \cup {c \in subModel[s] : c.pixel \in Copied(s)}
  /\ subModel' = [subModel EXCEPT ![s] = {}]
  /\ UNCHANGED <<shared, scaleMasks, componentList, algorithms>>

RunSubImage(s) ==
  \/ Trim(s)
  \/ SetScaleMasks(s)
  \/ ExecuteMajorIteration(s)
  \/ WriteScaleMasks(s)
  \/ AddComponents(s)
  \/ CopyBack(s)

Done == pass = "ended" /\ UNCHANGED deconvolutionVars

DeconvolutionNext ==
  \/ Perform
  \/ RunDeconvolution
  \/ \E reached \in BOOLEAN : FinishIteration(reached)
  \/ InitializeDeconvolutionAlgorithm
  \/ \E s \in SubImages : RunSubImage(s)
  \/ Done

DeconvolutionSpec == DeconvolutionInit /\ [][DeconvolutionNext]_deconvolutionVars

(***************************************************************************)
(* Properties.                                                             *)
(***************************************************************************)

DeconvolutionTypeOK ==
  /\ group \in 1 .. MaxGroups /\ iteration \in 1 .. MajorIterationCount
  /\ {autoMaskIsFinished, usePerScaleMasks, rmsImage} \subseteq BOOLEAN
  /\ pass \in {"next iteration", "find peak", "clean", "ended"}
  /\ subdivision \in Subdivisions
  /\ pc \in [SubImages -> {"start", "trimmed", "ready", "executed", "masks saved", "added", "done"}]
  /\ scaleMasks \in Seq(SUBSET Pixels)
  /\ componentList \in [Components -> Nat]
  /\ model \subseteq Components
  /\ subModel \in [SubImages -> SUBSET Components]
  /\ scaleCount \in [SubImages -> 0 .. MaxScales]
  /\ algMasks \in [SubImages -> Seq([box : SUBSET Pixels, pixels : SUBSET Pixels])]
  /\ algList \in [SubImages -> [box : SUBSET Pixels, components : SUBSET Components]]
  /\ algRms \in [SubImages -> SUBSET Pixels]
  /\ inherited \in [masks : Seq(SUBSET Pixels), list : [Components -> Nat]]

\* Whatever division the iterations before used, an algorithm starts with masks
\* and lists of the size of its subimage ("Invalid automask size", "Error in
\* component list dimensions!"), with a mask for every scale that it will use
\* one for, and with the RMS image of its subimage in the first phase only
\* ("When we are in the second phase of automasking, don't use the RMS
\* background anymore").
ReadyToExecute ==
  \A s \in SubImages : pc[s] = "ready" =>
    /\ \A i \in DOMAIN algMasks[s] : algMasks[s][i].box = Box(s)
    /\ usePerScaleMasks => ScalesFor(s) <= Len(algMasks[s])
    /\ algList[s] # NoList => algList[s].box = Box(s)
    /\ algRms[s] = IF usePerScaleMasks THEN NoImage ELSE Box(s)

\* What one subimage has cleaned is not undone by another one that was trimmed
\* before and is copied back after it.
ModelOnlyGrows == [][group' = group => model \subseteq model']_deconvolutionVars

AtRest == pass \in {"next iteration", "ended"}
Inherited(i) == IF i <= Len(inherited.masks) THEN inherited.masks[i] ELSE {}

Added(c) == componentList[c] - inherited.list[c]

\* After each iteration of the first phase the masks that are kept hold exactly
\* the components in the model (and what earlier groups left in them).  The list
\* misses no component of the model, and in the first phase it holds each once
\* (besides what earlier groups left in it).
MasksAndListHoldModel ==
  AtRest =>
    /\ ~usePerScaleMasks =>
         \A i \in DOMAIN scaleMasks : scaleMasks[i] = Inherited(i) \cup PixelsAt(model, i)
    /\ \A c \in Components :
         /\ c \in model => Added(c) >= 1
         /\ ~usePerScaleMasks => Added(c) = IF c \in model THEN 1 ELSE 0

\* What an algorithm gets for a subimage fits the subimage, and what it gives back is the model.
SubImagesAgreeWithModel == ReadyToExecute /\ MasksAndListHoldModel

\* "Saves the found clean components as a BBS/NDPPP text sky model" (the help of
\* -save-source-list): when a group ends the list is the model.
SavedListIsModel ==
  pass = "ended" => \A c \in Components : componentList[c] = IF c \in model THEN 1 ELSE 0
=============================================================================
