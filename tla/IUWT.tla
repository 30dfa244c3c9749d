-------------------------------- MODULE IUWT --------------------------------
(***************************************************************************)
(* Deconvolution with isotropic undecimated wavelets                       *)
(* (iuwt/iuwtdeconvolutionalgorithm.cpp, imageanalysis.cpp).  An image is  *)
(* known by its nonzero wavelet coefficients, a function of <<scale, x,    *)
(* y>>: decomposition, masking and recomposition neither mix scales nor    *)
(* pixels, and convolution with a psf multiplies by a number.  Pixels keep *)
(* their place when an image is trimmed to a box.                          *)
(***************************************************************************)
EXTENDS Integers, Sequences, FiniteSets, FiniteSetsExt, SequencesExt, Functions

CONSTANT IuwtJobs   \* images, psfs and settings

VARIABLES
  iuwtJob,
  iterCounter,         \* _iterationNumber, by reference
  curMinScale, curEndScale,
  integratedDirty,     \* dirty
  dirtySet, modelSet,  \* coefficients of every image
  initialComponents,   \* the strongest coefficient of every scale in the first iteration
  reachedThreshold,    \* reachedMajorThreshold
  fit,                 \* the last structure that was deconvolved, and how
  iuwtStage            \* "start", "iterate", "fit", "subtract", "returned", "stopped"

iuwtVars == <<iuwtJob, iterCounter, curMinScale, curEndScale, integratedDirty, dirtySet, modelSet,
              initialComponents, reachedThreshold, fit, iuwtStage>>

ImageNumbers == DOMAIN iuwtJob.dirty
Pixel(c) == <<c[2], c[3]>>
At(image, c) == IF c \in DOMAIN image THEN image[c] ELSE 0
ValueAt(image, p) == MapThenSumSet(LAMBDA c : image[c], {c \in DOMAIN image : Pixel(c) = p})
SumOver(image, pixels) == MapThenSumSet(LAMBDA c : image[c], {c \in DOMAIN image : Pixel(c) \in pixels})
TotalOf(seq) == FoldLeft(LAMBDA sum, n : sum + n, 0, seq)
Magnitude(n) == IF n < 0 THEN -n ELSE n
Positions == UNION {DOMAIN iuwtJob.dirty[i] : i \in ImageNumbers}

\* GetLinearIntegrated and GetIntegratedPSF: the averages of the images and of the psfs.
LinearIntegrated(images) ==
  [c \in Positions |-> TotalOf([i \in DOMAIN images |-> images[i][c]]) \div Len(images)]
IntegratedPSF == TotalOf(iuwtJob.psfs) \div Len(iuwtJob.psfs)
PSFOf(image) == iuwtJob.psfs[iuwtJob.psfIndex[image]]

EndScale(dimension) == Max({2} \cup {k - 3 : k \in {k \in 1 .. 12 : 2 ^ k <= dimension}})
MinImageDimension(endScale) == 2 ^ (endScale + 3)
MaxScale == EndScale(Min({iuwtJob.width, iuwtJob.height}))

-----------------------------------------------------------------------------
(* Which coefficients are significant *)

WholeImage == [x1 |-> 0, y1 |-> 0, x2 |-> iuwtJob.width, y2 |-> iuwtJob.height]

\* Within the border of an image, or of a box of it, and within the mask.
InBorder(box, p) ==
  LET xBorder == (iuwtJob.border * (box.x2 - box.x1)) \div 100
      yBorder == (iuwtJob.border * (box.y2 - box.y1)) \div 100
  IN  /\ p[1] \in box.x1 + xBorder .. box.x2 - xBorder - 1
      /\ p[2] \in box.y1 + yBorder .. box.y2 - yBorder - 1
      /\ iuwtJob.masked => p \in iuwtJob.mask

\* getMaxAbs: the first of the strongest coefficients of a scale, in the order of rows.
Strength(value) == IF iuwtJob.negative THEN Magnitude(value) ELSE value
Before(c, d) == c[3] < d[3] \/ (c[3] = d[3] /\ c[2] <= d[2])
MaxComponent(scale) ==
  LET positive == {c \in DOMAIN integratedDirty :
                     c[1] = scale /\ InBorder(WholeImage, Pixel(c)) /\ Strength(integratedDirty[c]) > 0}
      strongest == {c \in positive : \A d \in positive : Strength(integratedDirty[c]) >= Strength(integratedDirty[d])}
  IN  IF positive = {} THEN [val |-> 0, at |-> <<scale, 0, 0>>]
      ELSE LET c == CHOOSE c \in strongest : \A d \in strongest : Before(c, d)
           IN  [val |-> Strength(integratedDirty[c]), at |-> c]
MaxComponents == [s \in 1 .. curEndScale |-> MaxComponent(s - 1)]

\* findAndDeconvolveStructure: the scale with the highest peak relative to the response of the
\* psf, where the first scale is compared as if it were the second.
AbsCoef(component) ==
  LET scale == component.at[1] IN
  IF scale > 0 THEN component.val * iuwtJob.sensitivity[scale + 1]
  ELSE component.val * Max({iuwtJob.sensitivity[1], iuwtJob.sensitivity[2]}) * iuwtJob.nextScaleRatio
IsCandidate(component, maxVal) ==
  LET scale == component.at[1] IN
  /\ scale >= curMinScale
  /\ component.val * iuwtJob.sensitivity[scale + 1] > maxVal
  /\ component.val > 0   \* the noise times a level that is zero
  /\ component.val * iuwtJob.noise[1] > iuwtJob.noise[scale + 1] * iuwtJob.threshold
MostSignificant ==
  FoldLeft(LAMBDA best, component :
             IF IsCandidate(component, best.maxVal) THEN [maxVal |-> AbsCoef(component), found |-> <<component.at>>]
             ELSE best,
           [maxVal |-> -1, found |-> <<>>], MaxComponents)

\* exceedsThreshold, with three quarters of the peak, and either sign when the peak is negative.
ExceedsThreshold(val, peak) == IF peak > 0 THEN 4 * val > 3 * peak ELSE 4 * Magnitude(val) > 3 * Magnitude(peak)

\* Floodfill and MaskedFloodfill: from a coefficient to its neighbours in the image and in scale.
Neighbours(c, scales, box) ==
  {d \in {<<c[1], c[2] - 1, c[3]>>, <<c[1], c[2] + 1, c[3]>>, <<c[1], c[2], c[3] - 1>>, <<c[1], c[2], c[3] + 1>>}
     : InBorder(box, Pixel(d))}
  \cup {<<s, c[2], c[3]>> : s \in {c[1] - 1, c[1] + 1} \cap scales}
Grown(image, mask, peak, scales, box) ==
  mask \cup {d \in UNION {Neighbours(c, scales, box) : c \in mask} : ExceedsThreshold(At(image, d), peak)}
RECURSIVE Floodfill(_, _, _, _, _)
Floodfill(image, mask, peak, scales, box) ==
  LET grown == Grown(image, mask, peak, scales, box)
  IN  IF grown = mask THEN mask ELSE Floodfill(image, grown, peak, scales, box)

\* SelectStructures: a fill from every significant coefficient that no fill has reached.
RECURSIVE SelectStructures(_, _, _, _, _)
SelectStructures(image, mask, peak, scales, box) ==
  LET seeds == {c \in DOMAIN image \ mask :
                  c[1] \in scales /\ InBorder(box, Pixel(c)) /\ ExceedsThreshold(image[c], peak)}
  IN  IF seeds = {} THEN mask
      ELSE LET seed == CHOOSE c \in seeds : \A d \in seeds : c[1] < d[1] \/ (c[1] = d[1] /\ Before(c, d))
           IN  SelectStructures(image, mask \cup Floodfill(image, {seed}, peak, scales, box), peak, scales, box)
ApplyMask(image, mask) == Restrict(image, DOMAIN image \cap mask)

-----------------------------------------------------------------------------
(* Boxes *)

\* The pixels above one percent of the peak; the lower end of the box is one row short when an
\* even number of rows follow each other.
BoundingBox(image) ==
  LET values == [p \in {Pixel(c) : c \in DOMAIN image} |-> ValueAt(image, p)]
      peak == Max({Magnitude(values[p]) : p \in DOMAIN values})
      above == {p \in DOMAIN values : 100 * Magnitude(values[p]) > peak}
      rows == {p[2] : p \in above}
      y2 == FoldLeft(LAMBDA y, row : IF y < row THEN row + 1 ELSE y, 0,
                     SetToSortSeq(rows, LAMBDA a, b : a < b))
  IN  [x1 |-> Min({p[1] : p \in above}), x2 |-> Max({p[1] : p \in above}) + 1, y1 |-> Min(rows), y2 |-> y2]

TowardsZero(twice) == IF twice >= 0 THEN twice \div 2 ELSE -((-twice) \div 2)

\* adjustBox, along one side: half a box on both sides, a minimum, the edges of the image, and a
\* multiple of eight.
Widened(lo, hi) == <<TowardsZero(2 * lo - (hi - lo)), TowardsZero(2 * hi + (hi - lo))>>
AtLeast(minBoxSize, side, mid) ==
  IF side[2] - side[1] < minBoxSize THEN <<mid - minBoxSize \div 2, mid + minBoxSize \div 2>> ELSE side
Within(length, side) == <<Max({0, side[1]}), Min({length, side[2]})>>
MultipleOfEight(side) == <<side[1], side[2] - ((side[2] - side[1]) % 8)>>
AdjustSide(lo, hi, length, minBoxSize) ==
  MultipleOfEight(Within(length, AtLeast(minBoxSize, Widened(lo, hi), (lo + hi) \div 2)))
BoxWithSides(x, y, image) ==
  [x1 |-> image.x1 + x[1], x2 |-> image.x1 + x[2], y1 |-> image.y1 + y[1], y2 |-> image.y1 + y[2]]
MinBoxSize(endScale) == Max({128, (MinImageDimension(endScale) * 3) \div 2})
AdjustBox(box, image, endScale) ==
  BoxWithSides(AdjustSide(box.x1 - image.x1, box.x2 - image.x1, image.x2 - image.x1, MinBoxSize(endScale)),
               AdjustSide(box.y1 - image.y1, box.y2 - image.y1, image.y2 - image.y1, MinBoxSize(endScale)), image)
IsIn(p, box) == p[1] \in box.x1 .. box.x2 - 1 /\ p[2] \in box.y1 .. box.y2 - 1
Trim(image, box) == Restrict(image, {c \in DOMAIN image : IsIn(Pixel(c), box)})

\* fillAndDeconvolveStructure up to the conjugate gradient: the structures are selected in the
\* image, and again in a box around them that may be too small for the largest scales.
BoxOfStructure(selected, maxComp) ==
  AdjustBox(BoundingBox(ApplyMask(integratedDirty, selected)), WholeImage, maxComp[1] + 1)
EndScaleIn(box, maxComp) ==
  IF box = WholeImage THEN curEndScale
  ELSE Min({curEndScale, Max({EndScale(Min({box.x2 - box.x1, box.y2 - box.y1})), maxComp[1] + 1})})
SelectedUpTo(endScale, selected, box, peak) ==
  IF box = WholeImage THEN selected
  ELSE SelectStructures(Trim(ApplyMask(integratedDirty, {c \in selected : c[1] < endScale}), box), {}, peak,
                        curMinScale .. endScale - 1, box)
SelectionIn(box, selected, maxComp) ==
  LET endScale == EndScaleIn(box, maxComp)
  IN  [whole |-> selected, box |-> box, endScale |-> endScale,
       mask |-> SelectedUpTo(endScale, selected, box, integratedDirty[maxComp])]
Selection(maxComp, selected) == SelectionIn(BoxOfStructure(selected, maxComp), selected, maxComp)
SelectedFor(maxComp) ==
  SelectStructures(integratedDirty, {}, integratedDirty[maxComp], curMinScale .. curEndScale - 1, WholeImage)

-----------------------------------------------------------------------------
(* Fitting the structure to every image *)

\* FloodFill2D: the connected areas of the structure model.
RECURSIVE FloodFill2D(_, _)
FloodFill2D(pixels, area) ==
  LET grown == area \cup {p \in pixels : \E q \in area :
                            Magnitude(p[1] - q[1]) + Magnitude(p[2] - q[2]) = 1}
  IN  IF grown = area THEN area ELSE FloodFill2D(pixels, grown)
RECURSIVE AreasIn(_)
AreasIn(pixels) ==
  IF pixels = {} THEN <<>>
  ELSE LET first == CHOOSE p \in pixels : \A q \in pixels : p[2] < q[2] \/ (p[2] = q[2] /\ p[1] <= q[1])
           area == FloodFill2D(pixels, {first})
       IN  <<area>> \o AreasIn(pixels \ area)
Areas(structure, maxComp) ==
  LET peakLevel == Magnitude(ValueAt(structure, Pixel(maxComp)))
  IN  AreasIn({p \in {Pixel(c) : c \in DOMAIN structure} : 10000 * Magnitude(ValueAt(structure, p)) > peakLevel})

BoxOfArea(area, selection) ==
  AdjustBox([x1 |-> Min({p[1] : p \in area}), x2 |-> Max({p[1] : p \in area}),
             y1 |-> Min({p[2] : p \in area}), y2 |-> Max({p[2] : p \in area})], selection.box, selection.endScale)

RECURSIVE Gcd(_, _)
Gcd(a, b) == IF b = 0 THEN a ELSE Gcd(b, a % b)
LowestTerms(a, b) == LET g == Gcd(Magnitude(a), Magnitude(b)) IN <<a \div g, b \div g>>

\* performSubImageComponentFit: what multiplies the structure in an area to match an image, as
\* a fraction.
Factor(area, image, structure, psf, selection) ==
  LET box == BoxOfArea(area, selection)
      modelSum == psf * SumOver(Trim(structure, box), area)
      dirtySum == SumOver(Trim(ApplyMask(image, selection.mask), box), area)
  IN  IF modelSum = 0 THEN <<0, 1>> ELSE LowestTerms(dirtySum, modelSum)
FactorIndexAlways(area) == 1   \* mutant
FactorIndex(area) == area

\* performSubImageFitAll: a correction factor of every area, in the order in which areas are
\* met, and the structure in every image.
FittedModels(structure, areas, selection) ==
  LET correctionFactors ==
        [a \in DOMAIN areas |-> Factor(areas[a], integratedDirty, structure, IntegratedPSF, selection)]
      Fitted(i, c, a) ==
        LET factor == Factor(areas[a], dirtySet[i], structure, PSFOf(i), selection)
            integratedFactor == correctionFactors[FactorIndex(a)]
        IN  IF integratedFactor[1] = 0 THEN 0
            ELSE (structure[c] * factor[1] * integratedFactor[2]) \div (factor[2] * integratedFactor[1])
      AreaOf(c) == {a \in DOMAIN areas : Pixel(c) \in areas[a]}
  IN  IF Len(dirtySet) = 1 THEN <<structure>>
      ELSE [i \in ImageNumbers |-> [c \in DOMAIN structure |->
              IF AreaOf(c) = {} THEN 0 ELSE Fitted(i, c, CHOOSE a \in AreaOf(c) : TRUE)]]

\* The masked image divided by the psf, with an error in every area.
Scaled(image, errors, areas) ==
  [c \in DOMAIN image |-> LET a == CHOOSE a \in DOMAIN areas : Pixel(c) \in areas[a]
                          IN  (errors[a] * image[c]) \div IntegratedPSF]

-----------------------------------------------------------------------------
(* PerformMajorIteration *)

NoFit == <<>>

IuwtInit ==
  /\ iuwtJob \in IuwtJobs
  /\ iterCounter = 0 /\ curMinScale = 0 /\ curEndScale = 2
  /\ dirtySet = [i \in ImageNumbers |-> [c \in Positions |-> At(iuwtJob.dirty[i], c)]]
  /\ modelSet = [i \in ImageNumbers |-> [c \in Positions |-> 0]]
  /\ integratedDirty = [c \in Positions |-> 0]
  /\ initialComponents = <<>> /\ reachedThreshold = FALSE /\ fit = NoFit /\ iuwtStage = "start"

StartMajorIteration ==
  /\ iuwtStage = "start"
  /\ reachedThreshold' = FALSE /\ fit' = NoFit
  /\ IF iterCounter = iuwtJob.nIter
     THEN iuwtStage' = "returned" /\ UNCHANGED <<curMinScale, curEndScale, integratedDirty, initialComponents>>
     ELSE /\ iuwtStage' = "iterate"
          /\ integratedDirty' = LinearIntegrated(dirtySet)
          /\ curMinScale' = 0 /\ curEndScale' = 2 /\ initialComponents' = <<>>
  /\ UNCHANGED <<iuwtJob, iterCounter, dirtySet, modelSet>>

CountIteration(doContinue) ==
  /\ iterCounter' = iterCounter + 1
  /\ iuwtStage' = IF iterCounter + 1 # iuwtJob.nIter /\ doContinue THEN "iterate" ELSE "returned"

\* No coefficient is significant, the conjugate gradient does not converge (which it also
\* says of an exact solution), or the residual would become worse: dirty, which may have been
\* trimmed, is restored from a copy.
IterationFails ==
  /\ iuwtStage = "fit" \/ (iuwtStage = "iterate" /\ MostSignificant.found = <<>>)
  /\ LET nextEndScale == curMinScale + 1 = curEndScale
         finished == nextEndScale /\ curEndScale = MaxScale
     IN  /\ curMinScale' = IF nextEndScale THEN 0 ELSE curMinScale + 1
         /\ curEndScale' = IF nextEndScale /\ ~finished THEN curEndScale + 1 ELSE curEndScale
         /\ CountIteration(~finished)
  /\ fit' = NoFit
  /\ UNCHANGED <<iuwtJob, integratedDirty, dirtySet, modelSet, initialComponents, reachedThreshold>>

\* findAndDeconvolveStructure: what is significant is selected.
FindStructure ==
  /\ iuwtStage = "iterate"
  /\ \E maxComp \in ToSet(MostSignificant.found) :
       LET selection == Selection(maxComp, SelectedFor(maxComp)) IN
       fit' = [maxComp |-> maxComp, selection |-> selection, images |-> dirtySet,
               areas |-> Areas(ApplyMask(integratedDirty, selection.mask), maxComp)]
  /\ iuwtStage' = "fit"
  /\ UNCHANGED <<iuwtJob, iterCounter, curMinScale, curEndScale, integratedDirty, dirtySet, modelSet,
                 initialComponents, reachedThreshold>>

\* The conjugate gradient ends with the masked image divided by the psf, up to a factor for
\* every area: it also stops when the signal is three times what is left.
FitStructure(structure) ==
  fit' = fit @@ [structure |-> structure, models |-> FittedModels(structure, fit.areas, fit.selection)]
DeconvolveStructure ==
  /\ iuwtStage = "fit"
  /\ \E errors \in [DOMAIN fit.areas -> iuwtJob.errors] :
       FitStructure(Scaled(ApplyMask(integratedDirty, fit.selection.mask), errors, fit.areas))
  /\ iuwtStage' = "subtract"
  /\ UNCHANGED <<iuwtJob, iterCounter, curMinScale, curEndScale, integratedDirty, dirtySet, modelSet,
                 initialComponents, reachedThreshold>>

SubtractStructure ==
  /\ iuwtStage = "subtract"
  /\ modelSet' = [i \in ImageNumbers |-> [c \in Positions |->
       modelSet[i][c] + At(fit.models[i], c) \div iuwtJob.gainPart]]
  /\ dirtySet' = [i \in ImageNumbers |-> [c \in Positions |->
       dirtySet[i][c] - (PSFOf(i) * At(fit.models[i], c)) \div iuwtJob.gainPart]]
  /\ integratedDirty' = LinearIntegrated(dirtySet')
  /\ LET maxVals == [s \in DOMAIN MaxComponents |-> MaxComponents[s].val]
         initial == initialComponents \o SubSeq(maxVals, Len(initialComponents) + 1, Len(maxVals))
         reached == \E s \in DOMAIN initial : 100 * maxVals[s] < initial[s] * (100 - iuwtJob.mgain)
     IN  /\ initialComponents' = initial
         /\ reachedThreshold' = reached
         /\ IF reached THEN iuwtStage' = "returned" /\ UNCHANGED iterCounter ELSE CountIteration(TRUE)
  /\ UNCHANGED <<iuwtJob, curMinScale, curEndScale, fit>>

\* ExecuteMajorIteration ends, and the images are made anew when the threshold was reached.
EndMajorIteration ==
  /\ iuwtStage = "returned"
  /\ reachedThreshold' = (reachedThreshold /\ iterCounter < iuwtJob.nIter)
  /\ iuwtStage' = IF reachedThreshold' THEN "start" ELSE "stopped"
  /\ fit' = NoFit
  /\ UNCHANGED <<iuwtJob, iterCounter, curMinScale, curEndScale, integratedDirty, dirtySet, modelSet,
                 initialComponents>>

IuwtNext ==
  StartMajorIteration \/ IterationFails \/ FindStructure \/ DeconvolveStructure \/ SubtractStructure \/ EndMajorIteration

-----------------------------------------------------------------------------

\* The residual of every image is its data without its own model as its own psf shows it, and
\* what is searched is the average of these residuals, also after an iteration that failed
\* half-way in a box.
ResidualsAreCurrent ==
  /\ \A i \in ImageNumbers : \A c \in Positions :
       dirtySet[i][c] = At(iuwtJob.dirty[i], c) - PSFOf(i) * modelSet[i][c]
  /\ iuwtStage = "iterate" => integratedDirty = LinearIntegrated(dirtySet)

\* What is selected in the image is selected in the box too, but for scales that do not fit in
\* it, and the strongest coefficient and the areas are in their boxes.
BoxesHoldStructure ==
  /\ fit.selection.mask = {c \in fit.selection.whole : c[1] < fit.selection.endScale}
  /\ IsIn(Pixel(fit.maxComp), fit.selection.box)
  /\ \A a \in DOMAIN fit.areas : \A p \in fit.areas[a] : IsIn(p, BoxOfArea(fit.areas[a], fit.selection))

\* In every area the models of the images, as their psfs show them, are in the ratio of the
\* fluxes of the images, and together they are the structure that was found.
ModelsShareStructure ==
  \A a \in DOMAIN fit.areas :
    LET Flux(image) == SumOver(ApplyMask(image, fit.selection.mask), fit.areas[a])
        Shown(i) == PSFOf(i) * Flux(fit.models[i])
    IN  /\ \A i, k \in ImageNumbers : Shown(i) * Flux(fit.images[k]) = Shown(k) * Flux(fit.images[i])
        /\ TotalOf([i \in ImageNumbers |-> Shown(i)]) = Len(dirtySet) * IntegratedPSF * Flux(fit.structure)

\* Deconvolving structures in boxes moves flux of the structures that were found from the
\* residuals to the models, of every image its share, and does nothing else.
StructuresMoveFlux ==
  ResidualsAreCurrent /\ (iuwtStage = "subtract" => BoxesHoldStructure /\ ModelsShareStructure)
=============================================================================
