--------------------------- MODULE FourierImaging ---------------------------
(***************************************************************************)
(* What becomes of the samples and the image in a gridder:                 *)
(* wstackinggridder.cpp with the resampling and trimming that wsmsgridder  *)
(* does around it, directmsgridder.cpp, fftresampler.cpp and the uv image  *)
(* that is made of the result.                                             *)
(*                                                                         *)
(* Arithmetic is exact: a complex number is a pair of integers modulo a    *)
(* prime of which -1 is no square, so that a pair <<a, b>> is a + ib, has  *)
(* a conjugate, and there are roots of unity of which the conjugate is the *)
(* inverse, as of the phases in the code.  Phases are counted in turns of  *)
(* 1/48.  u and v are given in thirds of a cell, l and m in pixels, and    *)
(* w so that it is the factor of an integer function of l and m.           *)
(***************************************************************************)
EXTENDS Integers, Sequences, SequencesExt

CONSTANTS
  FourierJobs,   \* images, samples and settings
  Roots          \* the powers of a root of unity of order Turn, from the one that is 1

VARIABLES
  fourierJob,
  fourierStep,    \* what is done next
  fourierPass,    \* _curLayerRangeIndex
  fourierSample,  \* the index of the sample that is gridded or predicted next
  uvLayers,       \* _layeredUVData
  layerStack,     \* the stack of layers to be transformed
  threadImages,   \* _imageData and _imageDataImaginary of the threads; the _layers of the direct gridder
  spectra,        \* newfftData of the resampler, for the real and the imaginary image
  fourierImage,   \* the image, [re, im], in the size of the step
  savedImage,     \* the image as it was returned
  savedUV,        \* realUV and imagUV
  predictedValues,
  restoredImage

fourierVars == <<fourierJob, fourierStep, fourierPass, fourierSample, uvLayers, layerStack, threadImages, spectra,
                 fourierImage, savedImage, savedUV, predictedValues, restoredImage>>

-----------------------------------------------------------------------------
(* Numbers *)

Prime == 47
Turn == 48
OverSampling == 3
Times(a, b) == <<(a[1] * b[1] - a[2] * b[2]) % Prime, (a[1] * b[2] + a[2] * b[1]) % Prime>>
Plus(a, b) == <<(a[1] + b[1]) % Prime, (a[2] + b[2]) % Prime>>
Conjugated(a) == <<a[1], (-a[2]) % Prime>>
Scaled(a, n) == <<(a[1] * n) % Prime, (a[2] * n) % Prime>>
ModInverse(n) == CHOOSE k \in 1 .. Prime - 1 : (k * n) % Prime = 1

\* The sum of term(0) .. term(n - 1).
ComplexSum(term(_), n) ==
  LET sum[k \in 0 .. n] == IF k = 0 THEN <<0, 0>> ELSE Plus(sum[k - 1], term(k - 1)) IN sum[n]

E(turns) == Roots[(turns % Turn) + 1]

\* The phase of a position and a frequency in thirds of a cell, on an axis of so many pixels.
Phase(position, thirds, size) == (position * thirds * Turn) \div (size * OverSampling)
CellPhase(position, cell, size) == (position * cell * Turn) \div size

-----------------------------------------------------------------------------
(* Positions *)

Columns == fourierJob.width   \* _actualInversionWidth and -Height
Rows == fourierJob.height
Size == Columns * Rows
X(p, width) == p % width
Y(p, width) == p \div width
Wrapped(a, n) == IF a >= n THEN a - n ELSE a

\* The pixels of a small inversion are larger than those of the image.
ScaleX == fourierJob.imageWidth \div Columns
ScaleY == fourierJob.imageHeight \div Rows
L(x) == (Columns \div 2 - x) * ScaleX + fourierJob.dl
M(y) == (y - Rows \div 2) * ScaleY + fourierJob.dm

\* sqrt(1 - l^2 - m^2) - 1 is a function of l^2 + m^2, and zero where there is no sky.
IsSky(l, m) == l * l + m * m < fourierJob.horizon
SqrtLM(l, m) == IF IsSky(l, m) THEN -(l * l + m * m) ELSE 0

\* Where the inversion puts pixel (x, y) of a transformed layer, and where the prediction
\* takes it from.
XSource(x, width) == Wrapped(x + width \div 2, width)
YSource(y, height) == Wrapped((height - y) + height \div 2, height)
XDestination(x) == Wrapped((Columns - x) + Columns \div 2, Columns)
YDestination(y) == Wrapped(y + Rows \div 2, Rows)

SqrtLMLookupTable(p) == SqrtLM(L(XSource(X(p, Columns), Columns)), M(YSource(Y(p, Columns), Rows)))
SqrtLMLookupTableForSampling(p) == SqrtLM(L(XDestination(X(p, Columns))), M(YDestination(Y(p, Columns))))

-----------------------------------------------------------------------------
(* Layers *)

RoundedDivision(a, b) == (2 * a + b) \div (2 * b)
WToLayer(w) ==
  IF fourierJob.nWLayers = 1 THEN 0
  ELSE IF fourierJob.isComplex
  THEN RoundedDivision((w + fourierJob.maxW) * (fourierJob.nWLayers - 1), 2 * fourierJob.maxW)
  ELSE RoundedDivision(((IF w < 0 THEN -w ELSE w) - fourierJob.minW) * (fourierJob.nWLayers - 1),
                       fourierJob.maxW - fourierJob.minW)
LayerToW(layer) ==
  IF fourierJob.nWLayers = 1 THEN 0
  ELSE IF fourierJob.isComplex
  THEN (layer * 2 * fourierJob.maxW) \div (fourierJob.nWLayers - 1) - fourierJob.maxW
  ELSE (layer * (fourierJob.maxW - fourierJob.minW)) \div (fourierJob.nWLayers - 1) + fourierJob.minW

LayerRangeStart(index) == (fourierJob.nWLayers * index) \div fourierJob.nPasses
LayerOffset == LayerRangeStart(fourierPass)
LayersInPass == LayerRangeStart(fourierPass + 1) - LayerOffset
IsInPass(layer) == layer \in LayerOffset .. LayerRangeStart(fourierPass + 1) - 1

-----------------------------------------------------------------------------
(* Kernels *)

\* A kernel of three cells is known at nine points and symmetric; GriddingKernel is what it
\* is around a sample that is one third of a cell off in either direction.
KernelSize == 3
OneDKernel(k) == fourierJob.kernel[IF k >= 4 THEN k - 3 ELSE 5 - k]
GriddingKernel(index, x) == OneDKernel(x * OverSampling + (OverSampling - index - 1))

NearestCell(thirds) == (thirds + 1) \div OverSampling
KernelIndex(thirds) == (thirds - OverSampling * NearestCell(thirds) + (OverSampling * 3) \div 2) % OverSampling
InAxis(cell, size) == cell > -(size \div 2) /\ cell <= size \div 2
IsInPlane(u, v) == InAxis(NearestCell(u), Columns) /\ InAxis(NearestCell(v), Rows)
Cell(thirds, size) == NearestCell(thirds) % size

\* What a sample has to do with a row or a column: its kernel goes round at the edge.
AxisWeight(thirds, size, at) ==
  IF fourierJob.mode = "nearest" THEN IF at = Cell(thirds, size) THEN 1 ELSE 0
  ELSE LET k == (at - Cell(thirds, size) + KernelSize \div 2) % size
       IN  IF k < KernelSize THEN GriddingKernel(KernelIndex(thirds), k) ELSE 0
CellWeight(u, v, p) == AxisWeight(u, Columns, X(p, Columns)) * AxisWeight(v, Rows, Y(p, Columns))

\* correctImageForKernel: a cosine transform, which has its points between those of the image.
KernelResponse(k, size) ==
  fourierJob.kernel[1]
  + 2 * ComplexSum(LAMBDA j : Scaled(E(((j + 1) * (2 * k + 1) * Turn) \div (2 * size * OverSampling)),
                                     fourierJob.kernel[j + 2]), 4)[1]
DistanceOf(x, size) == IF x >= size \div 2 THEN x - size \div 2 ELSE size \div 2 - x
CorrectedForKernel(value, p) ==
  IF fourierJob.mode = "nearest" THEN value % Prime
  ELSE (value * ModInverse((KernelResponse(DistanceOf(X(p, Columns), Columns), Columns)
                         * KernelResponse(DistanceOf(Y(p, Columns), Rows), Rows)
                         * ModInverse(OverSampling * OverSampling)) % Prime)) % Prime

-----------------------------------------------------------------------------
(* Gridding *)

Samples == fourierJob.samples
NextSample == Samples[fourierSample]
Blank(size) == [p \in 0 .. size - 1 |-> 0]
BlankImage(size) == [re |-> Blank(size), im |-> Blank(size)]

FourierInit ==
  /\ fourierJob \in FourierJobs
  /\ fourierStep = IF fourierJob.gridder = "direct" THEN "direct" ELSE "start inversion pass"
  /\ fourierPass = 0 /\ fourierSample = 1
  /\ uvLayers = <<>> /\ layerStack = <<>> /\ spectra = <<>>
  /\ threadImages = [t \in 1 .. fourierJob.threads |-> BlankImage(Columns * Rows)]
  /\ fourierImage = <<>> /\ savedImage = <<>> /\ savedUV = <<>> /\ predictedValues = <<>>
  /\ restoredImage = <<>>

StartInversionPass ==
  /\ fourierStep = "start inversion pass" /\ fourierStep' = "grid"
  /\ uvLayers' = [k \in 1 .. LayersInPass |-> [p \in 0 .. Size - 1 |-> <<0, 0>>]]
  /\ fourierSample' = 1
  /\ UNCHANGED <<fourierJob, fourierPass, layerStack, threadImages, spectra, fourierImage, savedImage, savedUV,
                 predictedValues, restoredImage>>

\* Half of the layers are enough for an image that is real.
Turned(s) ==
  IF s.w < 0 /\ ~fourierJob.isComplex
  THEN [u |-> -s.u, v |-> -s.v, w |-> -s.w, value |-> Conjugated(s.value)] ELSE s

AddToLayer(s) ==
  IF IsInPass(WToLayer(s.w)) /\ IsInPlane(s.u, s.v)
  THEN [uvLayers EXCEPT ![WToLayer(s.w) - LayerOffset + 1] =
          [p \in 0 .. Size - 1 |-> Plus(@[p], Scaled(s.value, CellWeight(s.u, s.v, p)))]]
  ELSE uvLayers

AddDataSample ==
  /\ fourierStep = "grid" /\ fourierSample <= Len(Samples)
  /\ uvLayers' = AddToLayer(Turned(NextSample))
  /\ fourierSample' = fourierSample + 1
  /\ UNCHANGED <<fourierJob, fourierStep, fourierPass, layerStack, threadImages, spectra, fourierImage,
                 savedImage, savedUV, predictedValues, restoredImage>>

FinishInversionPass ==
  /\ fourierStep = "grid" /\ fourierSample > Len(Samples)
  /\ fourierStep' = "transform" /\ layerStack' = [k \in 1 .. LayersInPass |-> k - 1]
  /\ UNCHANGED <<fourierJob, fourierPass, fourierSample, uvLayers, threadImages, spectra, fourierImage,
                 savedImage, savedUV, predictedValues, restoredImage>>

\* fftToImageThreadFunction and projectOnImageAndCorrect: a thread transforms a layer, corrects it
\* for its w and adds it to its own image, with the axes turned and the centre in the middle.
TransformedAt(grid, p) ==
  ComplexSum(LAMBDA q : Times(grid[q], E(CellPhase(X(p, Columns), X(q, Columns), Columns)
                                         + CellPhase(Y(p, Columns), Y(q, Columns), Rows))), Size)
TurnedPixel(p) == XSource(X(p, Columns), Columns) + YSource(Y(p, Columns), Rows) * Columns
ProjectedAt(grid, w, p) ==
  Times(TransformedAt(grid, TurnedPixel(p)), E(-w * SqrtLMLookupTable(TurnedPixel(p))))

FftToImageThread(t) ==
  /\ fourierStep = "transform" /\ layerStack # <<>>
  /\ t <= LayersInPass
  /\ LET layer == Last(layerStack)
         projected == [p \in 0 .. Size - 1 |-> ProjectedAt(uvLayers[layer + 1], LayerToW(layer + LayerOffset), p)]
     IN  threadImages' = [threadImages EXCEPT ![t] =
           [re |-> [p \in 0 .. Size - 1 |-> (@.re[p] + projected[p][1]) % Prime],
            im |-> IF fourierJob.isComplex
                   THEN [p \in 0 .. Size - 1 |-> (@.im[p] + projected[p][2]) % Prime] ELSE @.im]]
  /\ layerStack' = Front(layerStack)
  /\ UNCHANGED <<fourierJob, fourierStep, fourierPass, fourierSample, uvLayers, spectra, fourierImage,
                 savedImage, savedUV, predictedValues, restoredImage>>

EndInversionPass ==
  /\ fourierStep = "transform" /\ layerStack = <<>>
  /\ IF fourierPass + 1 < fourierJob.nPasses
     THEN fourierPass' = fourierPass + 1 /\ fourierStep' = "start inversion pass"
     ELSE UNCHANGED fourierPass /\ fourierStep' = "finalize"
  /\ UNCHANGED <<fourierJob, fourierSample, uvLayers, layerStack, threadImages, spectra, fourierImage,
                 savedImage, savedUV, predictedValues, restoredImage>>

\* The images of all threads, including those that had no layer.
Finalized(part) ==
  [p \in 0 .. Size - 1 |->
     CorrectedForKernel(FoldLeft(LAMBDA sum, image : sum + image[part][p], 0, threadImages)
                        * ModInverse(fourierJob.totalWeight), p)]

FinalizeImage ==
  /\ fourierStep = "finalize"
  /\ uvLayers' = <<>>
  /\ fourierImage' = [re |-> Finalized("re"),
                      im |-> IF fourierJob.isComplex THEN Finalized("im") ELSE Blank(Size)]
  /\ fourierStep' = IF fourierJob.imageWidth # Columns \/ fourierJob.imageHeight # Rows THEN "enlarge" ELSE "trim"
  /\ UNCHANGED <<fourierJob, fourierPass, fourierSample, layerStack, threadImages, spectra, savedImage, savedUV,
                 predictedValues, restoredImage>>

-----------------------------------------------------------------------------
(* Resampling and trimming *)

Smaller(a, b) == IF a < b THEN a ELSE b

\* Of a real image half of the frequencies are stored.
StoredFrequency(image, width, height, kx, ky) ==
  ComplexSum(LAMBDA p : Scaled(E(-CellPhase(X(p, width), kx, width) - CellPhase(Y(p, width), ky, height)), image[p]),
             width * height)
RestoredAt(spectrum, width, height, p) ==
  ComplexSum(LAMBDA k :
    LET kx == X(k, width \div 2 + 1)
        ky == Y(k, width \div 2 + 1)
    IN  Scaled(Times(spectrum[k], E(CellPhase(X(p, width), kx, width) + CellPhase(Y(p, width), ky, height))),
               IF kx = 0 \/ 2 * kx = width THEN 1 ELSE 2), (width \div 2 + 1) * height)[1]

\* The frequencies that both sizes have.  The highest of the columns is kept from the input
\* when that is not the narrower one.
KeptColumn(kx, inWidth, outWidth) ==
  IF kx < Smaller(inWidth, outWidth) \div 2 THEN kx
  ELSE IF inWidth >= outWidth /\ kx = outWidth \div 2 THEN inWidth \div 2 ELSE -1
SignedRow(row, height, smallest) == IF row >= height - smallest \div 2 THEN row - height ELSE row
KeptRow(row, inHeight, outHeight) ==
  LET smallest == Smaller(inHeight, outHeight)
      ky == SignedRow(row, outHeight, smallest)
  IN  IF ky >= smallest - smallest \div 2 THEN -1 ELSE ky % inHeight
ResampledSpectrum(image, inWidth, inHeight, outWidth, outHeight) ==
  [k \in 0 .. (outWidth \div 2 + 1) * outHeight - 1 |->
     LET kx == KeptColumn(X(k, outWidth \div 2 + 1), inWidth, outWidth)
         ky == KeptRow(Y(k, outWidth \div 2 + 1), inHeight, outHeight)
     IN  IF kx < 0 \/ ky < 0 THEN <<0, 0>>
         ELSE Scaled(StoredFrequency(image, inWidth, inHeight, kx, ky),
                     ModInverse((Smaller(inWidth, outWidth) * Smaller(inHeight, outHeight)) % Prime))]

ResampleFrom(inWidth, inHeight, outWidth, outHeight) ==
  /\ spectra' = [re |-> ResampledSpectrum(fourierImage.re, inWidth, inHeight, outWidth, outHeight),
                 im |-> IF fourierJob.isComplex
                        THEN ResampledSpectrum(fourierImage.im, inWidth, inHeight, outWidth, outHeight) ELSE <<>>]
  /\ UNCHANGED <<fourierJob, fourierPass, fourierSample, uvLayers, layerStack, threadImages, fourierImage,
                 savedImage, savedUV, predictedValues, restoredImage>>
ResampleTo(width, height) ==
  /\ fourierImage' = [re |-> [p \in 0 .. width * height - 1 |-> RestoredAt(spectra.re, width, height, p)],
                      im |-> IF fourierJob.isComplex
                             THEN [p \in 0 .. width * height - 1 |-> RestoredAt(spectra.im, width, height, p)]
                             ELSE Blank(width * height)]
  /\ spectra' = <<>>
  /\ UNCHANGED <<fourierJob, fourierPass, fourierSample, uvLayers, layerStack, threadImages, savedImage,
                 savedUV, predictedValues, restoredImage>>

Enlarge ==
  \/ fourierStep = "enlarge" /\ fourierStep' = "enlarged"
     /\ ResampleFrom(Columns, Rows, fourierJob.imageWidth, fourierJob.imageHeight)
  \/ fourierStep = "enlarged" /\ fourierStep' = "trim" /\ ResampleTo(fourierJob.imageWidth, fourierJob.imageHeight)
Decimate ==
  \/ fourierStep = "decimate" /\ fourierStep' = "decimated"
     /\ ResampleFrom(fourierJob.imageWidth, fourierJob.imageHeight, Columns, Rows)
  \/ fourierStep = "decimated" /\ fourierStep' = "initialize prediction" /\ ResampleTo(Columns, Rows)

TrimWidth == fourierJob.trimWidth
TrimHeight == fourierJob.trimHeight
TrimSize == TrimWidth * TrimHeight
StartX == (fourierJob.imageWidth - TrimWidth) \div 2
StartY == (fourierJob.imageHeight - TrimHeight) \div 2
Trimmed(image) ==
  [p \in 0 .. TrimSize - 1 |->
     image[X(p, TrimWidth) + StartX + (Y(p, TrimWidth) + StartY) * fourierJob.imageWidth]]
Untrimmed(image) ==
  [p \in 0 .. fourierJob.imageWidth * fourierJob.imageHeight - 1 |->
     LET x == X(p, fourierJob.imageWidth) - StartX
         y == Y(p, fourierJob.imageWidth) - StartY
     IN  IF x \in 0 .. TrimWidth - 1 /\ y \in 0 .. TrimHeight - 1 THEN image[x + y * TrimWidth] ELSE 0]

Trim ==
  /\ fourierStep = "trim" /\ fourierStep' = "save uv"
  /\ fourierImage' = [re |-> Trimmed(fourierImage.re), im |-> Trimmed(fourierImage.im)]
  /\ savedImage' = fourierImage'
  /\ UNCHANGED <<fourierJob, fourierPass, fourierSample, uvLayers, layerStack, threadImages, spectra, savedUV,
                 predictedValues, restoredImage>>

-----------------------------------------------------------------------------
(* The direct gridder *)

\* A worker takes the next sample from the lane and adds it to every pixel of its own layer.
LayerIndex(x, y) == y * Rows + x
DirectL(x) == Columns \div 2 - XSource(x, Columns) + fourierJob.dl
DirectM(y) == YSource(y, Rows) - Rows \div 2 + fourierJob.dm
DirectAngleFlat(s, x, y) ==   \* mutant: without the w-term
  -(Phase(DirectL(x), s.u, Columns) + Phase(DirectM(y), s.v, Rows))
DirectAngle(s, x, y) ==
  -(Phase(DirectL(x), s.u, Columns) + Phase(DirectM(y), s.v, Rows) + s.w * SqrtLM(DirectL(x), DirectM(y)))
GridSample(t) ==
  /\ fourierStep = "direct" /\ fourierSample <= Len(Samples)
  /\ threadImages' = [threadImages EXCEPT ![t].re = [p \in 0 .. Size - 1 |->
       (@[p] + Times(NextSample.value, E(DirectAngle(NextSample, p % Rows, p \div Rows)))[1]) % Prime]]
  /\ fourierSample' = fourierSample + 1
  /\ UNCHANGED <<fourierJob, fourierStep, fourierPass, uvLayers, layerStack, spectra, fourierImage, savedImage,
                 savedUV, predictedValues, restoredImage>>

SumOfLayers(p) == FoldLeft(LAMBDA sum, image : sum + image.re[p], 0, threadImages)
FinishDirect ==
  /\ fourierStep = "direct" /\ fourierSample > Len(Samples) /\ fourierStep' = "save uv"
  /\ fourierImage' = [re |-> [p \in 0 .. Size - 1 |->
                        (SumOfLayers(XSource(X(p, Columns), Columns) + YSource(Y(p, Columns), Rows) * Columns)
                         * ModInverse(fourierJob.totalWeight)) % Prime],
                      im |-> Blank(Size)]
  /\ savedImage' = fourierImage'
  /\ UNCHANGED <<fourierJob, fourierPass, fourierSample, uvLayers, layerStack, threadImages, spectra, savedUV,
                 predictedValues, restoredImage>>

-----------------------------------------------------------------------------
(* The uv image *)

\* SingleFT: the middle of the image comes first, half of the frequencies are there, and both
\* halves of the result are made of them.
Middled(image) ==
  [p \in 0 .. TrimSize - 1 |->
     image[Wrapped(X(p, TrimWidth) + TrimWidth \div 2, TrimWidth)
           + Wrapped(Y(p, TrimWidth) + TrimHeight \div 2, TrimHeight) * TrimWidth]]
UVAt(image, x, y) ==
  StoredFrequency(Middled(image), TrimWidth, TrimHeight, x, Wrapped(y + TrimHeight \div 2, TrimHeight))
SingleFT(image) ==
  [p \in 0 .. TrimSize - 1 |->
     LET column == X(p, TrimWidth)  y == Y(p, TrimWidth)  midX == TrimWidth \div 2 IN
     IF column < midX THEN UVAt(image, midX - column, y)
     ELSE Conjugated(UVAt(image, column - midX, IF y = 0 THEN 0 ELSE TrimHeight - y))]

SaveUVImage ==
  /\ fourierStep = "save uv"
  /\ savedUV' = SingleFT(fourierImage.re)
  /\ fourierStep' = IF fourierJob.gridder = "direct" THEN "convolve" ELSE "untrim"
  /\ UNCHANGED <<fourierJob, fourierPass, fourierSample, uvLayers, layerStack, threadImages, spectra,
                 fourierImage, savedImage, predictedValues, restoredImage>>

-----------------------------------------------------------------------------
(* Predicting *)

Untrim ==
  /\ fourierStep = "untrim"
  /\ fourierImage' = [re |-> Untrimmed(fourierJob.model.re), im |-> Untrimmed(fourierJob.model.im)]
  /\ fourierStep' = IF fourierJob.imageWidth # Columns \/ fourierJob.imageHeight # Rows
                    THEN "decimate" ELSE "initialize prediction"
  /\ UNCHANGED <<fourierJob, fourierPass, fourierSample, uvLayers, layerStack, threadImages, spectra,
                 savedImage, savedUV, predictedValues, restoredImage>>

\* What is beyond the horizon is left out.
WithoutGround(image) ==
  [p \in 0 .. Size - 1 |-> IF IsSky(L(X(p, Columns)), M(Y(p, Columns))) THEN CorrectedForKernel(image[p], p) ELSE 0]
InitializePrediction ==
  /\ fourierStep = "initialize prediction" /\ fourierStep' = "start prediction pass"
  /\ fourierImage' = [re |-> WithoutGround(fourierImage.re), im |-> WithoutGround(fourierImage.im)]
  /\ fourierPass' = 0
  /\ predictedValues' = [k \in DOMAIN Samples |-> <<>>]
  /\ UNCHANGED <<fourierJob, fourierSample, uvLayers, layerStack, threadImages, spectra, savedImage, savedUV,
                 restoredImage>>

\* fftToUVThreadFunction and copyImageToLayerAndInverseCorrect, for every layer: each has a grid of
\* its own.
CopiedAt(w, p) ==
  LET from == XDestination(X(p, Columns)) + YDestination(Y(p, Columns)) * Columns
      value == IF fourierJob.isComplex THEN <<fourierImage.re[from], (-fourierImage.im[from]) % Prime>>
               ELSE <<fourierImage.re[from], 0>>
  IN  Times(value, E(-w * SqrtLMLookupTableForSampling(p)))
SampledLayer(w) ==
  [q \in 0 .. Size - 1 |->
     ComplexSum(LAMBDA p : Times(CopiedAt(w, p), E(-CellPhase(X(p, Columns), X(q, Columns), Columns)
                                                   - CellPhase(Y(p, Columns), Y(q, Columns), Rows))), Size)]
StartPredictionPass ==
  /\ fourierStep = "start prediction pass" /\ fourierStep' = "sample"
  /\ uvLayers' = [k \in 1 .. LayersInPass |-> SampledLayer(LayerToW(k - 1 + LayerOffset))]
  /\ fourierSample' = 1
  /\ UNCHANGED <<fourierJob, fourierPass, layerStack, threadImages, spectra, fourierImage, savedImage, savedUV,
                 predictedValues, restoredImage>>

\* A row is predicted in the pass of its layer, and what is not in the plane is not a number.
SampleOfLayer(s) ==
  IF IsInPlane(s.u, s.v)
  THEN ComplexSum(LAMBDA p : Scaled(uvLayers[WToLayer(s.w) - LayerOffset + 1][p], CellWeight(s.u, s.v, p)), Size)
  ELSE <<>>
SampleDataSample ==
  /\ fourierStep = "sample" /\ fourierSample <= Len(Samples)
  /\ LET s == Turned(NextSample)
         isConjugated == NextSample.w < 0 /\ ~fourierJob.isComplex
     IN  IF ~IsInPass(WToLayer(s.w)) THEN UNCHANGED predictedValues
         ELSE predictedValues' = [predictedValues EXCEPT ![fourierSample] =
                IF SampleOfLayer(s) = <<>> \/ isConjugated THEN SampleOfLayer(s) ELSE Conjugated(SampleOfLayer(s))]
  /\ fourierSample' = fourierSample + 1
  /\ UNCHANGED <<fourierJob, fourierStep, fourierPass, uvLayers, layerStack, threadImages, spectra,
                 fourierImage, savedImage, savedUV, restoredImage>>

EndPredictionPass ==
  /\ fourierStep = "sample" /\ fourierSample > Len(Samples)
  /\ IF fourierPass + 1 < fourierJob.nPasses
     THEN fourierPass' = fourierPass + 1 /\ fourierStep' = "start prediction pass"
     ELSE UNCHANGED fourierPass /\ fourierStep' = "convolve"
  /\ UNCHANGED <<fourierJob, fourierSample, uvLayers, layerStack, threadImages, spectra, fourierImage,
                 savedImage, savedUV, predictedValues, restoredImage>>

-----------------------------------------------------------------------------
(* Restoring *)

\* ModelRenderer::Restore draws the beam in a box of an even size, of which the place is turned
\* to the corners of an image, and adds the convolved model to the image.
BoxSize ==
  LET size == Smaller(fourierJob.beamBox, Smaller(TrimWidth, TrimHeight))
  IN  IF size % 2 # 0 THEN size + 1 ELSE size
Gaus(l, m) == (41 - 5 * l * l - 3 * l * m - 2 * m * m) % Prime
BeamInBox(x, y) == Gaus(BoxSize \div 2 - x, y - BoxSize \div 2)
PreparedKernel(p) ==
  LET half == BoxSize \div 2
      x == X(p, TrimWidth)
      y == Y(p, TrimWidth)
      InHalf(k, size) == k < BoxSize - half \/ k >= size - half
      InBox(k, size) == IF k >= size - half THEN k - (size - half) ELSE k + half
  IN  IF InHalf(x, TrimWidth) /\ InHalf(y, TrimHeight) THEN BeamInBox(InBox(x, TrimWidth), InBox(y, TrimHeight)) ELSE 0
PreparedImage == [p \in 0 .. TrimSize - 1 |-> PreparedKernel(p)]

Convolve ==
  /\ fourierStep = "convolve" /\ fourierStep' = "restore"
  /\ spectra' = [re |->
       [k \in 0 .. (TrimWidth \div 2 + 1) * TrimHeight - 1 |->
          LET kx == X(k, TrimWidth \div 2 + 1)
              ky == Y(k, TrimWidth \div 2 + 1)
          IN  Scaled(Times(StoredFrequency(fourierJob.model.re, TrimWidth, TrimHeight, kx, ky),
                           StoredFrequency(PreparedImage, TrimWidth, TrimHeight, kx, ky)),
                     ModInverse(TrimSize % Prime))], im |-> <<>>]
  /\ UNCHANGED <<fourierJob, fourierPass, fourierSample, uvLayers, layerStack, threadImages, fourierImage,
                 savedImage, savedUV, predictedValues, restoredImage>>

Restore ==
  /\ fourierStep = "restore" /\ fourierStep' = "end"
  /\ restoredImage' = [p \in 0 .. TrimSize - 1 |->
       (savedImage.re[p] + IF fourierJob.beamBox = 0 THEN fourierJob.model.re[p]
                           ELSE RestoredAt(spectra.re, TrimWidth, TrimHeight, p)) % Prime]
  /\ spectra' = <<>>
  /\ UNCHANGED <<fourierJob, fourierPass, fourierSample, uvLayers, layerStack, threadImages, fourierImage,
                 savedImage, savedUV, predictedValues>>

FourierNext ==
  \/ StartInversionPass \/ AddDataSample \/ FinishInversionPass
  \/ \E t \in 1 .. fourierJob.threads : FftToImageThread(t) \/ GridSample(t)
  \/ EndInversionPass \/ FinalizeImage \/ Enlarge \/ Decimate \/ Trim \/ FinishDirect \/ SaveUVImage
  \/ Untrim \/ InitializePrediction \/ StartPredictionPass \/ SampleDataSample \/ EndPredictionPass
  \/ Convolve \/ Restore

FourierSpec == FourierInit /\ [][FourierNext]_fourierVars

-----------------------------------------------------------------------------
(* Properties *)

SkyL(p) == TrimWidth \div 2 - X(p, TrimWidth)
SkyM(p) == Y(p, TrimWidth) - TrimHeight \div 2
IsInSky(p) == IsSky(SkyL(p) + fourierJob.dl, SkyM(p) + fourierJob.dm)

\* The phase of a sample in a pixel of the result: the Fourier transform that the gridders
\* approximate, with the w-term.
PhaseOf(s, p) ==
  Phase(SkyL(p), s.u, fourierJob.imageWidth) + Phase(SkyM(p), s.v, fourierJob.imageHeight)
  + s.w * SqrtLM(SkyL(p) + fourierJob.dl, SkyM(p) + fourierJob.dm)

HasPlace(s) == fourierJob.gridder = "direct" \/ IsInPlane(Turned(s).u, Turned(s).v)
Value(s) == IF HasPlace(s) THEN s.value ELSE <<0, 0>>
PartsOf(value) == IF fourierJob.isComplex THEN value ELSE <<value[1], 0>>

\* Where samples lie on cells and layers there is nothing to approximate.
IsExact ==
  \/ fourierJob.gridder = "direct"
  \/ fourierJob.mode = "nearest" /\ \A k \in DOMAIN Samples :
       /\ Samples[k].u % OverSampling = 0 /\ Samples[k].v % OverSampling = 0
       /\ LayerToW(WToLayer(Turned(Samples[k]).w)) = Turned(Samples[k]).w
       /\ ScaleX * ScaleY # 1 => Samples[k].w = 0

ImageIsTransform ==
  IsExact /\ savedImage # <<>> =>
    \A p \in 0 .. TrimSize - 1 :
      Scaled(<<savedImage.re[p], savedImage.im[p]>>, fourierJob.totalWeight) =
        PartsOf(ComplexSum(LAMBDA k : Times(Value(Samples[k + 1]), E(-PhaseOf(Samples[k + 1], p))), Len(Samples)))

HasPredicted == fourierJob.gridder # "direct" /\ fourierStep \in {"convolve", "restore", "end"}
ModelValue(p) == IF IsInSky(p) THEN PartsOf(<<fourierJob.model.re[p], fourierJob.model.im[p]>>) ELSE <<0, 0>>
ValuesAreTransform ==
  IsExact /\ HasPredicted =>
    \A k \in DOMAIN Samples : predictedValues[k] =
      IF HasPlace(Samples[k])
      THEN ComplexSum(LAMBDA p : Times(ModelValue(p), E(PhaseOf(Samples[k], p))), TrimSize) ELSE <<>>

\* Whatever the kernel and wherever the samples, predicting is the adjoint of gridding.
PredictingIsAdjoint ==
  HasPredicted =>
    PartsOf(ComplexSum(LAMBDA p : Scaled(Times(<<savedImage.re[p], savedImage.im[p]>>, Conjugated(ModelValue(p))),
                                         fourierJob.totalWeight), TrimSize))
    = PartsOf(ComplexSum(LAMBDA k : IF predictedValues[k + 1] = <<>> THEN <<0, 0>>
                                    ELSE Times(Samples[k + 1].value, Conjugated(predictedValues[k + 1])), Len(Samples)))

\* The uv image is the transform of the image about its centre, with u to the right.
UVIsTransform ==
  savedUV # <<>> => \A p \in 0 .. TrimSize - 1 : savedUV[p] =
    ComplexSum(LAMBDA q : Scaled(E(-CellPhase(SkyL(q), -SkyL(p), TrimWidth) - CellPhase(SkyM(q), SkyM(p), TrimHeight)),
                                 savedImage.re[q]), TrimSize)

\* A restored image is the residual with the beam, which goes round at the edges, at every
\* component of the model.
InBoxRange(d, size) == ((d + BoxSize \div 2) % size) - BoxSize \div 2
BeamAt(dx, dy) ==
  LET l == -InBoxRange(dx, TrimWidth)
      m == InBoxRange(dy, TrimHeight)
  IN  IF l > -(BoxSize \div 2) /\ m < BoxSize \div 2 THEN Gaus(l, m) ELSE 0
RestoredIsResidualAndModel ==
  restoredImage # <<>> /\ fourierJob.beamBox > 0 => \A p \in 0 .. TrimSize - 1 : restoredImage[p] =
    (savedImage.re[p] +
       ComplexSum(LAMBDA q : <<(fourierJob.model.re[q] * BeamAt(X(p, TrimWidth) - X(q, TrimWidth),
                                                                Y(p, TrimWidth) - Y(q, TrimWidth))) % Prime, 0>>,
                  TrimSize)[1]) % Prime

\* In whichever gridder, on however many layers, passes and threads, an image is the Fourier
\* transform of the samples, and predicted values are the transform of the model.
GriddersTransform == ImageIsTransform /\ ValuesAreTransform /\ PredictingIsAdjoint /\ UVIsTransform
                     /\ RestoredIsResidualAndModel
=============================================================================
