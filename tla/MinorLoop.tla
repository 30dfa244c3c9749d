------------------------------ MODULE MinorLoop ------------------------------
(***************************************************************************)
(* GenericClean::ExecuteMajorIteration: the iterations of a CLEAN minor    *)
(* loop on the images of one set.  Without the sub-minor optimization the  *)
(* threads of ThreadedDeconvolutionTools each subtract the psf from their  *)
(* rows; with it, SubMinorLoop first cleans a list of positions and then   *)
(* subtracts the convolved model from the full images.                     *)
(*                                                                         *)
(* Pixels are integers.  The gain is a half, of which the even part is     *)
(* taken, and a psf is given in halves, so that no fraction is lost.  The  *)
(* images of the set have one polarization and a channel each, or are      *)
(* polarizations of one channel, whose integrated image is a root of a sum *)
(* of squares: integrated values are kept as squares, with their sign.     *)
(***************************************************************************)
EXTENDS Integers, Sequences, FiniteSetsExt, SequencesExt

CONSTANT CleanSetups   \* images, psfs and settings

PixelsOf(w, h) == (0 .. w - 1) \X (0 .. h - 1)

\* Borders and thresholds are not negative, and images are as large as the settings say.
ASSUME CleanSetupsAssumption ==
  \A c \in CleanSetups :
    /\ c.width \in Nat \ {0} /\ c.height \in Nat \ {0} /\ c.threads \in Nat \ {0}
    /\ c.dirty \in Seq([PixelsOf(c.width, c.height) -> Int]) \ {<<>>} /\ c.linked \subseteq DOMAIN c.dirty
    /\ c.psfs \in [DOMAIN c.dirty -> [PixelsOf(c.width, c.height) -> Int]]
    /\ c.mask \subseteq PixelsOf(c.width, c.height) /\ c.rmsFactor \in [PixelsOf(c.width, c.height) -> Nat]
    /\ {c.border, c.maxIter, c.keptHalves, c.threshold, c.majorIterThreshold} \subseteq Nat
    /\ {c.subMinor, c.allowNegatives, c.stopOnNegative, c.avx} \subseteq BOOLEAN

VARIABLES
  clean,        \* the images, psfs and settings of the call
  loop,         \* what is done next
  residual,     \* dirtySet
  model,        \* modelSet
  integrated,   \* the buffer with the integrated image
  peakAt,         \* where the peak is, if there is one
  iteration,    \* _iterationNumber
  majorIterThreshold,  \* what is left for the next major iteration, squared
  subtraction,  \* the component, the image it is subtracted from, the threads that still have to
  subMinor,     \* SubMinorModel: the positions with their residuals and models
  reachedMajorThreshold

minorLoopVars == <<clean, loop, residual, model, integrated, peakAt, iteration, majorIterThreshold,
                   subtraction, subMinor, reachedMajorThreshold>>

-----------------------------------------------------------------------------
(* Images *)

CleanPixels == PixelsOf(clean.width, clean.height)
Images == DOMAIN clean.dirty
Blank == [p \in CleanPixels |-> 0]

LeastOf(a, b) == IF a < b THEN a ELSE b
GreatestOf(a, b) == IF a > b THEN a ELSE b
Magnitude(x) == IF x < 0 THEN -x ELSE x
SignedSquare(x) == x * Magnitude(x)

Linked == IF clean.linked = {} THEN Images ELSE clean.linked

\* GetLinearIntegrated; channels are averaged, polarizations are added.
LinearIntegrated(images) ==
  [p \in DOMAIN images[1] |->
     LET sum == MapThenSumSet(LAMBDA i : images[i][p], Linked)
     IN  SignedSquare(IF clean.joined = "channels" THEN sum \div Len(images) ELSE sum)]

\* GetSquareIntegrated.  It is the first polarization that clears the buffer, if it is linked.
Root(square) == CHOOSE r \in 0 .. square : r * r <= square /\ (r + 1) * (r + 1) > square
LeftInBuffer(p) == IF integrated[p] < 0 THEN -Root(-integrated[p]) ELSE Root(integrated[p])
SquareIntegrated(images) ==
  IF clean.joined = "channels" \/ Len(images) = 1
    THEN LinearIntegrated(images)
    ELSE [p \in CleanPixels |->
            MapThenSumSet(LAMBDA i : images[i][p] * images[i][p], Linked)
              + (IF 1 \in Linked THEN 0 ELSE LeftInBuffer(p))]

\* With -rms-background.
Weighted(image) == [p \in CleanPixels |-> image[p] * clean.rmsFactor[p] * clean.rmsFactor[p]]

-----------------------------------------------------------------------------
(* Peaks *)

NoPeak == "none"

\* Without -stop-negative a negative peak is one that is allowed.
AllowNegatives == clean.allowNegatives \/ clean.stopOnNegative

InsideBorder ==
  (clean.border .. GreatestOf(clean.border, clean.width - clean.border) - 1)
    \X (clean.border .. GreatestOf(clean.border, clean.height - clean.border) - 1)

\* Pixels are visited row by row.
IsBefore(p, q) == p[2] < q[2] \/ (p[2] = q[2] /\ p[1] <= q[1])

HeightOf(value) == IF AllowNegatives THEN Magnitude(value) ELSE value

\* The first pixel with the largest value.
HighestOf(image, pixels) ==
  CHOOSE p \in pixels : \A q \in pixels :
    \/ HeightOf(image[p]) > HeightOf(image[q])
    \/ HeightOf(image[p]) = HeightOf(image[q]) /\ IsBefore(p, q)

\* FindPeakWithMask and FindPeakSimple find nothing when nothing is positive, FindPeakAVX
\* starts with the first pixel.
FindPeakAnywhere(image) ==   \* mutant: the border is not left out
  LET found == {p \in clean.mask : HeightOf(image[p]) > 0}
  IN  IF found # {} THEN HighestOf(image, found) ELSE NoPeak
FindPeak(image) ==
  LET found == {p \in InsideBorder \cap clean.mask : HeightOf(image[p]) > 0}
  IN  IF found # {} THEN HighestOf(image, found)
      ELSE IF clean.avx /\ clean.mask = CleanPixels THEN <<0, 0>> ELSE NoPeak

-----------------------------------------------------------------------------
(* Subtracting the psf *)

\* PartialSubtractImage: the psf, with its centre on a pixel, for some rows.
PartialSubtractImage(image, psf, at, factor, startY, endY) ==
  LET offset == <<at[1] - clean.width \div 2, at[2] - clean.height \div 2>>
      columns == GreatestOf(offset[1], 0) .. LeastOf(at[1] + clean.width \div 2, clean.width) - 1
      rows == GreatestOf(offset[2], startY) .. LeastOf(at[2] + clean.height \div 2, endY) - 1
  IN  [p \in CleanPixels |->
         IF p[1] \in columns /\ p[2] \in rows
           THEN image[p] - (psf[<<p[1] - offset[1], p[2] - offset[2]>>] * factor) \div 2
           ELSE image[p]]

\* The rows of a thread.
StartOverlapping(thread) ==   \* mutant: rounded up, as the end is
  (clean.height * thread + clean.threads - 1) \div clean.threads
SliceStart(thread) == (clean.height * thread) \div clean.threads
SliceEnd(thread) == (clean.height * (thread + 1)) \div clean.threads

Gain(value) == 2 * (value \div 4)

-----------------------------------------------------------------------------
(* Convolving, for the sub-minor loop *)

\* Room for the edges, made even.
ConvolutionSize(n) == LET padded == (11 * n + 9) \div 10 IN padded + (padded % 2)

Padded == PixelsOf(ConvolutionSize(clean.width), ConvolutionSize(clean.height))
StartX == (ConvolutionSize(clean.width) - clean.width) \div 2
StartY == (ConvolutionSize(clean.height) - clean.height) \div 2

Untrim(image) ==
  [p \in Padded |-> LET q == <<p[1] - StartX, p[2] - StartY>> IN IF q \in CleanPixels THEN image[q] ELSE 0]
Trim(image) == [p \in CleanPixels |-> image[<<p[1] + StartX, p[2] + StartY>>]]

Cyclic(x, y) == <<x % ConvolutionSize(clean.width), y % ConvolutionSize(clean.height)>>

\* The centre of the kernel goes to the first pixel.
PrepareKernel(image) ==
  [p \in Padded |->
     image[Cyclic(p[1] + ConvolutionSize(clean.width) \div 2, p[2] + ConvolutionSize(clean.height) \div 2)]]

\* The product of the Fourier transforms.
ConvolveSameSize(image, kernel) ==
  LET sources == {q \in Padded : image[q] # 0}
  IN  [p \in Padded |->
         MapThenSumSet(LAMBDA q : (image[q] * kernel[Cyclic(p[1] - q[1], p[2] - q[2])]) \div 2, sources)]

-----------------------------------------------------------------------------
(* The call *)

NoSubtraction == [image |-> 0, threads |-> {}, factors |-> <<>>]

MinorLoopInit ==
  /\ clean \in CleanSetups
  /\ loop = "start" /\ iteration = 0 /\ majorIterThreshold = 0 /\ reachedMajorThreshold = FALSE
  /\ residual = clean.dirty /\ model = [i \in Images |-> Blank]
  /\ integrated = LinearIntegrated(clean.dirty) /\ peakAt = FindPeak(Weighted(integrated))
  /\ subtraction = NoSubtraction
  /\ subMinor = [positions |-> {}, residual |-> <<>>, model |-> <<>>]

\* The signed square of the peak in the whole image.
PeakValue == Weighted(integrated)[peakAt]

\* A part of the first peak is left for the next major iteration.
Start ==
  /\ loop = "start"
  /\ IF peakAt = NoPeak THEN loop' = "aborted" /\ UNCHANGED majorIterThreshold
     ELSE /\ loop' = IF clean.subMinor THEN "find positions" ELSE "iterate"
          /\ majorIterThreshold' = GreatestOf(clean.majorIterThreshold,
               (Magnitude(PeakValue) * clean.keptHalves * clean.keptHalves) \div 4)
  /\ UNCHANGED <<clean, residual, model, integrated, peakAt, iteration, subtraction, subMinor, reachedMajorThreshold>>

\* Whether a peak is cleaned.
FirstThreshold == GreatestOf(clean.threshold, majorIterThreshold)
IsCleaned(value) ==
  /\ Magnitude(value) > FirstThreshold
  /\ iteration < clean.maxIter
  /\ ~(clean.stopOnNegative /\ value < 0)

\* One component: it is added to the models.
AddComponent ==
  /\ loop = "iterate" /\ peakAt # NoPeak /\ IsCleaned(PeakValue)
  /\ model' = [i \in Images |-> [model[i] EXCEPT ![peakAt] = @ + Gain(residual[i][peakAt])]]
  /\ subtraction' = [image |-> 1, threads |-> 0 .. clean.threads - 1,
                     factors |-> [i \in Images |-> Gain(residual[i][peakAt])]]
  /\ loop' = "subtract"
  /\ UNCHANGED <<clean, residual, integrated, peakAt, iteration, majorIterThreshold, subMinor, reachedMajorThreshold>>

\* SubtractionTask: a thread subtracts its rows.
SubtractRows(thread) ==
  LET i == subtraction.image
  IN  /\ loop = "subtract" /\ thread \in subtraction.threads
      /\ residual' = [residual EXCEPT ![i] = PartialSubtractImage(@, clean.psfs[i], peakAt,
                        subtraction.factors[i], SliceStart(thread), SliceEnd(thread))]
      /\ subtraction' = [subtraction EXCEPT !.threads = @ \ {thread}]
      /\ UNCHANGED <<clean, loop, model, integrated, peakAt, iteration, majorIterThreshold, subMinor, reachedMajorThreshold>>

\* SubtractImage returns when it has the results of all threads.
NextImage ==
  /\ loop = "subtract" /\ subtraction.threads = {} /\ subtraction.image < Len(residual)
  /\ subtraction' = [subtraction EXCEPT !.image = @ + 1, !.threads = 0 .. clean.threads - 1]
  /\ UNCHANGED <<clean, loop, residual, model, integrated, peakAt, iteration, majorIterThreshold, subMinor, reachedMajorThreshold>>

NextPeak ==
  /\ loop = "subtract" /\ subtraction.threads = {} /\ subtraction.image = Len(residual)
  /\ integrated' = SquareIntegrated(residual)
  /\ peakAt' = FindPeak(Weighted(SquareIntegrated(residual)))
  /\ iteration' = iteration + 1 /\ loop' = "iterate" /\ subtraction' = NoSubtraction
  /\ UNCHANGED <<clean, residual, model, majorIterThreshold, subMinor, reachedMajorThreshold>>

\* reachedMajorThreshold tells the caller to go on with another major iteration.
Stop(value) ==
  /\ loop' = "done"
  /\ reachedMajorThreshold' =
       (/\ Magnitude(value) <= majorIterThreshold
        /\ iteration > 0
        /\ ~(value < 0 /\ clean.stopOnNegative)
        /\ Magnitude(value) > clean.threshold)

Finish ==
  /\ loop = "iterate"
  /\ IF peakAt = NoPeak
       THEN loop' = "aborted" /\ UNCHANGED reachedMajorThreshold
       ELSE ~IsCleaned(PeakValue) /\ Stop(PeakValue)
  /\ UNCHANGED <<clean, residual, model, integrated, peakAt, iteration, majorIterThreshold, subtraction, subMinor>>

-----------------------------------------------------------------------------
(* SubMinorLoop *)

\* The pixels that the loop considers, with the values they have.
FindPeakPositions ==
  LET found == {p \in InsideBorder \cap clean.mask : HeightOf(Weighted(integrated)[p]) >= FirstThreshold}
  IN  /\ loop = "find positions"
      /\ subMinor' = [positions |-> found,
                      residual |-> [i \in Images |-> [p \in found |-> residual[i][p]]],
                      model |-> [i \in Images |-> [p \in found |-> 0]]]
      /\ loop' = IF found = {} THEN "aborted" ELSE "sub-minor"
      /\ UNCHANGED <<clean, residual, model, integrated, peakAt, iteration, majorIterThreshold, subtraction, reachedMajorThreshold>>

SubMinorValues ==
  LET sum == LinearIntegrated(subMinor.residual)
  IN  [p \in subMinor.positions |-> sum[p] * clean.rmsFactor[p] * clean.rmsFactor[p]]
GetMaxComponent == HighestOf(SubMinorValues, subMinor.positions)

\* The part of the psf that a position sees.
PsfAt(psf, p, at) ==
  LET q == <<p[1] - at[1] + clean.width \div 2, p[2] - at[2] + clean.height \div 2>>
  IN  IF q \in CleanPixels THEN psf[q] ELSE 0

SubMinorComponent ==
  LET at == GetMaxComponent
      factors == [i \in Images |-> Gain(subMinor.residual[i][at])]
  IN  /\ loop = "sub-minor" /\ IsCleaned(SubMinorValues[at])
      /\ subMinor' = [positions |-> subMinor.positions,
                      model |-> [i \in Images |-> [subMinor.model[i] EXCEPT ![at] = @ + factors[i]]],
                      residual |-> [i \in Images |-> [p \in subMinor.positions |->
                         subMinor.residual[i][p] - (PsfAt(clean.psfs[i], p, at) * factors[i]) \div 2]]]
      /\ iteration' = iteration + 1
      /\ UNCHANGED <<clean, loop, residual, model, integrated, peakAt, majorIterThreshold, subtraction, reachedMajorThreshold>>

GetFullIndividualModel(i) ==
  [p \in CleanPixels |-> IF p \in subMinor.positions THEN subMinor.model[i][p] ELSE 0]

\* CorrectResidualDirty: the model, convolved with the psf, is subtracted from the image.
CorrectedResidual(i) ==
  LET convolved == Trim(ConvolveSameSize(Untrim(GetFullIndividualModel(i)), PrepareKernel(Untrim(clean.psfs[i]))))
  IN  [p \in CleanPixels |-> residual[i][p] - convolved[p]]

SubMinorDone ==
  /\ loop = "sub-minor" /\ ~IsCleaned(SubMinorValues[GetMaxComponent])
  /\ residual' = [i \in Images |-> CorrectedResidual(i)]
  /\ model' = [i \in Images |-> [p \in CleanPixels |-> model[i][p] + GetFullIndividualModel(i)[p]]]
  /\ Stop(SubMinorValues[GetMaxComponent])
  /\ UNCHANGED <<clean, integrated, peakAt, iteration, majorIterThreshold, subtraction, subMinor>>

MinorLoopNext ==
  \/ Start \/ AddComponent \/ NextImage \/ NextPeak \/ Finish
  \/ \E thread \in subtraction.threads : SubtractRows(thread)
  \/ FindPeakPositions \/ SubMinorComponent \/ SubMinorDone

MinorLoopSpec == MinorLoopInit /\ [][MinorLoopNext]_minorLoopVars

-----------------------------------------------------------------------------
(* Properties *)

\* The psf around the components of a model.
Response(image, psf, p) ==
  MapThenSumSet(LAMBDA c : (PsfAt(psf, p, c) * image[c]) \div 2, {c \in DOMAIN image : image[c] # 0})

\* What a thread has yet to subtract.
IsPending(i, p) ==
  loop = "subtract" /\
    (\/ i > subtraction.image
     \/ i = subtraction.image
          /\ \E thread \in subtraction.threads : p[2] \in SliceStart(thread) .. SliceEnd(thread) - 1)

\* Every pixel that no thread has yet to subtract from is the dirty image without the
\* model as the psf spreads it, whatever the order of the threads; the sub-minor loop
\* agrees with it at its positions, and its result everywhere (genericclean.cpp,
\* subminorloop.cpp, simpleclean.cpp).
ResidualIsDirtyMinusModel ==
  \A i \in Images :
    /\ \A p \in CleanPixels :
         ~IsPending(i, p) => residual[i][p] = clean.dirty[i][p] - Response(model[i], clean.psfs[i], p)
    /\ \A p \in subMinor.positions :
         subMinor.residual[i][p] = clean.dirty[i][p] - Response(subMinor.model[i], clean.psfs[i], p)

\* The image in which the next component is sought shows the linked images as they are,
\* and a component lies inside the border and the mask, and is positive when negative
\* ones are not allowed (genericclean.cpp, imageset.cpp, simpleclean.cpp).
LinkedSquares ==
  IF clean.joined = "channels" \/ Len(residual) = 1
    THEN LinearIntegrated(residual)
    ELSE [p \in CleanPixels |-> MapThenSumSet(LAMBDA i : residual[i][p] * residual[i][p], Linked)]
ComponentsAllowed ==
  /\ \A i \in Images : \A p \in CleanPixels : model[i][p] # 0 => p \in InsideBorder \cap clean.mask
  /\ loop = "iterate" /\ iteration > 0 => integrated = LinkedSquares
  /\ loop = "iterate" /\ peakAt # NoPeak /\ IsCleaned(PeakValue) => HeightOf(PeakValue) > 0

-----------------------------------------------------------------------------
(* What a setup needs for the subtraction to be exact *)

\* With an odd width the psf is moved half a pixel.
EvenSizes == \A c \in CleanSetups : c.width % 2 = 0 /\ c.height % 2 = 0

\* Where a component sees the psf.
Offset(w, h, p, c) == <<p[1] - c[1] + w \div 2, p[2] - c[2] + h \div 2>>
MayBeCleaned(s) ==
  {c \in s.mask : /\ s.border <= c[1] /\ c[1] < s.width - s.border
                  /\ s.border <= c[2] /\ c[2] < s.height - s.border}

\* How far the repetitions are.
Periods(n) == {-ConvolutionSize(n), 0, ConvolutionSize(n)}

IsRepeated(w, h, q, p, c) ==
  /\ q # Offset(w, h, p, c)
  /\ q[1] - Offset(w, h, p, c)[1] \in Periods(w)
  /\ q[2] - Offset(w, h, p, c)[2] \in Periods(h)

\* The convolution repeats the psf, which is blank where a repetition would be subtracted.
NothingWrapsAround ==
  \A s \in CleanSetups : s.subMinor =>
    \A i \in DOMAIN s.psfs : \A c \in MayBeCleaned(s) : \A p, q \in PixelsOf(s.width, s.height) :
      IsRepeated(s.width, s.height, q, p, c) => s.psfs[i][q] = 0
=============================================================================
