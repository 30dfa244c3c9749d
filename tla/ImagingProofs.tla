---------------------------- MODULE ImagingProofs ----------------------------
(***************************************************************************)
(* The imaging run and the deconvolution of a group.                       *)
(*                                                                         *)
(* ParallelDeconvolution: for any image, any subimages with masks that do  *)
(* not overlap (their boxes may), and any number of scales, iterations and *)
(* groups, subimages that are trimmed, cleaned and copied back in any      *)
(* order do not undo each other's work, and the masks and the component    *)
(* list that they share agree with the model after every iteration. That   *)
(* the masks of an image do not overlap is proved with the components.     *)
(*                                                                         *)
(* ImagingRun: for any accepted settings, any number of polarizations,     *)
(* channels, intervals, groups, major iterations and tasks on their way,   *)
(* and any order in which tasks are executed and called back, the images   *)
(* that are deconvolved or saved were made from what belongs to them. The  *)
(* calls that wsclean makes are in order: one that needs the result of     *)
(* another comes after waiting for it. So what has been made can be read   *)
(* off the calls that are left, those still to make and those not called   *)
(* back yet: an entry with none of its images left has the right residual, *)
(* a channel with no PSF left the right PSF.                               *)
(***************************************************************************)
EXTENDS ParallelDeconvolution, ImagingRun, FiniteSetTheorems, SequenceTheorems,
        WellFoundedInduction, TLAPS

Steps == {"start", "trimmed", "ready", "executed", "masks saved", "added", "done"}
Working(s) == pc[s] \in Steps \ {"start", "done"}

Types ==
  /\ group \in Nat
  /\ subdivision \in Subdivisions
  /\ pc \in [SubImages -> Steps]
  /\ model \subseteq Components
  /\ subModel \in [SubImages -> SUBSET Components]

BetweenPasses == pass \in {"next iteration", "ended"} => AllDone

\* A subimage that is being worked on has everything that the model has inside
\* its mask: nobody else changes the model there.
HoldsModel ==
  \A s \in SubImages : Working(s) => \A c \in model : c.pixel \in Mask(s) => c \in subModel[s]

Private == Types /\ BetweenPasses /\ HoldsModel

LEMMA InitPrivate == DeconvolutionInit => Private
<1> SUFFICES ASSUME DeconvolutionInit PROVE Private  OBVIOUS
<1>1. Types  BY DEF DeconvolutionInit, Types, Steps
<1>2. BetweenPasses  BY DEF DeconvolutionInit, BetweenPasses, AllDone
<1>3. HoldsModel  BY DEF DeconvolutionInit, HoldsModel, Working
<1> QED  BY <1>1, <1>2, <1>3 DEF Private

\* A step inside a subimage that changes neither the model nor takes away from
\* what the subimage holds.
LEMMA InsideSubImage ==
  ASSUME NEW s \in SubImages, NEW step \in Steps, Private,
         Working(s), pc' = [pc EXCEPT ![s] = step],
         subModel' \in [SubImages -> SUBSET Components],
         \A t \in SubImages : subModel[t] \subseteq subModel'[t],
         UNCHANGED <<shared, model>>
  PROVE  Private'
<1>1. Types'  BY DEF Private, Types, shared
<1>2. BetweenPasses'  BY DEF Private, Types, BetweenPasses, AllDone, Working, Steps, shared
<1>3. HoldsModel'
  <2> SUFFICES ASSUME NEW t \in SubImages, Working(t)', NEW c \in model', (c.pixel \in Mask(t))'
               PROVE  c \in subModel'[t]  BY DEF HoldsModel
  <2>1. Working(t)  BY DEF Private, Types, Working
  <2>2. c \in model /\ c.pixel \in Mask(t)  BY DEF Mask, shared
  <2> QED  BY <2>1, <2>2 DEF Private, HoldsModel
<1> QED  BY <1>1, <1>2, <1>3 DEF Private

LEMMA TrimPrivate == ASSUME Private, NEW s \in SubImages, Trim(s) PROVE Private'
<1> USE DEF Trim, shared
<1>1. Types'  BY DEF Private, Types, Steps
<1>2. BetweenPasses'  BY DEF Private, Types, BetweenPasses, AllDone
<1>3. HoldsModel'
  <2> SUFFICES ASSUME NEW t \in SubImages, Working(t)', NEW c \in model', (c.pixel \in Mask(t))'
               PROVE  c \in subModel'[t]  BY DEF HoldsModel
  <2>1. c \in model /\ c.pixel \in Mask(t)  BY DEF Mask
  <2>2. CASE t = s
    <3>1. Mask(s) \subseteq Box(s)  BY SubdivisionsAssumption DEF SubdivisionsAssumption, Private, Types, Mask, Box
    <3>2. subModel'[s] = {d \in model : d.pixel \in Box(s)}  BY DEF Private, Types
    <3> QED  BY <2>1, <2>2, <3>1, <3>2
  <2>3. CASE t # s
    <3>1. Working(t) /\ subModel'[t] = subModel[t]  BY <2>3 DEF Private, Types, Working
    <3> QED  BY <2>1, <3>1 DEF Private, HoldsModel
  <2> QED  BY <2>2, <2>3
<1> QED  BY <1>1, <1>2, <1>3 DEF Private

\* Copying back changes the model inside one mask, which is nobody else's.
LEMMA CopyBackGrows == ASSUME Private, NEW s \in SubImages, CopyBack(s) PROVE model \subseteq model'
<1> USE DEF CopyBack, Copied
<1> SUFFICES ASSUME NEW c \in model PROVE c \in model'  OBVIOUS
<1>1. CASE c.pixel \notin Mask(s)  BY <1>1
<1>2. CASE c.pixel \in Mask(s)
  <2>1. Working(s)  BY DEF Working, Steps
  <2>2. c \in subModel[s]  BY <1>2, <2>1 DEF Private, HoldsModel
  <2> QED  BY <1>2, <2>2
<1> QED  BY <1>1, <1>2

LEMMA CopyBackPrivate == ASSUME Private, NEW s \in SubImages, CopyBack(s) PROVE Private'
<1> USE DEF CopyBack, Copied, shared
<1>1. Types'  BY DEF Private, Types, Steps
<1>2. BetweenPasses'  BY DEF Private, Types, BetweenPasses, AllDone
<1>3. HoldsModel'
  <2> SUFFICES ASSUME NEW t \in SubImages, Working(t)', NEW c \in model', (c.pixel \in Mask(t))'
               PROVE  c \in subModel'[t]  BY DEF HoldsModel
  <2>1. t # s /\ Working(t) /\ subModel'[t] = subModel[t]  BY DEF Private, Types, Working
  <2>2. c.pixel \in Mask(t)  BY DEF Mask
  <2>3. Mask(t) \cap Mask(s) = {}  BY <2>1, SubdivisionsAssumption DEF SubdivisionsAssumption, Private, Types, Mask
  <2>4. c \in model  BY <2>2, <2>3
  <2> QED  BY <2>1, <2>2, <2>4 DEF Private, HoldsModel
<1> QED  BY <1>1, <1>2, <1>3 DEF Private

LEMMA RunSubImagePrivate == ASSUME Private, NEW s \in SubImages, RunSubImage(s) PROVE Private'
<1>1. CASE Trim(s)  BY <1>1, TrimPrivate
<1>2. CASE SetScaleMasks(s)
  <2>1. Working(s) /\ pc' = [pc EXCEPT ![s] = "ready"]  BY <1>2 DEF SetScaleMasks, Working, Steps
  <2>2. UNCHANGED <<shared, model, subModel>>  BY <1>2 DEF SetScaleMasks
  <2> QED  BY <2>1, <2>2, InsideSubImage DEF Private, Types, Steps
<1>3. CASE ExecuteMajorIteration(s)
  <2>1. Working(s) /\ UNCHANGED <<shared, model>>  BY <1>3 DEF ExecuteMajorIteration, Working, Steps
  <2>2. PICK step \in Steps : pc' = [pc EXCEPT ![s] = step]  BY <1>3 DEF ExecuteMajorIteration, Steps
  <2>3. PICK C \in Findable(s) : subModel' = [subModel EXCEPT ![s] = @ \cup C]  BY <1>3 DEF ExecuteMajorIteration
  <2>4. C \subseteq Components  BY <2>3 DEF Findable
  <2>5. subModel' \in [SubImages -> SUBSET Components] /\ \A t \in SubImages : subModel[t] \subseteq subModel'[t]
    BY <2>3, <2>4 DEF Private, Types
  <2> QED  BY <2>1, <2>2, <2>5, InsideSubImage
<1>4. CASE WriteScaleMasks(s)
  <2>1. Working(s) /\ pc' = [pc EXCEPT ![s] = "masks saved"]  BY <1>4 DEF WriteScaleMasks, Working, Steps
  <2>2. UNCHANGED <<shared, model, subModel>>  BY <1>4 DEF WriteScaleMasks
  <2> QED  BY <2>1, <2>2, InsideSubImage DEF Private, Types, Steps
<1>5. CASE AddComponents(s)
  <2>1. Working(s) /\ UNCHANGED <<shared, model, subModel>>  BY <1>5 DEF AddComponents, Working, Steps
  <2>2. PICK step \in Steps : pc' = [pc EXCEPT ![s] = step]  BY <1>5 DEF AddComponents, Steps
  <2> QED  BY <2>1, <2>2, InsideSubImage DEF Private, Types
<1>6. CASE CopyBack(s)  BY <1>6, CopyBackPrivate
<1> QED  BY <1>1, <1>2, <1>3, <1>4, <1>5, <1>6 DEF RunSubImage

\* Outside of the loops over the subimages nobody is being worked on.
LEMMA NextPrivate == ASSUME Private, [DeconvolutionNext]_deconvolutionVars PROVE Private'
<1> USE DEF Private, Types, BetweenPasses, HoldsModel, AllDone, Working, Steps, Mask
<1>1. CASE Perform  BY <1>1 DEF Perform
<1>2. CASE RunDeconvolution  BY <1>2 DEF RunDeconvolution
<1>3. ASSUME NEW reached \in BOOLEAN, FinishIteration(reached) PROVE Private'  BY <1>3 DEF FinishIteration
<1>4. CASE InitializeDeconvolutionAlgorithm
  <2>1. group' \in Nat
    <3>1. group' = group + 1  BY <1>4, Zenon DEF InitializeDeconvolutionAlgorithm
    <3>2. group \in Nat  OBVIOUS
    <3> HIDE DEF Private
    <3> QED  BY <3>1, <3>2
  <2>2. model' = {} /\ pass = "ended" /\ UNCHANGED <<subdivision, pc, subModel>>
    BY <1>4 DEF InitializeDeconvolutionAlgorithm
  <2> QED  BY <2>1, <2>2
<1>5. ASSUME NEW s \in SubImages, RunSubImage(s) PROVE Private'
  <2> HIDE DEF Private
  <2> QED  BY <1>5, RunSubImagePrivate
<1>6. CASE UNCHANGED deconvolutionVars  BY <1>6 DEF deconvolutionVars, shared
<1> QED  BY <1>1, <1>2, <1>3, <1>4, <1>5, <1>6 DEF DeconvolutionNext, Done

LEMMA NextGrows == ASSUME Private, [DeconvolutionNext]_deconvolutionVars, group' = group PROVE model \subseteq model'
<1>1. CASE InitializeDeconvolutionAlgorithm
  <2>1. group' = group + 1  BY <1>1 DEF InitializeDeconvolutionAlgorithm
  <2> QED  BY <2>1 DEF Private, Types
<1>2. ASSUME NEW s \in SubImages, RunSubImage(s) PROVE model \subseteq model'
  <2>1. CASE CopyBack(s)  BY <2>1, CopyBackGrows
  <2>2. CASE ~CopyBack(s)
    BY <1>2, <2>2 DEF RunSubImage, Trim, SetScaleMasks, ExecuteMajorIteration, WriteScaleMasks, AddComponents
  <2> QED  BY <2>1, <2>2
<1>3. CASE Perform \/ RunDeconvolution \/ \E reached \in BOOLEAN : FinishIteration(reached)
  BY <1>3 DEF Perform, RunDeconvolution, FinishIteration
<1>4. CASE UNCHANGED deconvolutionVars  BY <1>4 DEF deconvolutionVars
<1> QED  BY <1>1, <1>2, <1>3, <1>4 DEF DeconvolutionNext, Done

\* No subimage undoes what another one, or an earlier iteration, has cleaned:
\* the model of a group only grows, in whatever order subimages are trimmed and
\* copied back (runSubImage, CopyMasked).
THEOREM DeconvolutionModelOnlyGrows == DeconvolutionSpec => ModelOnlyGrows
<1>1. Private /\ [DeconvolutionNext]_deconvolutionVars => Private'  BY NextPrivate
<1>2. Private /\ [DeconvolutionNext]_deconvolutionVars => [group' = group => model \subseteq model']_deconvolutionVars  BY NextGrows
<1> QED  BY InitPrivate, <1>1, <1>2, PTL DEF DeconvolutionSpec, ModelOnlyGrows

----
\* What the algorithms and subimages hold (SubImagesAgreeWithModel).
InPass == pass \in {"find peak", "clean"}

\* The masks and the list are exactly those of the model until an iteration has cleaned
\* inside the masks only.
Exact == ~autoMaskIsFinished \/ ~usePerScaleMasks

Phases ==
  /\ InPass => usePerScaleMasks = autoMaskIsFinished /\ rmsImage = ~usePerScaleMasks
  /\ \A s \in SubImages :
       /\ pc[s] = "executed" => ~usePerScaleMasks
       /\ pc[s] = "added" => pass = "clean"

\* An algorithm that was run has a mask for every scale it will use.
Executed(s) == pass = "clean" \/ (pass = "find peak" /\ pc[s] \notin {"start", "trimmed", "ready"})
Counts ==
  \A s \in SubImages :
    /\ scaleCount[s] # 0 => scaleCount[s] <= Len(algMasks[s])
    /\ autoMaskIsFinished \/ Executed(s) => scaleCount[s] # 0

\* Until the first subimage has saved its masks nothing was cleaned.
Unsaved(s) ==
  /\ \/ pass = "next iteration" /\ pc[s] = "done"
     \/ pass = "find peak" /\ pc[s] \in {"start", "trimmed", "ready", "executed"}
  /\ ~autoMaskIsFinished
  /\ pc[s] # "executed" => algMasks[s] = <<>>
NothingSaved ==
  scaleMasks = <<>> =>
    /\ model = {} /\ inherited.masks = <<>>
    /\ \A s \in SubImages : Unsaved(s)

\* What an algorithm holds belongs to the subimage it is running on.
OwnBox ==
  \A s \in SubImages :
    /\ algRms[s] = IF pc[s] \in {"trimmed", "ready"} /\ ~usePerScaleMasks THEN Box(s) ELSE NoImage
    /\ pc[s] \notin {"executed", "masks saved"} => algList[s] = NoList
    /\ pc[s] = "ready" => \A i \in DOMAIN algMasks[s] : algMasks[s][i].box = Box(s)

\* Nothing is found before the flux is cleaned, and nothing at a scale that is not used.
SubModels ==
  \A s \in SubImages : \A c \in subModel[s] :
    c.pixel \in Mask(s) =>
      /\ Working(s) /\ (pass = "find peak" \/ pc[s] \in {"trimmed", "ready"}) => c \in model
      /\ pc[s] = "executed" /\ c \notin model => c.scale <= scaleCount[s]

\* The components that the kept masks, or the list, have been told of.
HasSaved(s) == pc[s] \in {"masks saved", "added"}
Held(c) ==
  c \in model \/ \E s \in SubImages : HasSaved(s) /\ c.pixel \in Mask(s) /\ c \in subModel[s]
Listed(c) ==
  c \in model \/ \E s \in SubImages : pc[s] = "added" /\ c.pixel \in Mask(s) /\ c \in subModel[s]

KeptMasks ==
  Exact => \A i \in DOMAIN scaleMasks : \A p \in Pixels :
    p \in scaleMasks[i] <=>
      p \in Inherited(i) \/ \E c \in Components : c.scale = i /\ c.pixel = p /\ Held(c)

\* The masks of an algorithm, where they are copied back.
Scales == IF scaleMasks = <<>> THEN 1 .. MaxScales ELSE DOMAIN scaleMasks
InMask(s, i, p) == i \in DOMAIN algMasks[s] /\ p \in algMasks[s][i].pixels
AlgorithmMasks ==
  Exact => \A s \in SubImages : pc[s] \in {"ready", "executed"} =>
    \A i \in Scales : \A p \in Mask(s) :
      InMask(s, i, p) <=>
        p \in Inherited(i) \/ \E c \in subModel[s] : c.scale = i /\ c.pixel = p

KeptList ==
  \A c \in Components :
    /\ Added(c) >= 0 /\ (Listed(c) => Added(c) >= 1)
    /\ Exact => Added(c) = IF Listed(c) THEN 1 ELSE 0

\* The list of an algorithm has what its subimage found.
AlgorithmLists ==
  \A s \in SubImages : pc[s] \in {"executed", "masks saved"} =>
    /\ \A c \in subModel[s] :
         c.pixel \in Mask(s) => c \in model \/ c \in algList[s].components
    /\ Exact => \A c \in algList[s].components :
         c.pixel \in Mask(s) /\ c \in subModel[s] /\ c \notin model

Agreement ==
  /\ Phases /\ Counts /\ NothingSaved /\ OwnBox /\ SubModels
  /\ KeptMasks /\ AlgorithmMasks /\ KeptList /\ AlgorithmLists

IInv == DeconvolutionTypeOK /\ Private /\ Agreement

\* Two numbers have a least and a largest.
LEMMA MinOfTwo == ASSUME NEW a \in Nat, NEW b \in Nat PROVE Min({a, b}) \in {a, b} /\ Min({a, b}) <= a /\ Min({a, b}) <= b
<1>1. \E x \in {a, b} : \A y \in {a, b} : x <= y
  <2>1. CASE a <= b BY <2>1
  <2>2. CASE b <= a BY <2>2
  <2> QED BY <2>1, <2>2
<1> QED BY <1>1 DEF Min

LEMMA MaxOfTwo == ASSUME NEW a \in Nat, NEW b \in Nat PROVE Max({a, b}) \in {a, b} /\ Max({a, b}) >= a /\ Max({a, b}) >= b
<1>1. \E x \in {a, b} : \A y \in {a, b} : x >= y
  <2>1. CASE a >= b BY <2>1
  <2>2. CASE b >= a BY <2>2
  <2> QED BY <2>1, <2>2
<1> QED BY <1>1 DEF Max

\* An algorithm uses at least one scale, and never more than in the iteration before.
LEMMA ScalesUsed ==
  ASSUME DeconvolutionTypeOK, NEW s \in SubImages
  PROVE  ScalesFor(s) \in 1 .. MaxScales /\ (scaleCount[s] # 0 => ScalesFor(s) <= scaleCount[s])
<1>1. Box(s) \subseteq Pixels /\ Box(s) # {}
  BY SubdivisionsAssumption DEF SubdivisionsAssumption, DeconvolutionTypeOK, Box
<1>2. IsFiniteSet(Box(s)) BY <1>1, FS_Subset, BoundsAssumption DEF BoundsAssumption
<1>3. Cardinality(Box(s)) \in Nat BY <1>2, FS_CardinalityType
<1>4. Cardinality(Box(s)) # 0 BY <1>1, <1>2, FS_EmptySet
<1>5. MaxScales \in Nat \ {0} BY BoundsAssumption DEF BoundsAssumption
<1> HIDE DEF DeconvolutionTypeOK, Box
<1> DEFINE fits == Fits(Box(s)) card == Cardinality(Box(s))
<1>6. fits \in 1 .. MaxScales
  <2> HIDE DEF card
  <2>1. card \in Nat \ {0} BY <1>3, <1>4 DEF card
  <2>2. Min({MaxScales, card}) \in {MaxScales, card} /\ Min({MaxScales, card}) <= MaxScales  BY <2>1, <1>5, MinOfTwo
  <2>3. fits = Min({MaxScales, card}) BY DEF Fits, card
  <2> HIDE DEF fits
  <2> QED BY <2>1, <2>2, <2>3, <1>5
<1>7. scaleCount[s] \in 0 .. MaxScales BY DEF DeconvolutionTypeOK
<1> HIDE DEF fits
<1>8. CASE scaleCount[s] = 0 BY <1>6, <1>8 DEF ScalesFor, fits
<1>9. CASE scaleCount[s] # 0
  <2>1. scaleCount[s] \in Nat /\ fits \in Nat BY <1>5, <1>6, <1>7
  <2>2. Min({scaleCount[s], fits}) \in {scaleCount[s], fits} /\ Min({scaleCount[s], fits}) <= scaleCount[s]
    BY <2>1, MinOfTwo
  <2>3. ScalesFor(s) = Min({scaleCount[s], fits}) BY <1>9 DEF ScalesFor, fits
  <2> QED BY <2>2, <2>3, <1>5, <1>6, <1>7, <1>9
<1> QED BY <1>8, <1>9

MaskType == [box : SUBSET Pixels, pixels : SUBSET Pixels]

LEMMA SeqOfFunction ==
  ASSUME NEW S, NEW n \in Nat, NEW f \in [1 .. n -> S]
  PROVE  f \in Seq(S) /\ Len(f) = n /\ DOMAIN f = 1 .. n
<1>1. f \in Seq(S) BY SeqDef
<1>2. DOMAIN f = 1 .. n /\ DOMAIN f = 1 .. Len(f) /\ Len(f) \in Nat BY <1>1, LenProperties
<1>3. Len(f) = n
  <2>1. CASE n < Len(f) BY <2>1, <1>2
  <2>2. CASE Len(f) < n BY <2>2, <1>2
  <2> QED BY <2>1, <2>2, <1>2
<1> QED BY <1>1, <1>2, <1>3

LEMMA PixelsOfComponents ==
  ASSUME NEW C \in SUBSET Components, NEW i
  PROVE  PixelsAt(C, i) \subseteq Pixels /\ \A p : p \in PixelsAt(C, i) <=> \E c \in C : c.scale = i /\ c.pixel = p
BY DEF PixelsAt, Components

\* The masks that a subimage gets from the kept ones.
LEMMA MasksFromKept ==
  ASSUME DeconvolutionTypeOK, NEW s \in SubImages, SetScaleMasks(s), scaleMasks # <<>>
  PROVE  /\ algMasks' \in [SubImages -> Seq(MaskType)]
         /\ DOMAIN algMasks'[s] = 1 .. Len(algMasks'[s])
         /\ Len(algMasks'[s]) >= Len(scaleMasks) /\ Len(algMasks'[s]) >= Len(algMasks[s])
         /\ \A i \in DOMAIN algMasks'[s] :
              /\ algMasks'[s][i].box = Box(s)
              /\ algMasks'[s][i].pixels = IF i <= Len(scaleMasks) THEN scaleMasks[i] \cap Box(s) ELSE {}
         /\ \A t \in SubImages \ {s} : algMasks'[t] = algMasks[t]
<1> DEFINE n == Max({Len(algMasks[s]), Len(scaleMasks)})
           e(i) == [box |-> Box(s), pixels |-> IF i <= Len(scaleMasks) THEN scaleMasks[i] \cap Box(s) ELSE {}]
           new == [i \in 1 .. n |-> e(i)]
<1>1. algMasks \in [SubImages -> Seq(MaskType)] /\ scaleMasks \in Seq(SUBSET Pixels)
  BY DEF DeconvolutionTypeOK, MaskType
<1>2. Len(algMasks[s]) \in Nat /\ Len(scaleMasks) \in Nat /\ DOMAIN scaleMasks = 1 .. Len(scaleMasks)
      /\ scaleMasks \in [1 .. Len(scaleMasks) -> SUBSET Pixels]  BY <1>1, LenProperties
<1>3. n \in Nat /\ n >= Len(algMasks[s]) /\ n >= Len(scaleMasks) BY <1>2, MaxOfTwo
<1>4. algMasks' = [algMasks EXCEPT ![s] = new] BY DEF SetScaleMasks
<1>5. Box(s) \subseteq Pixels  BY SubdivisionsAssumption DEF SubdivisionsAssumption, DeconvolutionTypeOK, Box
<1> HIDE DEF n
<1>6. \A i \in 1 .. n : e(i) \in MaskType BY <1>2, <1>3, <1>5 DEF MaskType
<1>7. new \in [1 .. n -> MaskType] BY <1>6
<1>8. new \in Seq(MaskType) /\ Len(new) = n /\ DOMAIN new = 1 .. n BY <1>3, <1>7, SeqOfFunction
<1>9. algMasks'[s] = new /\ (\A t \in SubImages \ {s} : algMasks'[t] = algMasks[t])
      /\ algMasks' \in [SubImages -> Seq(MaskType)]  BY <1>1, <1>4, <1>8
<1>10. \A i \in DOMAIN new :
         /\ new[i].box = Box(s)
         /\ new[i].pixels = IF i <= Len(scaleMasks) THEN scaleMasks[i] \cap Box(s) ELSE {}  BY <1>8
<1> HIDE DEF new
<1> QED BY <1>3, <1>8, <1>9, <1>10

\* The masks of an algorithm after it has found the components C.
LEMMA MasksWithComponents ==
  ASSUME DeconvolutionTypeOK, NEW s \in SubImages, NEW C \in SUBSET Components,
         NEW new, new = WithComponents(WithEmptyMasks(algMasks[s], s), C)
  PROVE  /\ new \in Seq(MaskType) /\ DOMAIN new = 1 .. Len(new)
         /\ Len(new) >= Len(algMasks[s]) /\ Len(new) >= ScalesFor(s)
         /\ \A i \in DOMAIN new :
              new[i].pixels = (IF i <= Len(algMasks[s]) THEN algMasks[s][i].pixels ELSE {}) \cup PixelsAt(C, i)
<1> DEFINE n == Max({Len(algMasks[s]), ScalesFor(s)})
           e(i) == IF i <= Len(algMasks[s]) THEN algMasks[s][i] ELSE [box |-> Box(s), pixels |-> {}]
           f(i) == [e(i) EXCEPT !.pixels = @ \cup PixelsAt(C, i)]
<1>1. algMasks \in [SubImages -> Seq(MaskType)] BY DEF DeconvolutionTypeOK, MaskType
<1>2. /\ Len(algMasks[s]) \in Nat
      /\ algMasks[s] \in [1 .. Len(algMasks[s]) -> MaskType]  BY <1>1, LenProperties
<1>3. ScalesFor(s) \in Nat BY ScalesUsed, BoundsAssumption DEF BoundsAssumption
<1>4. n \in Nat /\ n >= Len(algMasks[s]) /\ n >= ScalesFor(s) BY <1>2, <1>3, MaxOfTwo
<1>5. Box(s) \subseteq Pixels  BY SubdivisionsAssumption DEF SubdivisionsAssumption, DeconvolutionTypeOK, Box
<1>6. WithEmptyMasks(algMasks[s], s) = [i \in 1 .. n |-> e(i)] BY DEF WithEmptyMasks
<1> HIDE DEF n
<1>7. new = [i \in 1 .. n |-> f(i)] BY <1>6 DEF WithComponents
<1>8. \A i \in 1 .. n : e(i) \in MaskType BY <1>2, <1>4, <1>5 DEF MaskType
<1>9. \A i : PixelsAt(C, i) \subseteq Pixels BY PixelsOfComponents
<1>10. \A i \in 1 .. n : f(i) \in MaskType /\ f(i).pixels = e(i).pixels \cup PixelsAt(C, i)
  <2> SUFFICES ASSUME NEW i \in 1 .. n
               PROVE  f(i) \in MaskType /\ f(i).pixels = e(i).pixels \cup PixelsAt(C, i)  OBVIOUS
  <2>1. \A m \in MaskType, P \in SUBSET Pixels :
          LET g == [m EXCEPT !.pixels = @ \cup P] IN g \in MaskType /\ g.pixels = m.pixels \cup P  BY DEF MaskType
  <2>2. e(i) \in MaskType /\ PixelsAt(C, i) \in SUBSET Pixels BY <1>8, <1>9
  <2> HIDE DEF e
  <2> QED BY <2>1, <2>2
<1>11. new \in [1 .. n -> MaskType] BY <1>7, <1>10
<1>12. new \in Seq(MaskType) /\ Len(new) = n /\ DOMAIN new = 1 .. n BY <1>4, <1>11, SeqOfFunction
<1> QED BY <1>4, <1>7, <1>10, <1>12


\* The masks that are kept after a subimage has saved its own.
LEMMA MasksSaved ==
  ASSUME DeconvolutionTypeOK, NEW s \in SubImages, WriteScaleMasks(s),
         scaleCount[s] <= Len(algMasks[s])
  PROVE  /\ scaleMasks' \in Seq(SUBSET Pixels)
         /\ DOMAIN scaleMasks' = IF scaleMasks = <<>> THEN 1 .. scaleCount[s] ELSE DOMAIN scaleMasks
         /\ \A i \in DOMAIN scaleMasks' : \A p \in Pixels :
              p \in scaleMasks'[i] <=>
                IF i <= scaleCount[s] /\ p \in Mask(s) THEN p \in algMasks[s][i].pixels
                ELSE scaleMasks # <<>> /\ p \in scaleMasks[i]
<1> DEFINE global == IF scaleMasks = <<>> THEN [i \in 1 .. scaleCount[s] |-> {}] ELSE scaleMasks
           n == IF scaleMasks = <<>> THEN scaleCount[s] ELSE Len(scaleMasks)
           e(i) == IF i <= scaleCount[s] THEN Merged(global[i], algMasks[s][i].pixels, s) ELSE global[i]
<1>1. algMasks[s] \in Seq(MaskType) /\ scaleMasks \in Seq(SUBSET Pixels) /\ scaleCount[s] \in Nat
  <2>1. scaleCount[s] \in 0 .. MaxScales /\ scaleMasks \in Seq(SUBSET Pixels)  BY DEF DeconvolutionTypeOK
  <2>2. algMasks \in [SubImages -> Seq(MaskType)] BY DEF DeconvolutionTypeOK, MaskType
  <2> QED BY <2>1, <2>2, BoundsAssumption DEF BoundsAssumption
<1>2. /\ Len(scaleMasks) \in Nat /\ scaleMasks \in [1 .. Len(scaleMasks) -> SUBSET Pixels]
      /\ Len(algMasks[s]) \in Nat /\ algMasks[s] \in [1 .. Len(algMasks[s]) -> MaskType]  BY <1>1, LenProperties
<1>3. n \in Nat BY <1>1, <1>2
<1>4. global \in [1 .. n -> SUBSET Pixels] BY <1>1, <1>2
<1>5. scaleMasks' = [i \in DOMAIN global |-> e(i)] BY DEF WriteScaleMasks
<1> HIDE DEF n, global
<1>6. scaleMasks' = [i \in 1 .. n |-> e(i)] BY <1>4, <1>5
<1>7. \A i \in 1 .. n : e(i) \in SUBSET Pixels
  <2> SUFFICES ASSUME NEW i \in 1 .. n PROVE e(i) \in SUBSET Pixels OBVIOUS
  <2>1. global[i] \in SUBSET Pixels BY <1>4
  <2>2. CASE i <= scaleCount[s]
    <3>1. i \in 1 .. Len(algMasks[s]) BY <2>2, <1>1, <1>2, <1>3
    <3>2. algMasks[s][i].pixels \subseteq Pixels BY <1>2, <3>1 DEF MaskType
    <3> QED BY <2>1, <2>2, <3>2 DEF Merged
  <2> QED BY <2>1, <2>2
<1>8. scaleMasks' \in [1 .. n -> SUBSET Pixels] BY <1>6, <1>7
<1>9. scaleMasks' \in Seq(SUBSET Pixels) /\ DOMAIN scaleMasks' = 1 .. n BY <1>3, <1>8, SeqOfFunction
<1>10. 1 .. n = IF scaleMasks = <<>> THEN 1 .. scaleCount[s] ELSE DOMAIN scaleMasks BY <1>2 DEF n
<1>11. \A i \in 1 .. n : \A p : p \in global[i] <=> scaleMasks # <<>> /\ p \in scaleMasks[i]  BY <1>2 DEF n, global
<1>12. \A i \in 1 .. n : scaleMasks'[i] = e(i) BY <1>6
<1> QED BY <1>9, <1>10, <1>11, <1>12 DEF Merged

\* A pixel is in the mask of at most one subimage, and inside its box.
LEMMA MasksApart ==
  ASSUME DeconvolutionTypeOK, NEW s \in SubImages, NEW t \in SubImages, s # t
  PROVE  Mask(s) \cap Mask(t) = {}  BY SubdivisionsAssumption DEF SubdivisionsAssumption, DeconvolutionTypeOK, Mask

LEMMA MaskInBox ==
  ASSUME DeconvolutionTypeOK, NEW s \in SubImages
  PROVE  Mask(s) \subseteq Box(s) /\ Box(s) \subseteq Pixels
BY SubdivisionsAssumption DEF SubdivisionsAssumption, DeconvolutionTypeOK, Mask, Box

\* Subimages are being worked on inside the loops over them only.
LEMMA WorkInPass ==
  ASSUME IInv, NEW s \in SubImages, pc[s] # "done"
  PROVE  InPass  BY DEF IInv, Private, BetweenPasses, AllDone, DeconvolutionTypeOK, InPass

\* An algorithm has been told of the masks of every scale it used.
LEMMA EnoughMasks ==
  ASSUME IInv, NEW s \in SubImages
  PROVE  scaleCount[s] \in Nat /\ Len(algMasks[s]) \in Nat /\ scaleCount[s] <= Len(algMasks[s])
<1>1. scaleCount[s] \in 0 .. MaxScales /\ algMasks[s] \in Seq(MaskType)  BY DEF IInv, DeconvolutionTypeOK, MaskType
<1>2. scaleCount[s] \in Nat BY <1>1, BoundsAssumption DEF BoundsAssumption
<1>3. Len(algMasks[s]) \in Nat BY <1>1, LenProperties
<1>4. scaleCount[s] # 0 => scaleCount[s] <= Len(algMasks[s]) BY DEF IInv, Agreement, Counts
<1> QED BY <1>2, <1>3, <1>4

\* The components that an execution may find.
LEMMA FoundComponents ==
  ASSUME NEW s \in SubImages, NEW C \in Findable(s)
  PROVE  /\ C \subseteq Components
         /\ pass = "find peak" => C = {}
         /\ \A c \in C : /\ c.scale <= ScalesFor(s) /\ c \notin subModel[s]
                         /\ ~usePerScaleMasks => c.pixel \in Mask(s)  BY DEF Findable, CleanMask, SameFlux

----
\* Types.
LEMMA InitTypes == ASSUME DeconvolutionInit PROVE DeconvolutionTypeOK
<1>1. <<>> \in Seq(SUBSET Pixels) /\ <<>> \in Seq(MaskType)  OBVIOUS
<1>2. group \in 1 .. MaxGroups /\ iteration \in 1 .. MajorIterationCount
  <2>1. group = 1 /\ iteration = 1 BY DEF DeconvolutionInit
  <2> QED BY <2>1, BoundsAssumption DEF BoundsAssumption
<1>3. scaleCount \in [SubImages -> 0 .. MaxScales]
  <2>1. 0 \in 0 .. MaxScales BY BoundsAssumption DEF BoundsAssumption
  <2>2. scaleCount = [s \in SubImages |-> 0] BY DEF DeconvolutionInit, NewAlgorithms
  <2> QED BY <2>1, <2>2
<1>4. algMasks \in [SubImages -> Seq(MaskType)]
  <2>1. algMasks = [s \in SubImages |-> <<>>] BY DEF DeconvolutionInit, NewAlgorithms
  <2> QED BY <1>1, <2>1
<1> QED
  BY <1>1, <1>2, <1>3, <1>4 DEF DeconvolutionInit, DeconvolutionTypeOK, NewAlgorithms, NoList, NoImage, MaskType

LEMMA OutsideTypes ==
  ASSUME IInv, \/ Perform \/ RunDeconvolution \/ (\E reached \in BOOLEAN : FinishIteration(reached))
               \/ InitializeDeconvolutionAlgorithm
  PROVE  DeconvolutionTypeOK'
<1>1. DeconvolutionTypeOK BY DEF IInv
<1>2. CASE Perform BY <1>1, <1>2 DEF Perform, DeconvolutionTypeOK, algorithms
<1>3. CASE RunDeconvolution  BY <1>1, <1>3 DEF RunDeconvolution, RmsBetweenLoops, DeconvolutionTypeOK, algorithms
<1>4. ASSUME NEW reached \in BOOLEAN, FinishIteration(reached) PROVE DeconvolutionTypeOK'
  <2>1. iteration' \in 1 .. MajorIterationCount
    <3>1. iteration \in 1 .. MajorIterationCount BY <1>1 DEF DeconvolutionTypeOK
    <3>2. iteration' = iteration \/ (iteration < MajorIterationCount /\ iteration' = iteration + 1)
      BY <1>4 DEF FinishIteration
    <3> QED BY <3>1, <3>2, BoundsAssumption DEF BoundsAssumption
  <2> QED BY <1>1, <1>4, <2>1 DEF FinishIteration, DeconvolutionTypeOK, algorithms
<1>5. CASE InitializeDeconvolutionAlgorithm
  <2>1. group' \in 1 .. MaxGroups
    <3>1. group \in 1 .. MaxGroups BY <1>1 DEF DeconvolutionTypeOK
    <3>2. group < MaxGroups /\ group' = group + 1 BY <1>5, Zenon DEF InitializeDeconvolutionAlgorithm
    <3> QED BY <3>1, <3>2, BoundsAssumption DEF BoundsAssumption
  <2>2. iteration' \in 1 .. MajorIterationCount
    <3>1. iteration' = 1 BY <1>5, Zenon DEF InitializeDeconvolutionAlgorithm
    <3> QED BY <3>1, BoundsAssumption DEF BoundsAssumption
  <2>3. scaleCount' \in [SubImages -> 0 .. MaxScales]
    <3>1. scaleCount' = [s \in SubImages |-> 0]  BY <1>5, Zenon DEF InitializeDeconvolutionAlgorithm, NewAlgorithms
    <3> QED BY <3>1, BoundsAssumption DEF BoundsAssumption
  <2>4. /\ algMasks' \in [SubImages -> Seq(MaskType)]
        /\ algList' \in [SubImages -> [box : SUBSET Pixels, components : SUBSET Components]]
        /\ algRms' \in [SubImages -> SUBSET Pixels]
    <3>1. <<>> \in Seq(MaskType) OBVIOUS
    <3>2. algMasks' = [s \in SubImages |-> <<>>] BY <1>5 DEF InitializeDeconvolutionAlgorithm, NewAlgorithms
    <3>3. algList' = [s \in SubImages |-> NoList] /\ algRms' = [s \in SubImages |-> NoImage]
      BY <1>5 DEF InitializeDeconvolutionAlgorithm, NewAlgorithms
    <3> QED BY <3>1, <3>2, <3>3 DEF NoList, NoImage
  <2>5. /\ autoMaskIsFinished' = FALSE /\ pass' = "next iteration" /\ model' = {}
        /\ inherited' = [masks |-> scaleMasks, list |-> componentList]
        /\ UNCHANGED <<usePerScaleMasks, subdivision, pc, rmsImage, scaleMasks, componentList, subModel>>
    BY <1>5 DEF InitializeDeconvolutionAlgorithm
  <2> QED BY <1>1, <2>1, <2>2, <2>3, <2>4, <2>5 DEF DeconvolutionTypeOK, MaskType
<1> QED BY <1>2, <1>3, <1>4, <1>5

LEMMA InsideTypes ==
  ASSUME IInv, NEW s \in SubImages, RunSubImage(s)
  PROVE  DeconvolutionTypeOK'
<1>1. DeconvolutionTypeOK BY DEF IInv
<1>2. CASE Trim(s)
  <2>1. Box(s) \subseteq Pixels BY <1>1, MaskInBox
  <2> QED BY <1>1, <1>2, <2>1 DEF Trim, shared, DeconvolutionTypeOK
<1>3. CASE SetScaleMasks(s)
  <2>1. algMasks' \in [SubImages -> Seq(MaskType)]
    <3>1. CASE scaleMasks = <<>>
      <4>1. algMasks' = algMasks BY <1>1, <1>3, <3>1 DEF SetScaleMasks, DeconvolutionTypeOK
      <4> QED BY <1>1, <4>1 DEF DeconvolutionTypeOK, MaskType
    <3>2. CASE scaleMasks # <<>> BY <1>1, <1>3, <3>2, MasksFromKept
    <3> QED BY <3>1, <3>2
  <2>2. /\ pc' = [pc EXCEPT ![s] = "ready"]
        /\ UNCHANGED <<shared, scaleMasks, componentList, model, subModel, scaleCount, algList, algRms>>
    BY <1>3 DEF SetScaleMasks
  <2> QED BY <1>1, <2>1, <2>2 DEF shared, DeconvolutionTypeOK, MaskType
<1>4. CASE ExecuteMajorIteration(s)
  <2>1. PICK C \in Findable(s) :
          /\ algMasks' = [algMasks EXCEPT ![s] =
               IF usePerScaleMasks THEN @ ELSE WithComponents(WithEmptyMasks(@, s), C)]
          /\ algList' = [algList EXCEPT ![s] =
               IF @ = NoList THEN [box |-> Box(s), components |-> C]
               ELSE [box |-> @.box, components |-> @.components \cup C]]
          /\ subModel' = [subModel EXCEPT ![s] = @ \cup C]  BY <1>4 DEF ExecuteMajorIteration
  <2>2. C \subseteq Components BY FoundComponents
  <2>3. Box(s) \subseteq Pixels BY <1>1, MaskInBox
  <2>4. algMasks' \in [SubImages -> Seq(MaskType)]
    <3> DEFINE new == WithComponents(WithEmptyMasks(algMasks[s], s), C)
    <3>1. new \in Seq(MaskType) BY <1>1, <2>2, MasksWithComponents
    <3>2. algMasks' = [algMasks EXCEPT ![s] = IF usePerScaleMasks THEN algMasks[s] ELSE new] BY <2>1
    <3>3. algMasks \in [SubImages -> Seq(MaskType)] BY <1>1 DEF DeconvolutionTypeOK, MaskType
    <3> HIDE DEF new
    <3> QED BY <3>1, <3>2, <3>3
  <2>5. /\ algList' \in [SubImages -> [box : SUBSET Pixels, components : SUBSET Components]]
        /\ subModel' \in [SubImages -> SUBSET Components]  BY <1>1, <2>1, <2>2, <2>3 DEF DeconvolutionTypeOK
  <2>6. scaleCount' \in [SubImages -> 0 .. MaxScales]
    <3>1. ScalesFor(s) \in 0 .. MaxScales BY <1>1, ScalesUsed
    <3> QED BY <1>1, <1>4, <3>1 DEF ExecuteMajorIteration, DeconvolutionTypeOK
  <2>7. /\ pc' = [pc EXCEPT ![s] = IF usePerScaleMasks THEN "masks saved" ELSE "executed"]
        /\ algRms' = [algRms EXCEPT ![s] = NoImage]
        /\ UNCHANGED <<shared, scaleMasks, componentList, model>>  BY <1>4 DEF ExecuteMajorIteration
  <2> QED BY <1>1, <2>4, <2>5, <2>6, <2>7 DEF shared, NoImage, DeconvolutionTypeOK, MaskType
<1>5. CASE WriteScaleMasks(s)
  <2>1. scaleMasks' \in Seq(SUBSET Pixels) BY <1>1, <1>5, EnoughMasks, MasksSaved
  <2>2. /\ pc' = [pc EXCEPT ![s] = "masks saved"]
        /\ UNCHANGED <<shared, componentList, model, subModel, algorithms>>  BY <1>5 DEF WriteScaleMasks
  <2> QED BY <1>1, <2>1, <2>2 DEF shared, algorithms, DeconvolutionTypeOK
<1>6. CASE AddComponents(s)
  <2>1. componentList' \in [Components -> Nat]
    <3>1. componentList \in [Components -> Nat] BY <1>1 DEF DeconvolutionTypeOK
    <3>2. componentList' = [c \in Components |->
            componentList[c] + (IF c \in algList[s].components THEN 1 ELSE 0)]  BY <1>6 DEF AddComponents
    <3> QED BY <3>1, <3>2
  <2>2. /\ pc' = [pc EXCEPT ![s] = IF pass = "find peak" THEN "done" ELSE "added"]
        /\ algList' = [algList EXCEPT ![s] = NoList]
        /\ UNCHANGED <<shared, scaleMasks, model, subModel, scaleCount, algMasks, algRms>>
    BY <1>6 DEF AddComponents, ClearComponentList
  <2> QED BY <1>1, <2>1, <2>2 DEF shared, NoList, DeconvolutionTypeOK
<1>7. CASE CopyBack(s)  BY <1>1, <1>7 DEF CopyBack, Copied, shared, algorithms, DeconvolutionTypeOK
<1> QED BY <1>2, <1>3, <1>4, <1>5, <1>6, <1>7 DEF RunSubImage

----
\* Deconvolution::Perform and executeParallelRun: nobody is working.

\* The kept masks, and the list, stay right when nothing is done to them or to
\* what they have to hold.
LEMMA SameMasks ==
  ASSUME KeptMasks, Exact' => Exact, UNCHANGED <<scaleMasks, inherited>>,
         \A c \in Components : Held(c)' <=> Held(c)
  PROVE  KeptMasks'
<1>1. \A i : Inherited(i)' = Inherited(i)  BY DEF Inherited
<1> SUFFICES ASSUME Exact', NEW i \in DOMAIN scaleMasks, NEW p \in Pixels PROVE p \in scaleMasks[i] <=>
                      p \in Inherited(i) \/ \E c \in Components : c.scale = i /\ c.pixel = p /\ Held(c)'
  BY <1>1 DEF KeptMasks
<1> QED  BY DEF KeptMasks

LEMMA SameList ==
  ASSUME KeptList, Exact' => Exact, UNCHANGED <<componentList, inherited>>,
         \A c \in Components : Listed(c)' <=> Listed(c)
  PROVE  KeptList'
<1>1. \A c : Added(c)' = Added(c)  BY DEF Added
<1> SUFFICES ASSUME NEW c \in Components
             PROVE  /\ Added(c) >= 0 /\ (Listed(c)' => Added(c) >= 1)
                    /\ Exact' => Added(c) = IF Listed(c)' THEN 1 ELSE 0  BY <1>1 DEF KeptList
<1> QED  BY DEF KeptList

LEMMA InitAgreement == ASSUME DeconvolutionInit PROVE Agreement
<1>1. /\ \A s \in SubImages : /\ pc[s] = "done" /\ subModel[s] = {} /\ scaleCount[s] = 0 /\ algMasks[s] = <<>>
                              /\ algList[s] = NoList /\ algRms[s] = NoImage
      /\ model = {} /\ scaleMasks = <<>> /\ inherited.masks = <<>>
      /\ pass = "next iteration" /\ ~autoMaskIsFinished /\ ~usePerScaleMasks  BY DEF DeconvolutionInit, NewAlgorithms
<1>2. \A c \in Components : componentList[c] = 0 /\ inherited.list[c] = 0  BY DEF DeconvolutionInit
<1>3. Phases /\ Counts  BY <1>1 DEF Phases, Counts, InPass, Executed
<1>4. NothingSaved  BY <1>1 DEF NothingSaved, Unsaved
<1>5. OwnBox /\ SubModels  BY <1>1 DEF OwnBox, SubModels
<1>6. KeptMasks
  <2>1. scaleMasks = <<>>  BY <1>1
  <2>2. DOMAIN <<>> = {}  OBVIOUS
  <2> HIDE <1>1
  <2> QED  BY <2>1, <2>2, Zenon DEF KeptMasks
<1>7. AlgorithmMasks /\ AlgorithmLists
  <2>1. \A s \in SubImages : pc[s] \notin {"ready", "executed", "masks saved"}  BY <1>1
  <2> QED  BY <2>1 DEF AlgorithmMasks, AlgorithmLists
<1>8. KeptList
  <2>1. \A c \in Components : ~Listed(c)
    <3>1. \A s \in SubImages : pc[s] # "added"  BY <1>1
    <3> QED  BY <1>1, <3>1 DEF Listed
  <2>2. \A c \in Components : Added(c) = 0  BY <1>2 DEF Added
  <2> QED  BY <2>1, <2>2 DEF KeptList
<1> QED  BY <1>3, <1>4, <1>5, <1>6, <1>7, <1>8 DEF Agreement

LEMMA PerformAgreement == ASSUME IInv, Perform PROVE Agreement'
<1>1. \A s \in SubImages : pc[s] = "done" /\ pc'[s] = "start"  BY DEF Perform, IInv, Private, BetweenPasses, AllDone
<1>2. /\ pass = "next iteration" /\ pass' = "find peak"
      /\ usePerScaleMasks' = autoMaskIsFinished /\ rmsImage' = ~autoMaskIsFinished
      /\ UNCHANGED <<group, iteration, autoMaskIsFinished, inherited, scaleMasks, componentList, model, subModel>>
      /\ UNCHANGED <<scaleCount, algMasks, algList, algRms>>  BY DEF Perform, algorithms
<1>3. usePerScaleMasks \in BOOLEAN /\ autoMaskIsFinished \in BOOLEAN  BY DEF IInv, DeconvolutionTypeOK
<1> USE DEF IInv, Agreement
<1>4. Phases'  BY <1>1, <1>2, <1>3 DEF Phases, InPass
<1>5. Counts'  BY <1>1, <1>2 DEF Counts, Executed
<1>6. NothingSaved'  BY <1>1, <1>2 DEF NothingSaved, Unsaved
<1>7. OwnBox'  BY <1>1, <1>2 DEF OwnBox
<1>8. SubModels'  BY <1>1 DEF SubModels, Working
<1>9. \A c \in Components : (Held(c)' <=> Held(c)) /\ (Listed(c)' <=> Listed(c))
  BY <1>1, <1>2 DEF Held, Listed, HasSaved
<1>10. Exact' => Exact  BY <1>2, <1>3 DEF Exact
<1>11. KeptMasks'  BY <1>2, <1>9, <1>10, SameMasks
<1>12. AlgorithmMasks'  BY <1>1 DEF AlgorithmMasks
<1>13. KeptList'  BY <1>2, <1>9, <1>10, SameList
<1>14. AlgorithmLists'  BY <1>1 DEF AlgorithmLists
<1> QED  BY <1>4, <1>5, <1>6, <1>7, <1>8, <1>11, <1>12, <1>13, <1>14

LEMMA RunDeconvolutionAgreement == ASSUME IInv, RunDeconvolution PROVE Agreement'
<1>1. \A s \in SubImages : pc[s] = "done" /\ pc'[s] = "start"  BY DEF RunDeconvolution, AllDone
<1>2. /\ pass = "find peak" /\ pass' = "clean" /\ UNCHANGED rmsImage
      /\ UNCHANGED <<group, iteration, autoMaskIsFinished, usePerScaleMasks, subdivision, inherited>>
      /\ UNCHANGED <<scaleMasks, componentList, model, subModel, scaleCount, algMasks, algList, algRms>>
  BY DEF RunDeconvolution, RmsBetweenLoops, algorithms
<1> USE DEF IInv, Agreement
<1>3. Phases'  BY <1>1, <1>2 DEF Phases, InPass
<1>4. Counts'  BY <1>1, <1>2 DEF Counts, Executed
<1>5. NothingSaved'  BY <1>1, <1>2 DEF NothingSaved, Unsaved
<1>6. OwnBox'  BY <1>1, <1>2 DEF OwnBox
<1>7. SubModels'  BY <1>1 DEF SubModels, Working
<1>8. \A c \in Components : (Held(c)' <=> Held(c)) /\ (Listed(c)' <=> Listed(c))
  BY <1>1, <1>2 DEF Held, Listed, HasSaved
<1>9. KeptMasks'  BY <1>2, <1>8, SameMasks DEF Exact
<1>10. AlgorithmMasks'  BY <1>1 DEF AlgorithmMasks
<1>11. KeptList'  BY <1>2, <1>8, SameList DEF Exact
<1>12. AlgorithmLists'  BY <1>1 DEF AlgorithmLists
<1> QED  BY <1>3, <1>4, <1>5, <1>6, <1>7, <1>9, <1>10, <1>11, <1>12

LEMMA FinishIterationAgreement ==
  ASSUME IInv, NEW reached \in BOOLEAN, FinishIteration(reached) PROVE Agreement'
<1>1. \A s \in SubImages : pc[s] = "done" /\ pc'[s] = "done"  BY DEF FinishIteration, AllDone
<1>2. /\ pass = "clean" /\ pass' \in {"next iteration", "ended"}
      /\ autoMaskIsFinished' = (autoMaskIsFinished \/ ~reached)
      /\ UNCHANGED <<group, usePerScaleMasks, subdivision, inherited>>
      /\ UNCHANGED <<scaleMasks, componentList, model, subModel, scaleCount, algMasks, algList, algRms>>
  BY DEF FinishIteration, algorithms
<1> USE DEF IInv, Agreement
<1>3. Phases'  BY <1>1, <1>2 DEF Phases, InPass
<1>4. Counts'  BY <1>1, <1>2 DEF Counts, Executed
<1>5. NothingSaved'  BY <1>1, <1>2 DEF NothingSaved, Unsaved
<1>6. OwnBox'  BY <1>1, <1>2 DEF OwnBox
<1>7. SubModels'  BY <1>1 DEF SubModels, Working
<1>8. \A c \in Components : (Held(c)' <=> Held(c)) /\ (Listed(c)' <=> Listed(c))
  BY <1>1, <1>2 DEF Held, Listed, HasSaved
<1>9. Exact' => Exact  BY <1>2 DEF Exact
<1>10. KeptMasks'  BY <1>2, <1>8, <1>9, SameMasks
<1>11. AlgorithmMasks'  BY <1>1 DEF AlgorithmMasks
<1>12. KeptList'  BY <1>2, <1>8, <1>9, SameList
<1>13. AlgorithmLists'  BY <1>1 DEF AlgorithmLists
<1> QED  BY <1>3, <1>4, <1>5, <1>6, <1>7, <1>10, <1>11, <1>12, <1>13

\* The next group begins without a model, with the masks and the list as they are.
LEMMA InitializeAgreement == ASSUME IInv, InitializeDeconvolutionAlgorithm PROVE Agreement'
<1>1. \A s \in SubImages : pc'[s] = "done"
  BY DEF InitializeDeconvolutionAlgorithm, IInv, Private, BetweenPasses, AllDone
<1>2. /\ pass' = "next iteration" /\ autoMaskIsFinished' = FALSE /\ model' = {}
      /\ inherited' = [masks |-> scaleMasks, list |-> componentList]
      /\ UNCHANGED <<usePerScaleMasks, scaleMasks, componentList>>  BY DEF InitializeDeconvolutionAlgorithm
<1>3. \A s \in SubImages : /\ scaleCount'[s] = 0 /\ algMasks'[s] = <<>>
                           /\ algList'[s] = NoList /\ algRms'[s] = NoImage
  BY DEF InitializeDeconvolutionAlgorithm, NewAlgorithms
<1>4. Phases'  BY <1>1, <1>2 DEF Phases, InPass
<1>5. Counts'  BY <1>2, <1>3 DEF Counts, Executed
<1>6. NothingSaved'  BY <1>1, <1>2, <1>3 DEF NothingSaved, Unsaved
<1>7. OwnBox'  BY <1>1, <1>3 DEF OwnBox
<1>8. SubModels'  BY <1>1 DEF SubModels, Working
<1>9. KeptMasks'
  <2>1. \A c \in Components : ~Held(c)'  BY <1>1, <1>2 DEF Held, HasSaved
  <2>2. \A i \in DOMAIN scaleMasks : Inherited(i)' = scaleMasks[i]
    <3>1. DOMAIN scaleMasks = 1 .. Len(scaleMasks) /\ Len(scaleMasks) \in Nat
      BY LenProperties DEF IInv, DeconvolutionTypeOK
    <3>2. inherited'.masks = scaleMasks  BY <1>2
    <3> QED  BY <3>1, <3>2 DEF Inherited
  <2> QED  BY <1>2, <2>1, <2>2 DEF KeptMasks
<1>10. AlgorithmMasks'  BY <1>1 DEF AlgorithmMasks
<1>11. KeptList'
  <2>1. \A c \in Components : ~Listed(c)'  BY <1>1, <1>2 DEF Listed
  <2>2. \A c \in Components : Added(c)' = 0
    <3>1. componentList \in [Components -> Nat]  BY DEF IInv, DeconvolutionTypeOK
    <3>2. componentList' = componentList /\ inherited'.list = componentList  BY <1>2
    <3> QED  BY <3>1, <3>2 DEF Added
  <2> QED  BY <2>1, <2>2 DEF KeptList
<1>12. AlgorithmLists'  BY <1>1 DEF AlgorithmLists
<1> QED  BY <1>4, <1>5, <1>6, <1>7, <1>8, <1>9, <1>10, <1>11, <1>12 DEF Agreement

----
\* ParallelDeconvolution::runSubImage.

\* The kept masks and the list have no more to hold, and no less, when a subimage
\* changes that has not saved anything.
LEMMA SameHeld ==
  ASSUME DeconvolutionTypeOK, NEW s \in SubImages, UNCHANGED <<shared, model>>,
         ~HasSaved(s), ~HasSaved(s)',
         \A t \in SubImages \ {s} : pc'[t] = pc[t] /\ subModel'[t] = subModel[t]
  PROVE  \A c \in Components : (Held(c)' <=> Held(c)) /\ (Listed(c)' <=> Listed(c))
BY DEF shared, HasSaved, Held, Listed, Mask

LEMMA TrimAgreement == ASSUME IInv, NEW s \in SubImages, Trim(s) PROVE Agreement'
<1> DEFINE Others == SubImages \ {s}
<1>1. /\ pc[s] = "start" /\ pc'[s] = "trimmed"
      /\ \A t \in Others : pc'[t] = pc[t] /\ subModel'[t] = subModel[t] /\ algRms'[t] = algRms[t]
      /\ subModel'[s] = {c \in model : c.pixel \in Box(s)}
      /\ algRms'[s] = IF rmsImage THEN Box(s) ELSE algRms[s]  BY DEF Trim, IInv, DeconvolutionTypeOK
<1>2. /\ UNCHANGED <<scaleMasks, componentList, model, scaleCount, algMasks, algList>>
      /\ UNCHANGED shared /\ UNCHANGED <<autoMaskIsFinished, usePerScaleMasks, pass, subdivision, rmsImage, inherited>>
  BY DEF Trim, shared
<1>3. InPass  BY <1>1, WorkInPass
<1>4. rmsImage = ~usePerScaleMasks  BY <1>3 DEF IInv, Agreement, Phases
<1>5. \A t \in SubImages : Mask(t)' = Mask(t) /\ Box(t)' = Box(t)  BY <1>2 DEF Mask, Box
<1>6. \A c \in Components : (Held(c)' <=> Held(c)) /\ (Listed(c)' <=> Listed(c))
  BY <1>1, <1>2, SameHeld DEF IInv, HasSaved
<1>7. Exact' = Exact  BY <1>2 DEF Exact
<1> USE DEF IInv, Agreement
<1>8. Phases'  BY <1>1, <1>2 DEF Phases, InPass
<1>9. Counts'  BY <1>1, <1>2 DEF Counts, Executed
<1>10. NothingSaved'  BY <1>1, <1>2 DEF NothingSaved, Unsaved
<1>11. OwnBox'  BY <1>1, <1>2, <1>4, <1>5 DEF OwnBox
<1>12. SubModels'  BY <1>1, <1>2, <1>5 DEF SubModels, Working
<1>13. KeptMasks' /\ KeptList'  BY <1>2, <1>6, <1>7, SameMasks, SameList
<1>14. AlgorithmMasks'  BY <1>1, <1>2, <1>5, <1>7 DEF AlgorithmMasks, Scales, InMask, Inherited
<1>15. AlgorithmLists'  BY <1>1, <1>2, <1>5, <1>7 DEF AlgorithmLists
<1> QED  BY <1>8, <1>9, <1>10, <1>11, <1>12, <1>13, <1>14, <1>15

\* The masks that a subimage gets are those of the part of the model it has.
LEMMA SetScaleMasksAgreement == ASSUME IInv, NEW s \in SubImages, SetScaleMasks(s) PROVE Agreement'
<1> DEFINE Others == SubImages \ {s}
<1>1. /\ pc[s] = "trimmed" /\ pc'[s] = "ready"
      /\ \A t \in Others : pc'[t] = pc[t] /\ algMasks'[t] = algMasks[t]
  BY DEF SetScaleMasks, IInv, DeconvolutionTypeOK
<1>2. /\ UNCHANGED <<scaleMasks, componentList, model, subModel, scaleCount, algList, algRms>>
      /\ UNCHANGED shared /\ UNCHANGED <<autoMaskIsFinished, usePerScaleMasks, pass, subdivision, rmsImage, inherited>>
  BY DEF SetScaleMasks, shared
<1>3. \A t \in SubImages : Mask(t)' = Mask(t) /\ Box(t)' = Box(t)  BY <1>2 DEF Mask, Box
<1>4. \A c \in Components : (Held(c)' <=> Held(c)) /\ (Listed(c)' <=> Listed(c))
  BY <1>1, <1>2, SameHeld DEF IInv, HasSaved
<1>5. Exact' = Exact  BY <1>2 DEF Exact
<1>6. scaleMasks = <<>> => algMasks' = algMasks /\ algMasks[s] = <<>>
  <2> HAVE scaleMasks = <<>>
  <2>1. algMasks' = [algMasks EXCEPT ![s] = algMasks[s]]  BY DEF SetScaleMasks
  <2>2. Unsaved(s)  BY DEF IInv, Agreement, NothingSaved
  <2>3. algMasks[s] = <<>>  BY <1>1, <2>2 DEF Unsaved
  <2> QED  BY <2>1, <2>3 DEF IInv, DeconvolutionTypeOK
<1> USE DEF IInv, Agreement
<1>7. Phases'  BY <1>1, <1>2 DEF Phases, InPass
<1>8. Counts'
  <2> SUFFICES ASSUME NEW t \in SubImages
               PROVE  /\ scaleCount[t] # 0 => scaleCount[t] <= Len(algMasks'[t])
                      /\ autoMaskIsFinished \/ Executed(t)' => scaleCount[t] # 0  BY <1>2 DEF Counts
  <2>1. Executed(t)' => Executed(t)  BY <1>1, <1>2 DEF Executed
  <2>2. scaleCount[t] # 0 => scaleCount[t] <= Len(algMasks'[t])
    <3>1. CASE algMasks'[t] = algMasks[t]  BY <3>1 DEF Counts
    <3>2. CASE t = s /\ scaleMasks # <<>>
      <4>1. Len(algMasks'[s]) >= Len(algMasks[s]) /\ DOMAIN algMasks'[s] = 1 .. Len(algMasks'[s])
            /\ algMasks' \in [SubImages -> Seq(MaskType)]  BY <3>2, MasksFromKept
      <4>2. Len(algMasks'[s]) \in Nat  BY <4>1, LenProperties
      <4>3. scaleCount[s] \in Nat /\ Len(algMasks[s]) \in Nat /\ scaleCount[s] <= Len(algMasks[s])  BY EnoughMasks
      <4> QED  BY <3>2, <4>1, <4>2, <4>3
    <3> QED  BY <1>1, <1>6, <3>1, <3>2
  <2> QED  BY <2>1, <2>2 DEF Counts
<1>9. NothingSaved'  BY <1>1, <1>2, <1>6 DEF NothingSaved, Unsaved
<1>10. OwnBox'
  <2>1. \A i \in DOMAIN algMasks'[s] : algMasks'[s][i].box = Box(s)
    <3>1. CASE scaleMasks = <<>>
      <4>1. algMasks'[s] = <<>>  BY <1>6, <3>1
      <4>2. DOMAIN <<>> = {}  OBVIOUS
      <4> QED  BY <4>1, <4>2, Zenon
    <3>2. CASE scaleMasks # <<>>  BY <3>2, MasksFromKept
    <3> QED  BY <3>1, <3>2
  <2> QED  BY <1>1, <1>2, <1>3, <2>1 DEF OwnBox
<1>11. SubModels'  BY <1>1, <1>2, <1>3 DEF SubModels, Working, Steps
<1>12. KeptMasks' /\ KeptList'  BY <1>2, <1>4, <1>5, SameMasks, SameList
<1>13. AlgorithmMasks'
  <2>1. Scales' = Scales /\ \A i : Inherited(i)' = Inherited(i)  BY <1>2 DEF Scales, Inherited
  <2> SUFFICES ASSUME Exact, NEW t \in SubImages, pc'[t] \in {"ready", "executed"},
                      NEW i \in Scales, NEW p \in Mask(t)
               PROVE  InMask(t, i, p)' <=>
                        p \in Inherited(i) \/ \E c \in subModel[t] : c.scale = i /\ c.pixel = p
    BY <1>2, <1>3, <1>5, <2>1 DEF AlgorithmMasks
  <2>2. CASE t # s
    <3>1. InMask(t, i, p)' <=> InMask(t, i, p)  BY <1>1, <2>2 DEF InMask
    <3> QED  BY <1>1, <2>2, <3>1 DEF AlgorithmMasks
  <2>3. CASE t = s
    <3>1. \A c \in subModel[s] : c.pixel \in Mask(s) => c \in model  BY <1>1 DEF SubModels, Working, Steps
    <3>2. \A c \in model : c.pixel \in Mask(s) => c \in subModel[s]  BY <1>1 DEF Private, HoldsModel, Working, Steps
    <3>3. CASE scaleMasks = <<>>
      <4>1. ~InMask(s, i, p)'
        <5>1. algMasks'[s] = <<>>  BY <1>6, <3>3
        <5>2. DOMAIN <<>> = {}  OBVIOUS
        <5> QED  BY <5>1, <5>2, Zenon DEF InMask
      <4>2. model = {} /\ inherited.masks = <<>>  BY <3>3 DEF NothingSaved
      <4>3. p \notin Inherited(i)
        <5>1. i \in 1 .. MaxScales  BY <3>3 DEF Scales
        <5>2. ~(i <= 0)  BY <5>1, BoundsAssumption DEF BoundsAssumption
        <5>3. Len(inherited.masks) = 0  BY <4>2
        <5> QED  BY <5>2, <5>3 DEF Inherited
      <4> QED  BY <2>3, <3>1, <4>1, <4>2, <4>3
    <3>4. CASE scaleMasks # <<>>
      <4>1. i \in DOMAIN scaleMasks  BY <3>4 DEF Scales
      <4>2. Len(scaleMasks) \in Nat /\ DOMAIN scaleMasks = 1 .. Len(scaleMasks)
        BY LenProperties DEF DeconvolutionTypeOK
      <4>3. i \in DOMAIN algMasks'[s] /\ i <= Len(scaleMasks)
        <5>1. DOMAIN algMasks'[s] = 1 .. Len(algMasks'[s]) /\ Len(algMasks'[s]) >= Len(scaleMasks)
              /\ algMasks' \in [SubImages -> Seq(MaskType)]  BY <3>4, MasksFromKept
        <5>2. Len(algMasks'[s]) \in Nat  BY <5>1, LenProperties
        <5> QED  BY <4>1, <4>2, <5>1, <5>2
      <4>4. algMasks'[s][i].pixels = scaleMasks[i] \cap Box(s)  BY <3>4, <4>3, MasksFromKept
      <4>5. p \in Box(s) /\ p \in Pixels  BY <2>3, MaskInBox
      <4>6. InMask(s, i, p)' <=> p \in scaleMasks[i]  BY <4>3, <4>4, <4>5 DEF InMask
      <4>7. p \in scaleMasks[i] <=>
              p \in Inherited(i) \/ \E c \in Components : c.scale = i /\ c.pixel = p /\ Held(c)
        BY <4>1, <4>5 DEF KeptMasks
      <4>8. \A c \in Components : c.pixel = p => (Held(c) <=> c \in model)
        <5> SUFFICES ASSUME NEW c \in Components, c.pixel = p, NEW u \in SubImages,
                            HasSaved(u), c.pixel \in Mask(u)
                     PROVE  FALSE  BY DEF Held
        <5>1. u # s  BY <1>1 DEF HasSaved
        <5> QED  BY <2>3, <5>1, MasksApart
      <4>9. model \subseteq Components /\ subModel[s] \subseteq Components  BY DEF DeconvolutionTypeOK
      <4> QED  BY <2>3, <3>1, <3>2, <4>6, <4>7, <4>8, <4>9
    <3> QED  BY <3>3, <3>4
  <2> QED  BY <2>2, <2>3
<1>14. AlgorithmLists'  BY <1>1, <1>2, <1>3, <1>5 DEF AlgorithmLists
<1> QED  BY <1>7, <1>8, <1>9, <1>10, <1>11, <1>12, <1>13, <1>14

\* What is found is told to the list of the algorithm and, in the first phase, to its masks.
LEMMA ExecuteAgreement == ASSUME IInv, NEW s \in SubImages, ExecuteMajorIteration(s) PROVE Agreement'
<1> DEFINE Others == SubImages \ {s}
<1>1. PICK C \in Findable(s) :
        /\ algMasks' = [algMasks EXCEPT ![s] =
             IF usePerScaleMasks THEN @ ELSE WithComponents(WithEmptyMasks(@, s), C)]
        /\ algList' = [algList EXCEPT ![s] =
             IF @ = NoList THEN [box |-> Box(s), components |-> C]
             ELSE [box |-> @.box, components |-> @.components \cup C]]
        /\ subModel' = [subModel EXCEPT ![s] = @ \cup C]  BY DEF ExecuteMajorIteration
<1> DEFINE new == WithComponents(WithEmptyMasks(algMasks[s], s), C)
<1>2. /\ pc[s] = "ready" /\ pc'[s] = IF usePerScaleMasks THEN "masks saved" ELSE "executed"
      /\ scaleCount'[s] = ScalesFor(s) /\ algRms'[s] = NoImage /\ subModel'[s] = subModel[s] \cup C
      /\ algMasks'[s] = IF usePerScaleMasks THEN algMasks[s] ELSE new
      /\ \A t \in Others : /\ pc'[t] = pc[t] /\ scaleCount'[t] = scaleCount[t] /\ algRms'[t] = algRms[t]
                           /\ subModel'[t] = subModel[t] /\ algMasks'[t] = algMasks[t]
                           /\ algList'[t] = algList[t]  BY <1>1 DEF ExecuteMajorIteration, IInv, DeconvolutionTypeOK
<1>3. algList'[s].components = C
  <2>1. algList[s] = NoList  BY <1>2 DEF IInv, Agreement, OwnBox
  <2>2. algList'[s] = [box |-> Box(s), components |-> C]  BY <1>1, <2>1 DEF IInv, DeconvolutionTypeOK
  <2> QED  BY <2>2
<1>4. /\ UNCHANGED <<scaleMasks, componentList, model>>
      /\ UNCHANGED shared /\ UNCHANGED <<autoMaskIsFinished, usePerScaleMasks, pass, subdivision, rmsImage, inherited>>
  BY DEF ExecuteMajorIteration, shared
<1>5. \A t \in SubImages : Mask(t)' = Mask(t) /\ Box(t)' = Box(t)  BY <1>4 DEF Mask, Box
<1>6. Exact' = Exact  BY <1>4 DEF Exact
<1>7. InPass /\ usePerScaleMasks = autoMaskIsFinished
  <2>1. InPass  BY <1>2, WorkInPass
  <2> QED  BY <2>1 DEF IInv, Agreement, Phases
<1>8. Exact => ~usePerScaleMasks  BY <1>7 DEF Exact
<1>9. /\ C \subseteq Components /\ (pass = "find peak" => C = {})
      /\ \A c \in C : /\ c.scale <= ScalesFor(s) /\ c \notin subModel[s]
                      /\ ~usePerScaleMasks => c.pixel \in Mask(s)  BY FoundComponents
<1>10. ScalesFor(s) \in 1 .. MaxScales /\ (scaleCount[s] # 0 => ScalesFor(s) <= scaleCount[s])  BY ScalesUsed DEF IInv
<1>11. /\ new \in Seq(MaskType) /\ DOMAIN new = 1 .. Len(new)
       /\ Len(new) >= Len(algMasks[s]) /\ Len(new) >= ScalesFor(s)
       /\ \A i \in DOMAIN new :
            new[i].pixels = (IF i <= Len(algMasks[s]) THEN algMasks[s][i].pixels ELSE {}) \cup PixelsAt(C, i)
  <2>1. DeconvolutionTypeOK /\ C \in SUBSET Components  BY <1>9 DEF IInv
  <2>2. new = WithComponents(WithEmptyMasks(algMasks[s], s), C)  OBVIOUS
  <2> HIDE DEF new
  <2> QED  BY <2>1, <2>2, MasksWithComponents
<1> HIDE DEF new
<1>12. /\ Len(new) \in Nat /\ Len(algMasks[s]) \in Nat /\ DOMAIN algMasks[s] = 1 .. Len(algMasks[s])
       /\ ScalesFor(s) \in Nat /\ scaleCount[s] \in Nat /\ ScalesFor(s) # 0
  <2>1. Len(new) \in Nat  BY <1>11, LenProperties
  <2>2. algMasks[s] \in Seq(MaskType)  BY DEF IInv, DeconvolutionTypeOK, MaskType
  <2>3. Len(algMasks[s]) \in Nat /\ DOMAIN algMasks[s] = 1 .. Len(algMasks[s])  BY <2>2, LenProperties
  <2>4. ScalesFor(s) \in Nat /\ ScalesFor(s) # 0  BY <1>10, BoundsAssumption DEF BoundsAssumption
  <2>5. scaleCount[s] \in Nat  BY EnoughMasks
  <2> QED  BY <2>1, <2>3, <2>4, <2>5
<1>13. \A c \in subModel[s] : c.pixel \in Mask(s) => c \in model
  BY <1>2 DEF IInv, Agreement, SubModels, Working, Steps
<1>14. \A c \in model : c.pixel \in Mask(s) => c \in subModel[s]
  BY <1>2 DEF IInv, Private, HoldsModel, Working, Steps
<1> USE DEF IInv, Agreement
<1>15. Phases'  BY <1>2, <1>4 DEF Phases, InPass
<1>16. Counts'
  <2> SUFFICES ASSUME NEW t \in SubImages
               PROVE  /\ scaleCount'[t] # 0 => scaleCount'[t] <= Len(algMasks'[t])
                      /\ autoMaskIsFinished \/ Executed(t)' => scaleCount'[t] # 0  BY <1>4 DEF Counts
  <2>1. CASE t # s  BY <1>2, <1>4, <2>1 DEF Counts, Executed
  <2>2. CASE t = s /\ ~usePerScaleMasks  BY <1>2, <1>11, <1>12, <2>2
  <2>3. CASE t = s /\ usePerScaleMasks
    <3>1. scaleCount[s] # 0 /\ scaleCount[s] <= Len(algMasks[s])  BY <1>7, <2>3 DEF Counts
    <3>2. ScalesFor(s) <= Len(algMasks[s])  BY <1>10, <1>12, <3>1
    <3> QED  BY <1>2, <1>12, <2>3, <3>2
  <2> QED  BY <2>1, <2>2, <2>3
<1>17. NothingSaved'
  <2> SUFFICES ASSUME scaleMasks = <<>>, NEW t \in SubImages PROVE Unsaved(t)'  BY <1>4 DEF NothingSaved
  <2>1. Unsaved(t) /\ Unsaved(s)  BY DEF NothingSaved
  <2> QED  BY <1>2, <1>4, <1>7, <2>1 DEF Unsaved
<1>18. OwnBox'  BY <1>2, <1>4, <1>5 DEF OwnBox
<1>19. SubModels'
  <2> SUFFICES ASSUME NEW t \in SubImages, NEW c \in subModel'[t], c.pixel \in Mask(t)
               PROVE  /\ Working(t)' /\ (pass = "find peak" \/ pc'[t] \in {"trimmed", "ready"}) => c \in model
                      /\ pc'[t] = "executed" /\ c \notin model => c.scale <= scaleCount'[t]
    BY <1>4, <1>5 DEF SubModels
  <2>1. CASE t # s  BY <1>2, <2>1 DEF SubModels, Working
  <2>2. CASE t = s /\ c \in subModel[s]  BY <1>13, <2>2
  <2>3. CASE t = s /\ c \in C  BY <1>2, <1>9, <2>3
  <2> QED  BY <1>2, <2>1, <2>2, <2>3
<1>20. KeptMasks' /\ KeptList'
  <2>1. \A c \in Components : Listed(c)' <=> Listed(c)  BY <1>2, <1>4, <1>5 DEF Listed
  <2>2. Exact => \A c \in Components : Held(c)' <=> Held(c)  BY <1>2, <1>4, <1>5, <1>8 DEF Held, HasSaved
  <2>3. CASE Exact  BY <1>4, <1>6, <2>1, <2>2, <2>3, SameMasks, SameList
  <2>4. CASE ~Exact
    <3>1. KeptMasks'  BY <1>6, <2>4 DEF KeptMasks
    <3> QED  BY <1>4, <1>6, <2>1, <3>1, SameList
  <2> QED  BY <2>3, <2>4
<1>21. AlgorithmMasks'
  <2>1. Scales' = Scales /\ \A i : Inherited(i)' = Inherited(i)  BY <1>4 DEF Scales, Inherited
  <2> SUFFICES ASSUME Exact, NEW t \in SubImages, pc'[t] \in {"ready", "executed"},
                      NEW i \in Scales, NEW p \in Mask(t)
               PROVE  InMask(t, i, p)' <=>
                        p \in Inherited(i) \/ \E c \in subModel'[t] : c.scale = i /\ c.pixel = p
    BY <1>4, <1>5, <1>6, <2>1 DEF AlgorithmMasks
  <2>2. pc[t] \in {"ready", "executed"}  BY <1>2
  <2>3. InMask(t, i, p) <=> p \in Inherited(i) \/ \E c \in subModel[t] : c.scale = i /\ c.pixel = p
    <3>1. AlgorithmMasks  OBVIOUS
    <3> HIDE DEF IInv, Agreement
    <3> QED  BY <2>2, <3>1 DEF AlgorithmMasks
  <2>4. CASE t # s
    <3>1. InMask(t, i, p)' <=> InMask(t, i, p)  BY <1>2, <2>4 DEF InMask
    <3> QED  BY <1>2, <2>3, <2>4, <3>1
  <2>5. CASE t = s
    <3>1. algMasks'[s] = new  BY <1>2, <1>8
    <3>2. \A q : q \in PixelsAt(C, i) <=> \E c \in C : c.scale = i /\ c.pixel = q  BY <1>9, PixelsOfComponents
    <3>3. i \in Nat /\ i # 0
      <4>1. CASE scaleMasks = <<>>  BY <4>1, BoundsAssumption DEF Scales, BoundsAssumption
      <4>2. CASE scaleMasks # <<>>
        <5>1. Len(scaleMasks) \in Nat /\ DOMAIN scaleMasks = 1 .. Len(scaleMasks)
          BY LenProperties DEF DeconvolutionTypeOK
        <5> QED  BY <4>2, <5>1 DEF Scales
      <4> QED  BY <4>1, <4>2
    <3>4. p \in PixelsAt(C, i) => i \in DOMAIN new
      <4> HAVE p \in PixelsAt(C, i)
      <4>1. i <= ScalesFor(s)  BY <1>9, <3>2
      <4> HIDE DEF IInv
      <4> QED  BY <1>11, <1>12, <3>3, <4>1
    <3>5. InMask(s, i, p) => i \in DOMAIN new  BY <1>11, <1>12, <3>3 DEF InMask
    <3>6. i \in DOMAIN new => (p \in new[i].pixels <=> InMask(s, i, p) \/ p \in PixelsAt(C, i))
      BY <1>11, <1>12, <3>3 DEF InMask
    <3>7. InMask(s, i, p)' <=> InMask(s, i, p) \/ p \in PixelsAt(C, i)  BY <3>1, <3>4, <3>5, <3>6 DEF InMask
    <3> QED  BY <1>2, <2>3, <2>5, <3>2, <3>7
  <2> QED  BY <2>4, <2>5
<1>22. AlgorithmLists'
  <2> SUFFICES ASSUME NEW t \in SubImages, pc'[t] \in {"executed", "masks saved"}
               PROVE  /\ \A c \in subModel'[t] :
                           c.pixel \in Mask(t) => c \in model \/ c \in algList'[t].components
                      /\ Exact => \A c \in algList'[t].components :
                           c.pixel \in Mask(t) /\ c \in subModel'[t] /\ c \notin model
    BY <1>4, <1>5, <1>6 DEF AlgorithmLists
  <2>1. CASE t # s  BY <1>2, <2>1 DEF AlgorithmLists
  <2>2. CASE t = s  BY <1>2, <1>3, <1>8, <1>9, <1>13, <1>14, <2>2
  <2> QED  BY <2>1, <2>2
<1> QED  BY <1>15, <1>16, <1>17, <1>18, <1>19, <1>20, <1>21, <1>22

\* The kept masks become those of the components that the subimage found, inside its
\* mask; it has none at scales that its masks are not copied for.
LEMMA WriteScaleMasksAgreement == ASSUME IInv, NEW s \in SubImages, WriteScaleMasks(s) PROVE Agreement'
<1> DEFINE Others == SubImages \ {s}
<1>1. /\ pc[s] = "executed" /\ pc'[s] = "masks saved" /\ \A t \in Others : pc'[t] = pc[t]
  BY DEF WriteScaleMasks, IInv, DeconvolutionTypeOK
<1>2. /\ UNCHANGED <<componentList, model, subModel, scaleCount, algMasks, algList, algRms>>
      /\ UNCHANGED shared /\ UNCHANGED <<autoMaskIsFinished, usePerScaleMasks, pass, subdivision, rmsImage, inherited>>
  BY DEF WriteScaleMasks, shared, algorithms
<1>3. \A t \in SubImages : Mask(t)' = Mask(t) /\ Box(t)' = Box(t)  BY <1>2 DEF Mask, Box
<1>4. ~usePerScaleMasks /\ Exact /\ Exact'
  <2>1. ~usePerScaleMasks  BY <1>1 DEF IInv, Agreement, Phases
  <2> QED  BY <1>2, <2>1 DEF Exact
<1>5. scaleCount[s] \in 1 .. MaxScales /\ scaleCount[s] <= Len(algMasks[s])
      /\ DOMAIN algMasks[s] = 1 .. Len(algMasks[s]) /\ Len(algMasks[s]) \in Nat
  <2>1. InPass  BY <1>1, WorkInPass
  <2>2. scaleCount[s] # 0  BY <1>1, <2>1 DEF IInv, Agreement, Counts, Executed, InPass
  <2>3. scaleCount[s] \in 0 .. MaxScales /\ algMasks[s] \in Seq(MaskType)  BY DEF IInv, DeconvolutionTypeOK, MaskType
  <2>4. DOMAIN algMasks[s] = 1 .. Len(algMasks[s]) /\ Len(algMasks[s]) \in Nat  BY <2>3, LenProperties
  <2>5. scaleCount[s] <= Len(algMasks[s])  BY EnoughMasks
  <2> QED  BY <2>2, <2>3, <2>4, <2>5, BoundsAssumption DEF BoundsAssumption
<1>6. /\ scaleMasks' \in Seq(SUBSET Pixels)
      /\ DOMAIN scaleMasks' = IF scaleMasks = <<>> THEN 1 .. scaleCount[s] ELSE DOMAIN scaleMasks
      /\ \A i \in DOMAIN scaleMasks' : \A p \in Pixels :
           p \in scaleMasks'[i] <=>
             IF i <= scaleCount[s] /\ p \in Mask(s) THEN p \in algMasks[s][i].pixels
             ELSE scaleMasks # <<>> /\ p \in scaleMasks[i]
  <2>1. DeconvolutionTypeOK  BY DEF IInv
  <2> QED  BY <1>5, <2>1, MasksSaved
<1>7. Scales' \subseteq Scales /\ DOMAIN scaleMasks' \subseteq Scales /\ scaleMasks' # <<>>
  <2>1. CASE scaleMasks = <<>>
    <3>1. DOMAIN scaleMasks' = 1 .. scaleCount[s]  BY <1>6, <2>1
    <3>2. 1 \in DOMAIN scaleMasks'  BY <1>5, <3>1, BoundsAssumption DEF BoundsAssumption
    <3>3. DOMAIN <<>> = {}  OBVIOUS
    <3>4. scaleMasks' # <<>>  BY <3>2, <3>3
    <3>5. 1 .. scaleCount[s] \subseteq 1 .. MaxScales  BY <1>5, BoundsAssumption DEF BoundsAssumption
    <3> QED  BY <2>1, <3>1, <3>4, <3>5 DEF Scales
  <2>2. CASE scaleMasks # <<>>
    <3>1. DOMAIN scaleMasks' = DOMAIN scaleMasks  BY <1>6, <2>2
    <3>2. Len(scaleMasks) \in Nat /\ DOMAIN scaleMasks = 1 .. Len(scaleMasks) /\ scaleMasks \in Seq(SUBSET Pixels)
      BY LenProperties DEF IInv, DeconvolutionTypeOK
    <3>3. Len(scaleMasks) # 0  BY <2>2, <3>2, EmptySeq
    <3>4. 1 \in DOMAIN scaleMasks'  BY <3>1, <3>2, <3>3
    <3>5. DOMAIN <<>> = {}  OBVIOUS
    <3>6. scaleMasks' # <<>>  BY <3>4, <3>5
    <3> QED  BY <2>2, <3>1, <3>6 DEF Scales
  <2> QED  BY <2>1, <2>2
<1>8. \A c \in subModel[s] : c.pixel \in Mask(s) /\ c \notin model => c.scale <= scaleCount[s]
  BY <1>1 DEF IInv, Agreement, SubModels
<1>9. \A c \in model : c.pixel \in Mask(s) => c \in subModel[s]  BY <1>1 DEF IInv, Private, HoldsModel, Working, Steps
<1>10. \A i : Inherited(i)' = Inherited(i)  BY <1>2 DEF Inherited
<1>11. /\ DeconvolutionTypeOK /\ Phases /\ Counts /\ NothingSaved /\ OwnBox /\ SubModels
       /\ KeptMasks /\ AlgorithmMasks /\ KeptList /\ AlgorithmLists  BY DEF IInv, Agreement
<1>12. Phases'  BY <1>1, <1>2, <1>11 DEF Phases, InPass
<1>13. Counts'  BY <1>1, <1>2, <1>11 DEF Counts, Executed
<1>14. NothingSaved'  BY <1>7 DEF NothingSaved
<1>15. OwnBox'  BY <1>1, <1>2, <1>3, <1>11 DEF OwnBox
<1>16. SubModels'  BY <1>1, <1>2, <1>3, <1>11 DEF SubModels, Working, Steps
<1>17. KeptMasks'
  <2> SUFFICES ASSUME NEW i \in DOMAIN scaleMasks', NEW p \in Pixels PROVE p \in scaleMasks'[i] <=>
                        p \in Inherited(i) \/ \E c \in Components : c.scale = i /\ c.pixel = p /\ Held(c)'
    BY <1>10 DEF KeptMasks
  <2>1. CASE p \in Mask(s)
    <3>1. \A c \in Components : c.pixel = p => (Held(c)' <=> c \in subModel[s])
      <4> SUFFICES ASSUME NEW c \in Components, c.pixel = p PROVE Held(c)' <=> c \in subModel[s]  OBVIOUS
      <4>1. HasSaved(s)'  BY <1>1 DEF HasSaved
      <4>2. \A t \in Others : p \notin Mask(t)  BY <1>11, <2>1, MasksApart
      <4> QED  BY <1>2, <1>3, <1>9, <2>1, <4>1, <4>2 DEF Held
    <3>2. subModel[s] \subseteq Components  BY <1>11 DEF DeconvolutionTypeOK
    <3>3. CASE i <= scaleCount[s]
      <4>1. p \in scaleMasks'[i] <=> p \in algMasks[s][i].pixels  BY <1>6, <2>1, <3>3
      <4>2. i \in Nat /\ i >= 1
        <5>1. CASE scaleMasks = <<>>  BY <1>5, <1>6, <5>1, BoundsAssumption DEF BoundsAssumption
        <5>2. CASE scaleMasks # <<>>
          <6>1. Len(scaleMasks) \in Nat /\ DOMAIN scaleMasks = 1 .. Len(scaleMasks)
            BY <1>11, LenProperties DEF DeconvolutionTypeOK
          <6> QED  BY <1>6, <5>2, <6>1
        <5> QED  BY <5>1, <5>2
      <4>3. i \in DOMAIN algMasks[s]
        <5>1. scaleCount[s] \in Nat  BY EnoughMasks
        <5> QED  BY <1>5, <3>3, <4>2, <5>1
      <4>4. p \in algMasks[s][i].pixels <=> InMask(s, i, p)  BY <4>3 DEF InMask
      <4>5. InMask(s, i, p) <=> p \in Inherited(i) \/ \E c \in subModel[s] : c.scale = i /\ c.pixel = p
        <5>1. \A j \in Scales : \A q \in Mask(s) :
                InMask(s, j, q) <=> q \in Inherited(j) \/ \E c \in subModel[s] : c.scale = j /\ c.pixel = q
          BY <1>1, <1>4, <1>11 DEF AlgorithmMasks
        <5>2. i \in Scales  BY <1>7
        <5> HIDE <1>6
        <5> QED  BY <2>1, <5>1, <5>2
      <4> QED  BY <3>1, <3>2, <4>1, <4>4, <4>5
    <3>4. CASE ~(i <= scaleCount[s])
      <4>1. scaleMasks # <<>>
        <5>1. CASE scaleMasks = <<>>
          <6>1. i \in 1 .. scaleCount[s]  BY <1>6, <5>1
          <6>2. scaleCount[s] \in Nat  BY EnoughMasks
          <6> QED  BY <3>4, <6>1, <6>2
        <5> QED  BY <5>1
      <4>2. p \in scaleMasks'[i] <=> p \in scaleMasks[i]  BY <1>6, <3>4, <4>1
      <4>3. i \in DOMAIN scaleMasks  BY <1>6, <4>1
      <4>4. p \in scaleMasks[i] <=>
              p \in Inherited(i) \/ \E c \in Components : c.scale = i /\ c.pixel = p /\ Held(c)
        BY <1>4, <1>11, <4>3 DEF KeptMasks
      <4>5. \A c \in Components : c.scale = i /\ c.pixel = p => (Held(c) <=> c \in subModel[s])
        <5> SUFFICES ASSUME NEW c \in Components, c.scale = i, c.pixel = p PROVE Held(c) <=> c \in subModel[s]
          OBVIOUS
        <5>1. \A t \in Others : p \notin Mask(t)  BY <1>11, <2>1, MasksApart
        <5>2. ~HasSaved(s)  BY <1>1 DEF HasSaved
        <5>3. Held(c) <=> c \in model  BY <5>1, <5>2 DEF Held
        <5> QED  BY <1>8, <1>9, <2>1, <3>4, <5>3
      <4> QED  BY <3>1, <4>2, <4>4, <4>5
    <3> QED  BY <3>3, <3>4
  <2>2. CASE p \notin Mask(s)
    <3>1. p \in scaleMasks'[i] <=> scaleMasks # <<>> /\ p \in scaleMasks[i]  BY <1>6, <2>2
    <3>2. \A c \in Components : c.pixel = p => (Held(c)' <=> Held(c))  BY <1>1, <1>2, <1>3, <2>2 DEF Held, HasSaved
    <3>3. CASE scaleMasks # <<>>
      <4>1. i \in DOMAIN scaleMasks  BY <1>6, <3>3
      <4>2. p \in scaleMasks[i] <=>
              p \in Inherited(i) \/ \E c \in Components : c.scale = i /\ c.pixel = p /\ Held(c)
        BY <1>4, <1>11, <4>1 DEF KeptMasks
      <4> QED  BY <3>1, <3>2, <3>3, <4>2
    <3>4. CASE scaleMasks = <<>>
      <4>1. model = {} /\ inherited.masks = <<>> /\ \A t \in SubImages : Unsaved(t)  BY <1>11, <3>4 DEF NothingSaved
      <4>2. \A c \in Components : ~Held(c)  BY <4>1 DEF Held, HasSaved, Unsaved
      <4>3. p \notin Inherited(i)
        <5>1. i \in 1 .. scaleCount[s]  BY <1>6, <3>4
        <5>2. ~(i <= 0)  BY <1>5, <5>1, BoundsAssumption DEF BoundsAssumption
        <5>3. Len(inherited.masks) = 0  BY <4>1
        <5> QED  BY <5>2, <5>3 DEF Inherited
      <4> QED  BY <3>1, <3>2, <3>4, <4>2, <4>3
    <3> QED  BY <3>3, <3>4
  <2> QED  BY <2>1, <2>2
<1>18. AlgorithmMasks'
  <2> SUFFICES ASSUME NEW t \in SubImages, pc'[t] \in {"ready", "executed"}, NEW i \in Scales', NEW p \in Mask(t)
               PROVE  InMask(t, i, p)' <=>
                        p \in Inherited(i) \/ \E c \in subModel[t] : c.scale = i /\ c.pixel = p
    BY <1>2, <1>3, <1>10 DEF AlgorithmMasks
  <2>1. InMask(t, i, p)' <=> InMask(t, i, p)  BY <1>2 DEF InMask
  <2>2. pc[t] \in {"ready", "executed"} /\ i \in Scales  BY <1>1, <1>7
  <2> QED  BY <1>4, <1>11, <2>1, <2>2 DEF AlgorithmMasks
<1>19. KeptList'
  <2>1. \A c \in Components : Listed(c)' <=> Listed(c)  BY <1>1, <1>2, <1>3 DEF Listed
  <2> QED  BY <1>2, <1>4, <1>11, <2>1, SameList
<1>20. AlgorithmLists'  BY <1>1, <1>2, <1>3, <1>4, <1>11 DEF AlgorithmLists
<1> QED  BY <1>12, <1>13, <1>14, <1>15, <1>16, <1>17, <1>18, <1>19, <1>20 DEF Agreement

\* The list gets the components that the subimage found, each once.
LEMMA AddComponentsAgreement == ASSUME IInv, NEW s \in SubImages, AddComponents(s) PROVE Agreement'
<1> DEFINE Others == SubImages \ {s}
<1>1. /\ pc[s] = "masks saved" /\ pc'[s] = IF pass = "find peak" THEN "done" ELSE "added"
      /\ algList'[s] = NoList
      /\ \A t \in Others : pc'[t] = pc[t] /\ algList'[t] = algList[t]
  BY DEF AddComponents, ClearComponentList, IInv, DeconvolutionTypeOK
<1>2. /\ UNCHANGED <<scaleMasks, model, subModel, scaleCount, algMasks, algRms>>
      /\ UNCHANGED shared /\ UNCHANGED <<autoMaskIsFinished, usePerScaleMasks, pass, subdivision, rmsImage, inherited>>
  BY DEF AddComponents, shared
<1>3. \A t \in SubImages : Mask(t)' = Mask(t) /\ Box(t)' = Box(t)  BY <1>2 DEF Mask, Box
<1>4. InPass  BY <1>1, WorkInPass
<1>5. Exact' = Exact  BY <1>2 DEF Exact
<1>6. /\ DeconvolutionTypeOK /\ Phases /\ Counts /\ NothingSaved /\ OwnBox /\ SubModels
      /\ KeptMasks /\ AlgorithmMasks /\ KeptList /\ AlgorithmLists  BY DEF IInv, Agreement
<1>7. pass = "find peak" => \A c \in subModel[s] : c.pixel \in Mask(s) => c \in model
  BY <1>1, <1>6 DEF SubModels, Working, Steps
<1>8. Phases'  BY <1>1, <1>2, <1>4, <1>6 DEF Phases, InPass
<1>9. Counts'  BY <1>1, <1>2, <1>6 DEF Counts, Executed
<1>10. NothingSaved'  BY <1>1, <1>2, <1>6 DEF NothingSaved, Unsaved
<1>11. OwnBox'  BY <1>1, <1>2, <1>3, <1>6 DEF OwnBox
<1>12. SubModels'  BY <1>1, <1>2, <1>3, <1>6 DEF SubModels, Working, Steps
<1>13. KeptMasks'
  <2>1. \A c \in Components : Held(c)' <=> Held(c)  BY <1>1, <1>2, <1>3, <1>7 DEF Held, HasSaved
  <2> QED  BY <1>2, <1>5, <1>6, <2>1, SameMasks
<1>14. AlgorithmMasks'
  <2>1. Scales' = Scales /\ \A i : Inherited(i)' = Inherited(i)  BY <1>2 DEF Scales, Inherited
  <2> SUFFICES ASSUME Exact, NEW t \in SubImages, pc'[t] \in {"ready", "executed"},
                      NEW i \in Scales, NEW p \in Mask(t)
               PROVE  InMask(t, i, p)' <=>
                        p \in Inherited(i) \/ \E c \in subModel[t] : c.scale = i /\ c.pixel = p
    BY <1>2, <1>3, <1>5, <2>1 DEF AlgorithmMasks
  <2>2. InMask(t, i, p)' <=> InMask(t, i, p)  BY <1>2 DEF InMask
  <2>3. pc[t] \in {"ready", "executed"}  BY <1>1
  <2> QED  BY <1>6, <2>2, <2>3 DEF AlgorithmMasks
<1>15. KeptList'
  <2> SUFFICES ASSUME NEW c \in Components
               PROVE  /\ Added(c)' >= 0 /\ (Listed(c)' => Added(c)' >= 1)
                      /\ Exact => Added(c)' = IF Listed(c)' THEN 1 ELSE 0  BY <1>5 DEF KeptList
  <2>1. Added(c) \in Int /\ Added(c)' = Added(c) + (IF c \in algList[s].components THEN 1 ELSE 0)
    <3>1. componentList \in [Components -> Nat] /\ inherited.list \in [Components -> Nat]
      BY <1>6 DEF DeconvolutionTypeOK
    <3>2. componentList'[c] = componentList[c] + (IF c \in algList[s].components THEN 1 ELSE 0)  BY DEF AddComponents
    <3>3. componentList[c] \in Nat /\ inherited.list[c] \in Nat  BY <3>1
    <3> QED  BY <1>2, <3>2, <3>3 DEF Added
  <2>2. Listed(c) => Listed(c)'  BY <1>1, <1>2, <1>3 DEF Listed
  <2>3. Listed(c)' => \/ Listed(c)
                      \/ pass = "clean" /\ c.pixel \in Mask(s) /\ c \in subModel[s] /\ c \notin model
    BY <1>1, <1>2, <1>3, <1>4 DEF Listed, InPass
  <2>4. c.pixel \in Mask(s) /\ c \in subModel[s] /\ c \notin model => c \in algList[s].components
    BY <1>1, <1>6 DEF AlgorithmLists
  <2>5. Exact /\ c \in algList[s].components => c.pixel \in Mask(s) /\ c \in subModel[s] /\ c \notin model
    BY <1>1, <1>6 DEF AlgorithmLists
  <2>6. c.pixel \in Mask(s) /\ c \notin model => ~Listed(c)
    <3> SUFFICES ASSUME c.pixel \in Mask(s), NEW t \in SubImages, pc[t] = "added", c.pixel \in Mask(t) PROVE FALSE
      BY DEF Listed
    <3>1. t # s  BY <1>1
    <3> QED  BY <1>6, <3>1, MasksApart
  <2>7. c.pixel \in Mask(s) /\ c \in subModel[s] /\ c \notin model => Listed(c)'
    <3> HAVE c.pixel \in Mask(s) /\ c \in subModel[s] /\ c \notin model
    <3>1. pc'[s] = "added"  BY <1>1, <1>7
    <3> QED  BY <1>2, <1>3, <3>1 DEF Listed
  <2>8. Added(c) >= 0 /\ (Listed(c) => Added(c) >= 1) /\ (Exact => Added(c) = IF Listed(c) THEN 1 ELSE 0)
    BY <1>6 DEF KeptList
  <2>9. CASE c \in algList[s].components
    <3>1. Added(c)' = Added(c) + 1  BY <2>1, <2>9
    <3>2. Added(c)' >= 1  BY <2>1, <2>8, <3>1
    <3>3. Exact => Added(c) = 0 /\ Listed(c)'  BY <2>5, <2>6, <2>7, <2>8, <2>9
    <3>4. Exact => Added(c)' = 1 /\ Listed(c)'  BY <3>1, <3>3
    <3>5. Added(c)' >= 0  BY <2>1, <2>8, <3>1
    <3> QED  BY <3>2, <3>4, <3>5
  <2>10. CASE c \notin algList[s].components
    <3>1. Added(c)' = Added(c)  BY <2>1, <2>10
    <3>2. Listed(c)' <=> Listed(c)  BY <2>2, <2>3, <2>4, <2>10
    <3> QED  BY <2>8, <3>1, <3>2
  <2> QED  BY <2>9, <2>10
<1>16. AlgorithmLists'  BY <1>1, <1>2, <1>3, <1>5, <1>6 DEF AlgorithmLists
<1> QED  BY <1>8, <1>9, <1>10, <1>11, <1>12, <1>13, <1>14, <1>15, <1>16 DEF Agreement

\* What was found becomes part of the model.
LEMMA CopyBackAgreement == ASSUME IInv, NEW s \in SubImages, CopyBack(s) PROVE Agreement'
<1> DEFINE Others == SubImages \ {s}
<1>1. /\ pc[s] = "added" /\ pc'[s] = "done" /\ subModel'[s] = {}
      /\ \A t \in Others : pc'[t] = pc[t] /\ subModel'[t] = subModel[t]
      /\ model' = {c \in model : c.pixel \notin Mask(s)} \cup {c \in subModel[s] : c.pixel \in Mask(s)}
  BY DEF CopyBack, Copied, IInv, DeconvolutionTypeOK
<1>2. /\ UNCHANGED <<scaleMasks, componentList, scaleCount, algMasks, algList, algRms>>
      /\ UNCHANGED shared /\ UNCHANGED <<autoMaskIsFinished, usePerScaleMasks, pass, subdivision, rmsImage, inherited>>
  BY DEF CopyBack, shared, algorithms
<1>3. \A t \in SubImages : Mask(t)' = Mask(t) /\ Box(t)' = Box(t)  BY <1>2 DEF Mask, Box
<1>4. Exact' = Exact  BY <1>2 DEF Exact
<1>5. /\ DeconvolutionTypeOK /\ Phases /\ Counts /\ NothingSaved /\ OwnBox /\ SubModels
      /\ KeptMasks /\ AlgorithmMasks /\ KeptList /\ AlgorithmLists  BY DEF IInv, Agreement
<1>6. pass = "clean"  BY <1>1, <1>5 DEF Phases
<1>7. model \subseteq model'  BY CopyBackGrows DEF IInv
<1>8. \A t \in Others : \A c : c.pixel \in Mask(t) => (c \in model' <=> c \in model)
  <2> SUFFICES ASSUME NEW t \in Others, NEW c, c.pixel \in Mask(t) PROVE c \in model' <=> c \in model  OBVIOUS
  <2>1. c.pixel \notin Mask(s)  BY <1>5, MasksApart
  <2> QED  BY <1>1, <2>1
<1>9. \A c \in Components : (Held(c)' <=> Held(c)) /\ (Listed(c)' <=> Listed(c))
  <2> SUFFICES ASSUME NEW c \in Components PROVE (Held(c)' <=> Held(c)) /\ (Listed(c)' <=> Listed(c))  OBVIOUS
  <2>1. c \in model' <=> c \in model \/ (c.pixel \in Mask(s) /\ c \in subModel[s])  BY <1>1, <1>7
  <2>2. HasSaved(s) /\ ~HasSaved(s)' /\ \A t \in Others : HasSaved(t)' <=> HasSaved(t)  BY <1>1 DEF HasSaved
  <2> QED  BY <1>1, <1>3, <2>1, <2>2 DEF Held, Listed
<1>10. Phases'  BY <1>1, <1>2, <1>5 DEF Phases, InPass
<1>11. Counts'  BY <1>1, <1>2, <1>5, <1>6 DEF Counts, Executed
<1>12. NothingSaved'  BY <1>1, <1>2, <1>5 DEF NothingSaved, Unsaved
<1>13. OwnBox'  BY <1>1, <1>2, <1>3, <1>5 DEF OwnBox
<1>14. SubModels'  BY <1>1, <1>2, <1>3, <1>5, <1>7 DEF SubModels, Working
<1>15. KeptMasks' /\ KeptList'  BY <1>2, <1>4, <1>5, <1>9, SameMasks, SameList
<1>16. AlgorithmMasks'  BY <1>1, <1>2, <1>3, <1>4, <1>5 DEF AlgorithmMasks, Scales, InMask, Inherited
<1>17. AlgorithmLists'
  <2> SUFFICES ASSUME NEW t \in SubImages, pc'[t] \in {"executed", "masks saved"}
               PROVE  /\ \A c \in subModel[t] :
                           c.pixel \in Mask(t) => c \in model' \/ c \in algList[t].components
                      /\ Exact => \A c \in algList[t].components :
                           c.pixel \in Mask(t) /\ c \in subModel[t] /\ c \notin model'
    BY <1>1, <1>2, <1>3, <1>4 DEF AlgorithmLists
  <2>1. t \in Others /\ pc[t] \in {"executed", "masks saved"}  BY <1>1
  <2> QED  BY <1>5, <1>7, <1>8, <2>1 DEF AlgorithmLists
<1> QED  BY <1>10, <1>11, <1>12, <1>13, <1>14, <1>15, <1>16, <1>17 DEF Agreement

----
\* Whatever the order of the subimages.
LEMMA InitIInv == DeconvolutionInit => IInv  BY InitTypes, InitPrivate, InitAgreement DEF IInv

LEMMA NextIInv == ASSUME IInv, [DeconvolutionNext]_deconvolutionVars PROVE IInv'
<1>1. Private'
  <2>1. Private  BY DEF IInv
  <2> QED  BY <2>1, NextPrivate
<1>2. CASE Perform  BY <1>1, <1>2, OutsideTypes, PerformAgreement DEF IInv
<1>3. CASE RunDeconvolution  BY <1>1, <1>3, OutsideTypes, RunDeconvolutionAgreement DEF IInv
<1>4. ASSUME NEW reached \in BOOLEAN, FinishIteration(reached) PROVE IInv'
  <2>1. DeconvolutionTypeOK'  BY <1>4, OutsideTypes
  <2> QED  BY <1>1, <1>4, <2>1, FinishIterationAgreement DEF IInv
<1>5. CASE InitializeDeconvolutionAlgorithm  BY <1>1, <1>5, OutsideTypes, InitializeAgreement DEF IInv
<1>6. ASSUME NEW s \in SubImages, RunSubImage(s) PROVE IInv'
  <2>1. DeconvolutionTypeOK'  BY <1>6, InsideTypes
  <2>2. Agreement'  BY <1>6, TrimAgreement, SetScaleMasksAgreement, ExecuteAgreement, WriteScaleMasksAgreement,
       AddComponentsAgreement, CopyBackAgreement DEF RunSubImage
  <2> QED  BY <1>1, <2>1, <2>2 DEF IInv
<1>7. CASE UNCHANGED deconvolutionVars
  <2>1. /\ UNCHANGED <<group, iteration, autoMaskIsFinished, usePerScaleMasks, pass, subdivision, rmsImage, inherited>>
        /\ UNCHANGED <<pc, scaleMasks, componentList, model, subModel, scaleCount, algMasks, algList, algRms>>
    BY <1>7 DEF deconvolutionVars, shared, algorithms
  <2>2. DeconvolutionTypeOK'  BY <2>1 DEF IInv, DeconvolutionTypeOK
  <2>3. \A s \in SubImages : Mask(s)' = Mask(s) /\ Box(s)' = Box(s)  BY <2>1 DEF Mask, Box
  <2>4. \A c \in Components : (Held(c)' <=> Held(c)) /\ (Listed(c)' <=> Listed(c))
    BY <2>1, <2>3 DEF Held, Listed, HasSaved
  <2>5. Phases' /\ Counts' /\ NothingSaved' /\ OwnBox' /\ SubModels' /\ AlgorithmLists'
    BY <2>1, <2>3 DEF IInv, Agreement, Phases, InPass, Counts, Executed, NothingSaved, Unsaved, OwnBox,
                      SubModels, Working, AlgorithmLists, Exact
  <2>6. KeptMasks' /\ KeptList'  BY <2>1, <2>4, SameMasks, SameList DEF IInv, Agreement, Exact
  <2>7. AlgorithmMasks'  BY <2>1, <2>3 DEF IInv, Agreement, AlgorithmMasks, Exact, Scales, InMask, Inherited
  <2> QED  BY <1>1, <2>2, <2>5, <2>6, <2>7 DEF IInv, Agreement
<1> QED  BY <1>2, <1>3, <1>4, <1>5, <1>6, <1>7 DEF DeconvolutionNext, Done

LEMMA IInvReady == IInv => ReadyToExecute
<1> SUFFICES ASSUME IInv, NEW s \in SubImages, pc[s] = "ready"
             PROVE  /\ \A i \in DOMAIN algMasks[s] : algMasks[s][i].box = Box(s)
                    /\ usePerScaleMasks => ScalesFor(s) <= Len(algMasks[s])
                    /\ algList[s] # NoList => algList[s].box = Box(s)
                    /\ algRms[s] = IF usePerScaleMasks THEN NoImage ELSE Box(s)  BY DEF ReadyToExecute
<1>1. usePerScaleMasks => autoMaskIsFinished
  <2>1. InPass  BY WorkInPass
  <2> QED  BY <2>1 DEF IInv, Agreement, Phases
<1>2. usePerScaleMasks => scaleCount[s] # 0  BY <1>1 DEF IInv, Agreement, Counts
<1>3. usePerScaleMasks => ScalesFor(s) <= Len(algMasks[s])
  <2>1. scaleCount[s] \in Nat /\ Len(algMasks[s]) \in Nat /\ scaleCount[s] <= Len(algMasks[s])  BY EnoughMasks
  <2>2. ScalesFor(s) \in 1 .. MaxScales /\ (scaleCount[s] # 0 => ScalesFor(s) <= scaleCount[s])
    BY ScalesUsed DEF IInv
  <2>3. ScalesFor(s) \in Nat  BY <2>2, BoundsAssumption DEF BoundsAssumption
  <2> QED  BY <1>2, <2>1, <2>2, <2>3
<1>4. OwnBox  BY DEF IInv, Agreement
<1> QED  BY <1>3, <1>4 DEF OwnBox

LEMMA IInvModel == IInv => MasksAndListHoldModel
<1> SUFFICES ASSUME IInv, AtRest
             PROVE  /\ ~usePerScaleMasks =>
                         \A i \in DOMAIN scaleMasks : scaleMasks[i] = Inherited(i) \cup PixelsAt(model, i)
                    /\ \A c \in Components :
                         /\ c \in model => Added(c) >= 1
                         /\ ~usePerScaleMasks => Added(c) = IF c \in model THEN 1 ELSE 0  BY DEF MasksAndListHoldModel
<1>1. \A s \in SubImages : pc[s] = "done"  BY DEF AtRest, IInv, Private, BetweenPasses, AllDone
<1>2. \A c : (Held(c) <=> c \in model) /\ (Listed(c) <=> c \in model)  BY <1>1 DEF Held, Listed, HasSaved
<1>3. ~usePerScaleMasks => Exact  BY DEF Exact
<1>4. ASSUME ~usePerScaleMasks, NEW i \in DOMAIN scaleMasks
      PROVE  scaleMasks[i] = Inherited(i) \cup PixelsAt(model, i)
  <2>1. model \subseteq Components /\ scaleMasks \in Seq(SUBSET Pixels)
        /\ inherited.masks \in Seq(SUBSET Pixels)  BY DEF IInv, DeconvolutionTypeOK
  <2>2. scaleMasks[i] \subseteq Pixels /\ i \in Nat /\ i >= 1  BY <2>1, LenProperties
  <2>3. Inherited(i) \subseteq Pixels
    <3>1. /\ Len(inherited.masks) \in Nat /\ DOMAIN inherited.masks = 1 .. Len(inherited.masks)
          /\ inherited.masks \in [1 .. Len(inherited.masks) -> SUBSET Pixels]  BY <2>1, LenProperties
    <3> QED  BY <2>2, <3>1 DEF Inherited
  <2>4. PixelsAt(model, i) \subseteq Pixels
        /\ \A p : p \in PixelsAt(model, i) <=> \E c \in model : c.scale = i /\ c.pixel = p
    BY <2>1, PixelsOfComponents
  <2>5. \A p \in Pixels :
          p \in scaleMasks[i] <=>
            p \in Inherited(i) \/ \E c \in Components : c.scale = i /\ c.pixel = p /\ Held(c)
    BY <1>3, <1>4 DEF IInv, Agreement, KeptMasks
  <2> QED  BY <1>2, <2>1, <2>2, <2>3, <2>4, <2>5
<1>5. \A c \in Components : /\ c \in model => Added(c) >= 1
                            /\ ~usePerScaleMasks => Added(c) = IF c \in model THEN 1 ELSE 0
  BY <1>2, <1>3 DEF IInv, Agreement, KeptList
<1> QED  BY <1>4, <1>5

\* The state of the deconvolution has the types it is declared with, whatever the
\* sizes of the images and the order of the subimages (ParallelDeconvolution).
THEOREM DeconvolutionTypes == DeconvolutionSpec => []DeconvolutionTypeOK
<1>1. IInv /\ [DeconvolutionNext]_deconvolutionVars => IInv'  BY NextIInv
<1>2. IInv => DeconvolutionTypeOK  BY DEF IInv
<1> QED  BY InitIInv, <1>1, <1>2, PTL DEF DeconvolutionSpec

\* What an algorithm gets for a subimage fits it, and after every iteration the masks
\* and the component list agree with the model: no subimage loses or repeats what
\* another one, or an earlier iteration, has put in them (runSubImage).
THEOREM DeconvolutionAgrees == DeconvolutionSpec => []SubImagesAgreeWithModel
<1>1. IInv /\ [DeconvolutionNext]_deconvolutionVars => IInv'  BY NextIInv
<1>2. IInv => SubImagesAgreeWithModel  BY IInvReady, IInvModel DEF SubImagesAgreeWithModel
<1> QED  BY InitIInv, <1>1, <1>2, PTL DEF DeconvolutionSpec

----
\* The imaging run: numbers and sequences.

LessOnNat == {pair \in Nat \X Nat : pair[1] < pair[2]}
LEMMA LessIsWellFounded == IsWellFoundedOn(LessOnNat, Nat)  BY NatLessThanWellFounded DEF OpToRel, LessOnNat

\* A set of naturals has a least element.
LEMMA LeastElement ==
  ASSUME NEW T, T \subseteq Nat, T # {}
  PROVE  \E n \in T : \A m \in T : n <= m
<1>1. PICK n \in T : \A m \in T : <<m, n>> \notin LessOnNat  BY LessIsWellFounded, WFMin
<1>2. ASSUME NEW m \in T PROVE n <= m
  <2>1. m \in Nat /\ n \in Nat /\ ~(m < n)  BY <1>1 DEF LessOnNat
  <2> QED BY <2>1
<1> QED BY <1>2

LEMMA Quotients ==
  ASSUME NEW a \in Nat, NEW b \in Nat \ {0}
  PROVE  /\ a \div b \in Nat
         /\ b * (a \div b) <= a /\ a < b * (a \div b) + b  OBVIOUS

LEMMA ProductsInOrder ==
  ASSUME NEW size \in Nat, NEW a \in Nat, NEW b \in Nat, a <= b
  PROVE  size * a \in Nat /\ size * b \in Nat /\ size * a <= size * b
<1>1. b - a \in Nat /\ size * (b - a) \in Nat /\ size * b = size * a + size * (b - a)  OBVIOUS
<1> QED BY <1>1

\* What holds of 0 and is kept by every step holds up to the last one.
LEMMA StepByStep ==
  ASSUME NEW n \in Nat, NEW P, 0 \in P, \A k \in 0 .. n - 1 : k \in P => k + 1 \in P
  PROVE  \A k \in 0 .. n : k \in P
<1> DEFINE T == {k \in 0 .. n : k \notin P}
<1> SUFFICES T = {}  OBVIOUS
<1> SUFFICES ASSUME T # {} PROVE FALSE  OBVIOUS
<1>1. T \subseteq Nat  OBVIOUS
<1>2. PICK k \in T : \A m \in T : k <= m
  <2> HIDE DEF T
  <2> QED BY <1>1, LeastElement
<1>3. k \in 0 .. n /\ k # 0  OBVIOUS
<1>4. k - 1 \in 0 .. n - 1 /\ k - 1 \notin T /\ k - 1 + 1 = k  BY <1>2, <1>3
<1>5. k - 1 \in P  BY <1>4
<1> QED BY <1>4, <1>5

\* How many elements of a set are below another one of them.
Below(S, x) == Cardinality({y \in S : y < x})

\* Places are different, within the set, and in the order of the numbers.
LEMMA BelowIsARank ==
  ASSUME NEW S \in SUBSET Nat, IsFiniteSet(S)
  PROVE  /\ \A x \in S : Below(S, x) \in 0 .. Cardinality(S) - 1
         /\ \A x, y \in S : x < y => Below(S, x) < Below(S, y)
         /\ Cardinality(S) \in Nat
<1>1. Cardinality(S) \in Nat  BY FS_CardinalityType
<1>2. ASSUME NEW x \in S PROVE Below(S, x) \in 0 .. Cardinality(S) - 1
  <2> DEFINE L == {y \in S : y < x}
  <2>1. L \in SUBSET S /\ L # S  OBVIOUS
  <2>2. IsFiniteSet(L) /\ Cardinality(L) <= Cardinality(S) /\ (Cardinality(S) = Cardinality(L) => S = L)
    <3> HIDE DEF L
    <3> QED BY <2>1, FS_Subset
  <2>3. Cardinality(L) \in Nat  BY <2>2, FS_CardinalityType
  <2>4. Below(S, x) = Cardinality(L)  BY DEF Below
  <2> HIDE DEF L
  <2> QED BY <1>1, <2>1, <2>2, <2>3, <2>4
<1>3. ASSUME NEW x \in S, NEW y \in S, x < y PROVE Below(S, x) < Below(S, y)
  <2> DEFINE L == {z \in S : z < x}
             M == {z \in S : z < y}
  <2>1. L \in SUBSET M /\ x \in M /\ x \notin L
    <3>1. x \in Nat /\ y \in Nat /\ \A z \in S : z \in Nat  OBVIOUS
    <3>2. \A z \in S : z < x => z < y  BY <1>3, <3>1
    <3>3. x \in M  BY <1>3
    <3>4. x \notin L  BY <3>1
    <3>5. L \subseteq M  BY <3>2
    <3> QED BY <3>3, <3>4, <3>5
  <2>2. M \in SUBSET S  OBVIOUS
  <2>3. Below(S, x) = Cardinality(L) /\ Below(S, y) = Cardinality(M)  BY DEF Below
  <2> HIDE DEF L, M
  <2>4. IsFiniteSet(M)  BY <2>2, FS_Subset
  <2>5. IsFiniteSet(L) /\ Cardinality(L) <= Cardinality(M) /\ (Cardinality(M) = Cardinality(L) => M = L)
    BY <2>1, <2>4, FS_Subset
  <2>6. Cardinality(L) \in Nat /\ Cardinality(M) \in Nat  BY <2>4, <2>5, FS_CardinalityType
  <2> QED BY <2>1, <2>3, <2>5, <2>6
<1> QED BY <1>1, <1>2, <1>3

\* The members of a set, once each, from small to large.
IsAscending(f, S) ==
  /\ Cardinality(S) \in Nat
  /\ f \in [1 .. Cardinality(S) -> S]
  /\ \A i, j \in 1 .. Cardinality(S) : i < j => f[i] < f[j]
  /\ \A i, j \in 1 .. Cardinality(S) : f[i] = f[j] => i = j
  /\ \A x \in S : \E i \in 1 .. Cardinality(S) : f[i] = x

\* Ascending gives such a sequence for every finite set of numbers.
LEMMA AscendingFacts ==
  ASSUME NEW S \in SUBSET Nat, IsFiniteSet(S)
  PROVE  IsAscending(Ascending(S), S)
<1> DEFINE n == Cardinality(S)
           f == Ascending(S)
           b == [x \in S |-> Below(S, x) + 1]
<1>1. n \in Nat /\ (\A x \in S : Below(S, x) \in 0 .. n - 1) /\ \A x, y \in S : x < y => Below(S, x) < Below(S, y)
  BY BelowIsARank
<1>2. f = [i \in 1 .. n |-> CHOOSE x \in S : Below(S, x) = i - 1]  BY DEF Ascending, Below
<1>3. b \in [S -> 1 .. n]  BY <1>1
<1>4. \A x, y \in S : b[x] = b[y] => x = y
  <2> SUFFICES ASSUME NEW x \in S, NEW y \in S, b[x] = b[y] PROVE x = y  OBVIOUS
  <2>1. Below(S, x) = Below(S, y) /\ Below(S, x) \in Int /\ Below(S, y) \in Int /\ x \in Nat /\ y \in Nat  BY <1>1
  <2>2. ~ (x < y) /\ ~ (y < x)  BY <1>1, <2>1
  <2> QED BY <2>1, <2>2
<1> HIDE DEF f, b
<1>5. b \in Injection(S, 1 .. n)  BY <1>3, <1>4 DEF Injection, IsInjective
<1>6. IsFiniteSet(1 .. n) /\ Cardinality(1 .. n) = n
  <2> HIDE DEF n
  <2> QED BY <1>1, FS_Interval
<1>7. b \in Surjection(S, 1 .. n)  BY <1>5, <1>6, FS_Injection
<1>8. \A i \in 1 .. n : \E x \in S : b[x] = i  BY <1>7 DEF Surjection
<1>9. \A i \in 1 .. n : \E x \in S : Below(S, x) = i - 1  BY <1>1, <1>8 DEF b
<1>10. \A i \in 1 .. n : f[i] \in S /\ Below(S, f[i]) = i - 1
  <2> SUFFICES ASSUME NEW i \in 1 .. n PROVE f[i] \in S /\ Below(S, f[i]) = i - 1  OBVIOUS
  <2>1. f[i] = CHOOSE x \in S : Below(S, x) = i - 1  BY <1>2
  <2> HIDE DEF n
  <2> QED BY <1>9, <2>1
<1>11. f \in [1 .. n -> S]  BY <1>2, <1>10
<1>12. \A i, j \in 1 .. n : f[i] = f[j] => i = j
  <2> SUFFICES ASSUME NEW i \in 1 .. n, NEW j \in 1 .. n, f[i] = f[j] PROVE i = j  OBVIOUS
  <2>1. Below(S, f[i]) = i - 1 /\ Below(S, f[j]) = j - 1  BY <1>10
  <2> HIDE DEF n
  <2> QED BY <1>1, <2>1
<1>13. \A i, j \in 1 .. n : i < j => f[i] < f[j]
  <2> SUFFICES ASSUME NEW i \in 1 .. n, NEW j \in 1 .. n, i < j PROVE f[i] < f[j]  OBVIOUS
  <2>1. Below(S, f[i]) = i - 1 /\ Below(S, f[j]) = j - 1 /\ f[i] \in S /\ f[j] \in S  BY <1>10
  <2>2. f[i] \in Nat /\ f[j] \in Nat  BY <2>1
  <2> HIDE DEF n
  <2>3. ~ (f[j] < f[i])
    <3>1. Below(S, f[i]) < Below(S, f[j])  BY <1>1, <2>1
    <3>2. Below(S, f[i]) \in Int /\ Below(S, f[j]) \in Int  BY <1>1, <2>1
    <3> SUFFICES ASSUME f[j] < f[i] PROVE FALSE  OBVIOUS
    <3>3. Below(S, f[j]) < Below(S, f[i])  BY <1>1, <2>1
    <3> QED BY <3>1, <3>2, <3>3
  <2>4. f[i] # f[j]  BY <1>1, <1>12
  <2> QED BY <2>2, <2>3, <2>4
<1>14. \A x \in S : \E i \in 1 .. n : f[i] = x
  <2> SUFFICES ASSUME NEW x \in S PROVE \E i \in 1 .. n : f[i] = x  OBVIOUS
  <2>1. b[x] \in 1 .. n /\ b[x] - 1 = Below(S, x)  BY <1>1 DEF b
  <2>2. f[b[x]] \in S /\ Below(S, f[b[x]]) = Below(S, x)  BY <1>10, <2>1
  <2>3. b[f[b[x]]] = b[x]  BY <2>2 DEF b
  <2>4. f[b[x]] = x  BY <1>4, <2>2, <2>3
  <2> HIDE DEF n
  <2> QED BY <2>1, <2>4
<1> QED BY <1>1, <1>11, <1>12, <1>13, <1>14 DEF IsAscending, f

\* The numbers from 1 on are their own places.
LEMMA AscendingUpTo ==
  ASSUME NEW m \in Nat
  PROVE  Ascending(1 .. m) = [k \in 1 .. m |-> k]
<1> DEFINE S == 1 .. m
           f == Ascending(S)
<1>1. IsFiniteSet(S) /\ Cardinality(S) = m  BY FS_Interval
<1>2. \A x \in S : Below(S, x) = x - 1
  <2> SUFFICES ASSUME NEW x \in S PROVE Below(S, x) = x - 1  OBVIOUS
  <2>1. {y \in S : y < x} = 1 .. x - 1  OBVIOUS
  <2>3. Cardinality(1 .. x - 1) = x - 1  BY FS_Interval
  <2> QED BY <2>1, <2>3 DEF Below
<1>3. f = [i \in 1 .. m |-> CHOOSE x \in S : Below(S, x) = i - 1]  BY <1>1 DEF Ascending, Below
<1>4. \A i \in 1 .. m : (CHOOSE x \in S : Below(S, x) = i - 1) = i
  <2> SUFFICES ASSUME NEW i \in 1 .. m PROVE (CHOOSE x \in S : Below(S, x) = i - 1) = i  OBVIOUS
  <2> DEFINE c == CHOOSE x \in S : Below(S, x) = i - 1
  <2>1. i \in S /\ Below(S, i) = i - 1  BY <1>2
  <2>2. c \in S /\ Below(S, c) = i - 1  BY <2>1
  <2> HIDE DEF c
  <2>3. c - 1 = i - 1  BY <1>2, <2>2
  <2>4. c \in Int /\ i \in Int  BY <2>2
  <2> QED BY <2>3, <2>4 DEF c
<1> HIDE DEF f
<1> QED BY <1>3, <1>4 DEF f

\* What is at some places of a sequence.
LEMMA AtPlacesFacts ==
  ASSUME NEW X, NEW seq \in Seq(X), NEW I \in SUBSET (1 .. Len(seq))
  PROVE  /\ IsAscending(Ascending(I), I)
         /\ AtPlaces(seq, I) \in Seq(X)
         /\ Len(AtPlaces(seq, I)) = Cardinality(I)
         /\ \A k \in 1 .. Cardinality(I) : AtPlaces(seq, I)[k] = seq[Ascending(I)[k]]
<1> DEFINE order == Ascending(I)
           n == Cardinality(I)
<1>1. Len(seq) \in Nat /\ seq \in [1 .. Len(seq) -> X]  BY LenProperties
<1>2. IsFiniteSet(1 .. Len(seq))  BY <1>1, FS_Interval
<1>3. IsFiniteSet(I) /\ I \in SUBSET Nat
  <2>1. I \in SUBSET Nat  BY <1>1
  <2>2. IsFiniteSet(I)  BY <1>2, FS_Subset
  <2> QED BY <2>1, <2>2
<1>4. IsAscending(order, I)  BY <1>3, AscendingFacts
<1>5. n \in Nat /\ order \in [1 .. n -> I]  BY <1>4 DEF IsAscending
<1> HIDE DEF order
<1>6. AtPlaces(seq, I) = [k \in 1 .. n |-> seq[order[k]]]  BY <1>5 DEF AtPlaces, order
<1> HIDE DEF n
<1>7. \A k \in 1 .. n : seq[order[k]] \in X  BY <1>1, <1>5
<1>8. AtPlaces(seq, I) \in Seq(X) /\ Len(AtPlaces(seq, I)) = n
  <2>1. [k \in 1 .. n |-> seq[order[k]]] \in [1 .. n -> X]  BY <1>7
  <2> DEFINE s == [k \in 1 .. n |-> seq[order[k]]]
  <2>2. s \in Seq(X) /\ Len(s) = n
    <3> HIDE DEF s
    <3>1. DOMAIN s = 1 .. n  BY <2>1 DEF s
    <3>2. s \in [1 .. n -> X]  BY <2>1 DEF s
    <3> QED BY <1>5, <3>1, <3>2
  <2> QED BY <1>6, <2>2
<1>9. \A k \in 1 .. n : AtPlaces(seq, I)[k] = seq[order[k]]  BY <1>6
<1> QED BY <1>4, <1>8, <1>9 DEF order, n

\* The sequences that FlattenSeq joins, one by one.
IsFlattening(fl, seqs, X) ==
  /\ fl \in [1 .. Len(seqs) -> Seq(X)]
  /\ fl[1] = seqs[1]
  /\ \A i \in 1 .. Len(seqs) - 1 : fl[i + 1] = fl[i] \o seqs[i + 1]
  /\ FlattenSeq(seqs) = fl[Len(seqs)]

\* FlattenSeq has joined the sequences one by one.
CanFlatten(seqs, X) == \E fl : IsFlattening(fl, seqs, X)

\* Its recursion can be followed from step to step.
LEMMA FlattenIsStepwise ==
  ASSUME NEW X, NEW seqs \in Seq(Seq(X)), Len(seqs) # 0
  PROVE  CanFlatten(seqs, X)
<1> DEFINE n == Len(seqs)
           Is(f, m) == f = [i \in 1 .. m |-> IF i = 1 THEN seqs[i] ELSE f[i - 1] \o seqs[i]]
           P == {m \in 0 .. n : \E f : Is(f, m)}
           fl == CHOOSE f : Is(f, n)
<1>1. n \in Nat /\ n # 0 /\ seqs \in [1 .. n -> Seq(X)]  BY LenProperties
<1> HIDE DEF n
<1>2. 0 \in P
  <2> DEFINE f == [i \in 1 .. 0 |-> seqs]
  <2>1. Is(f, 0)  OBVIOUS
  <2> HIDE DEF Is, f
  <2> QED BY <1>1, <2>1
<1>3. ASSUME NEW m \in 0 .. n - 1, m \in P PROVE m + 1 \in P
  <2>1. PICK f : Is(f, m)  BY <1>3
  <2> DEFINE g == [i \in 1 .. m + 1 |-> IF i = m + 1 THEN (IF i = 1 THEN seqs[i] ELSE f[i - 1] \o seqs[i]) ELSE f[i]]
  <2>2. ASSUME NEW i \in 1 .. m + 1 PROVE g[i] = IF i = 1 THEN seqs[i] ELSE g[i - 1] \o seqs[i]
    <3>1. CASE i = m + 1 /\ i # 1
      <4>1. i - 1 \in 1 .. m + 1 /\ i - 1 # m + 1  BY <3>1
      <4> QED BY <3>1, <4>1
    <3>2. CASE i = m + 1 /\ i = 1  BY <3>2
    <3>3. CASE i # m + 1 /\ i = 1
      <4>1. i \in 1 .. m  BY <3>3
      <4>2. f[i] = IF i = 1 THEN seqs[i] ELSE f[i - 1] \o seqs[i]  BY <2>1, <4>1
      <4> QED BY <3>3, <4>2
    <3>4. CASE i # m + 1 /\ i # 1
      <4>1. i \in 1 .. m /\ i - 1 \in 1 .. m + 1 /\ i - 1 # m + 1  BY <3>4
      <4>2. f[i] = IF i = 1 THEN seqs[i] ELSE f[i - 1] \o seqs[i]  BY <2>1, <4>1
      <4>3. g[i] = f[i] /\ g[i - 1] = f[i - 1]  BY <3>4, <4>1
      <4> HIDE DEF g
      <4> QED BY <3>4, <4>2, <4>3
    <3> QED BY <3>1, <3>2, <3>3, <3>4
  <2>3. DOMAIN g = 1 .. m + 1 /\ g = [i \in 1 .. m + 1 |-> g[i]]  OBVIOUS
  <2> HIDE DEF g
  <2>4. g = [i \in 1 .. m + 1 |-> IF i = 1 THEN seqs[i] ELSE g[i - 1] \o seqs[i]]  BY <2>2, <2>3
  <2>5. Is(g, m + 1)  BY <2>4
  <2> HIDE DEF Is
  <2>6. m + 1 \in 0 .. n  BY <1>1
  <2> QED BY <2>5, <2>6
<1>4. n \in P
  <2> HIDE DEF P
  <2>1. \A k \in 0 .. n : k \in P  BY <1>1, <1>2, <1>3, StepByStep
  <2> QED BY <1>1, <2>1
<1>5. Is(fl, n)
  <2>1. \E f : Is(f, n)  BY <1>4
  <2> HIDE DEF Is
  <2> QED BY <2>1
<1>6. FlattenSeq(seqs) = fl[n]  BY <1>1 DEF FlattenSeq, n
<1> HIDE DEF fl
<1>7. DOMAIN fl = 1 .. n /\ fl = [i \in 1 .. n |-> fl[i]] /\ \A i \in 1 .. n : fl[i] = IF i = 1 THEN seqs[i] ELSE fl[i - 1] \o seqs[i]
  <2>1. fl = [i \in 1 .. n |-> IF i = 1 THEN seqs[i] ELSE fl[i - 1] \o seqs[i]]  BY <1>5
  <2> DEFINE e == [i \in 1 .. n |-> IF i = 1 THEN seqs[i] ELSE fl[i - 1] \o seqs[i]]
  <2>2. DOMAIN e = 1 .. n /\ e = [i \in 1 .. n |-> e[i]] /\ \A i \in 1 .. n : e[i] = IF i = 1 THEN seqs[i] ELSE fl[i - 1] \o seqs[i]
    OBVIOUS
  <2>3. fl = e  BY <2>1
  <2> HIDE DEF e
  <2> QED BY <2>2, <2>3
<1>8. fl[1] = seqs[1]
  <2>1. 1 \in 1 .. n  BY <1>1
  <2> QED BY <1>7, <2>1
<1>9. ASSUME NEW i \in 1 .. n - 1 PROVE fl[i + 1] = fl[i] \o seqs[i + 1]
  <2>1. i + 1 \in 1 .. n /\ i + 1 # 1 /\ i + 1 - 1 = i  BY <1>1
  <2> DEFINE j == i + 1
  <2>2. j \in 1 .. n /\ j # 1 /\ j - 1 = i  BY <2>1
  <2> HIDE DEF j
  <2>3. fl[j] = fl[j - 1] \o seqs[j]  BY <1>7, <2>2
  <2>4. fl[j] = fl[i] \o seqs[j]  BY <2>2, <2>3
  <2> QED BY <2>4 DEF j
<1>10. \A i \in 1 .. n : fl[i] \in Seq(X)
  <2> DEFINE Q == {k \in 0 .. n - 1 : fl[k + 1] \in Seq(X)}
  <2>1. n - 1 \in Nat  BY <1>1
  <2>2. 0 \in Q
    <3>1. 0 + 1 = 1 /\ 0 \in 0 .. n - 1 /\ 1 \in 1 .. n  BY <1>1
    <3> QED BY <1>1, <1>8, <3>1
  <2>3. ASSUME NEW k \in 0 .. n - 1 - 1, k \in Q PROVE k + 1 \in Q
    <3>1. k + 1 \in 1 .. n - 1 /\ k + 1 \in 0 .. n - 1 /\ k + 1 + 1 \in 1 .. n  BY <1>1
    <3>2. fl[k + 1 + 1] = fl[k + 1] \o seqs[k + 1 + 1] /\ fl[k + 1] \in Seq(X) /\ seqs[k + 1 + 1] \in Seq(X)
      BY <1>1, <1>9, <2>3, <3>1
    <3>3. fl[k + 1] \o seqs[k + 1 + 1] \in Seq(X)  BY <3>2, ConcatProperties
    <3> QED BY <3>1, <3>2, <3>3
  <2>4. \A k \in 0 .. n - 1 : k \in Q
    <3> HIDE DEF Q
    <3> QED BY <2>1, <2>2, <2>3, StepByStep
  <2>5. ASSUME NEW i \in 1 .. n PROVE fl[i] \in Seq(X)
    <3>1. i - 1 \in 0 .. n - 1 /\ i - 1 + 1 = i  BY <1>1
    <3> QED BY <2>4, <3>1
  <2> QED BY <2>5
<1>11. fl \in [1 .. n -> Seq(X)]  BY <1>7, <1>10
<1> QED BY <1>6, <1>8, <1>9, <1>11 DEF CanFlatten, IsFlattening, n

\* What occurs in a sequence.
In(s) == {s[k] : k \in 1 .. Len(s)}

\* Joining two sequences joins what occurs in them.
LEMMA InConcat ==
  ASSUME NEW X, NEW s \in Seq(X), NEW t \in Seq(X)
  PROVE  /\ s \o t \in Seq(X)
         /\ In(s \o t) = In(s) \cup In(t)
<1>1. /\ s \o t \in Seq(X) /\ Len(s \o t) = Len(s) + Len(t)
      /\ \A i \in 1 .. Len(s) + Len(t) : (s \o t)[i] = IF i <= Len(s) THEN s[i] ELSE t[i - Len(s)]
  BY ConcatProperties
<1>2. Len(s) \in Nat /\ Len(t) \in Nat  BY LenProperties
<1>3. ASSUME NEW x \in In(s \o t) PROVE x \in In(s) \cup In(t)
  <2>1. PICK i \in 1 .. Len(s) + Len(t) : x = (s \o t)[i]  BY <1>1 DEF In
  <2>2. CASE i <= Len(s)
    <3>1. i \in 1 .. Len(s) /\ x = s[i]  BY <1>1, <1>2, <2>1, <2>2
    <3> QED BY <3>1 DEF In
  <2>3. CASE ~ (i <= Len(s))
    <3>1. i - Len(s) \in 1 .. Len(t) /\ x = t[i - Len(s)]  BY <1>1, <1>2, <2>1, <2>3
    <3> QED BY <3>1 DEF In
  <2> QED BY <2>2, <2>3
<1>4. ASSUME NEW x \in In(s) PROVE x \in In(s \o t)
  <2>1. PICK i \in 1 .. Len(s) : x = s[i]  BY DEF In
  <2>2. i \in 1 .. Len(s) + Len(t) /\ (s \o t)[i] = x  BY <1>1, <1>2, <2>1
  <2> QED BY <1>1, <2>2 DEF In
<1>5. ASSUME NEW x \in In(t) PROVE x \in In(s \o t)
  <2>1. PICK i \in 1 .. Len(t) : x = t[i]  BY DEF In
  <2>2. i + Len(s) \in 1 .. Len(s) + Len(t) /\ ~ (i + Len(s) <= Len(s)) /\ (i + Len(s)) - Len(s) = i  BY <1>2
  <2>3. (s \o t)[i + Len(s)] = x  BY <1>1, <2>1, <2>2
  <2> QED BY <1>1, <2>2, <2>3 DEF In
<1> QED BY <1>1, <1>3, <1>4, <1>5

\* And so does joining any number.
LEMMA InFlattened ==
  ASSUME NEW X, NEW seqs \in Seq(Seq(X))
  PROVE  /\ FlattenSeq(seqs) \in Seq(X)
         /\ In(FlattenSeq(seqs)) = UNION {In(seqs[i]) : i \in 1 .. Len(seqs)}
<1>1. Len(seqs) \in Nat /\ seqs \in [1 .. Len(seqs) -> Seq(X)]  BY LenProperties
<1>2. CASE Len(seqs) = 0
  <2>1. seqs = << >>  BY <1>2, EmptySeq
  <2>2. FlattenSeq(seqs) = << >> /\ << >> \in Seq(X)  BY <1>2, <2>1, EmptySeq DEF FlattenSeq
  <2>3. In(<< >>) = {}  BY EmptySeq DEF In
  <2> QED BY <1>2, <2>2, <2>3
<1>3. CASE Len(seqs) # 0
  <2> DEFINE n == Len(seqs)
             Upto(k) == UNION {In(seqs[i]) : i \in 1 .. k}
  <2>1. CanFlatten(seqs, X)  BY <1>3, FlattenIsStepwise
  <2>2. PICK fl : IsFlattening(fl, seqs, X)  BY <2>1 DEF CanFlatten
  <2>3. /\ fl \in [1 .. n -> Seq(X)]
        /\ fl[1] = seqs[1]
        /\ \A i \in 1 .. n - 1 : fl[i + 1] = fl[i] \o seqs[i + 1]
        /\ FlattenSeq(seqs) = fl[n]  BY <2>2 DEF IsFlattening
  <2>4. n \in Nat /\ n - 1 \in Nat /\ n \in 1 .. n /\ 1 \in 1 .. n /\ seqs \in [1 .. n -> Seq(X)]  BY <1>1, <1>3
  <2> HIDE DEF n
  <2> DEFINE P == {k \in 0 .. n - 1 : In(fl[k + 1]) = Upto(k + 1)}
  <2>5. 0 \in P
    <3>1. 0 \in 0 .. n - 1 /\ 0 + 1 = 1 /\ Upto(1) = In(seqs[1])  BY <2>4
    <3> HIDE DEF Upto
    <3> QED BY <2>3, <3>1
  <2>6. ASSUME NEW k \in 0 .. n - 1 - 1, k \in P PROVE k + 1 \in P
    <3>1. k + 1 \in 1 .. n - 1 /\ k + 1 \in 0 .. n - 1 /\ k + 1 + 1 \in 1 .. n /\ k + 1 \in 1 .. n  BY <2>4
    <3>2. fl[k + 1 + 1] = fl[k + 1] \o seqs[k + 1 + 1] /\ fl[k + 1] \in Seq(X) /\ seqs[k + 1 + 1] \in Seq(X)
      BY <2>3, <2>4, <3>1
    <3>3. In(fl[k + 1 + 1]) = In(fl[k + 1]) \cup In(seqs[k + 1 + 1])  BY <3>2, InConcat
    <3>4. Upto(k + 1 + 1) = Upto(k + 1) \cup In(seqs[k + 1 + 1])
      <4>1. 1 .. k + 1 + 1 = (1 .. k + 1) \cup {k + 1 + 1}  BY <3>1
      <4> QED BY <4>1
    <3>5. In(fl[k + 1]) = Upto(k + 1)  BY <2>6
    <3> HIDE DEF Upto
    <3> QED BY <3>1, <3>3, <3>4, <3>5
  <2>7. n - 1 \in P
    <3> HIDE DEF P
    <3>1. \A k \in 0 .. n - 1 : k \in P  BY <2>4, <2>5, <2>6, StepByStep
    <3> QED BY <2>4, <3>1
  <2>8. In(fl[n]) = Upto(n)
    <3>1. n - 1 + 1 = n  BY <2>4
    <3> HIDE DEF Upto
    <3> QED BY <2>7, <3>1
  <2> QED BY <2>3, <2>4, <2>8 DEF n
<1> QED BY <1>2, <1>3

----
\* The order of the calls.
TaskKinds == {"psf", "invert", "image", "predict"}
IsTask(c) == c.do \in TaskKinds

\* The second call uses what the first one makes, in its callback or in the
\* gridder.
Needs(c, d) ==
  \/ IsTask(c) /\ d.do \in {"deconvolve", "save"}
  \/ c.do = "psf" /\ d.do \in {"invert", "image"}
  \/ c.do = "predict" /\ d.do = "image" /\ c.entry = d.entry
  \/ /\ c.do \in {"invert", "image"} /\ d.do = c.do
     /\ c.entry.polarization = "XY" /\ d.entry.polarization = "YX"
     /\ c.entry.outputChannelIndex = d.entry.outputChannelIndex

\* YX is added to what is there, so it must not be added twice.
IsAdded(c) == c.do \in {"invert", "image"} /\ c.entry.polarization = "YX"

\* The gridding task manager has finished in between.
FinishBetween(R, i, j) == \E k \in 1 .. Len(R) : i < k /\ k < j /\ R[k].do = "finish"

\* A call that needs another one is made only after waiting for it, and all tasks are waited for.
Orderly(R) ==
  /\ \A i, j \in 1 .. Len(R) : Needs(R[i], R[j]) => FinishBetween(R, i, j)
  /\ \A i \in 1 .. Len(R) : IsTask(R[i]) => FinishBetween(R, i, Len(R) + 1)
  /\ \A i, j \in 1 .. Len(R) : IsAdded(R[i]) /\ R[i] = R[j] => i = j

\* Calls that may come after others.
MayFollow(s, t) ==
  \A a \in In(s), b \in In(t) : ~ Needs(b, a) /\ ~ (IsAdded(a) /\ a = b)

\* Saving, deconvolving, reading and finishing hand out no task, so they wait for none.
LEMMA OnlyTasksAreNeeded ==
  ASSUME NEW c, NEW d, Needs(c, d)
  PROVE  IsTask(c)  BY DEF Needs, IsTask, TaskKinds

\* Calls in order stay so when others that may follow are appended.
LEMMA JoinOrderly ==
  ASSUME NEW X, NEW s \in Seq(X), NEW t \in Seq(X), Orderly(s), Orderly(t), MayFollow(s, t)
  PROVE  Orderly(s \o t)
<1> DEFINE m == Len(s)
           n == Len(t)
           R == s \o t
<1>1. m \in Nat /\ n \in Nat  BY LenProperties
<1>2. Len(R) = m + n /\ \A i \in 1 .. m + n : R[i] = IF i <= m THEN s[i] ELSE t[i - m]  BY ConcatProperties
<1> HIDE DEF R
<1>3. /\ \A i, j \in 1 .. m : Needs(s[i], s[j]) => FinishBetween(s, i, j)
      /\ \A i \in 1 .. m : IsTask(s[i]) => FinishBetween(s, i, m + 1)
      /\ \A i, j \in 1 .. m : IsAdded(s[i]) /\ s[i] = s[j] => i = j  BY DEF Orderly
<1>4. /\ \A i, j \in 1 .. n : Needs(t[i], t[j]) => FinishBetween(t, i, j)
      /\ \A i \in 1 .. n : IsTask(t[i]) => FinishBetween(t, i, n + 1)
      /\ \A i, j \in 1 .. n : IsAdded(t[i]) /\ t[i] = t[j] => i = j  BY DEF Orderly
<1>5. \A i \in 1 .. m, j \in 1 .. n : ~ Needs(t[j], s[i]) /\ ~ (IsAdded(s[i]) /\ s[i] = t[j])
  <2>1. \A i \in 1 .. m : s[i] \in In(s)  BY DEF In
  <2>2. \A j \in 1 .. n : t[j] \in In(t)  BY DEF In
  <2> HIDE DEF m, n
  <2> QED BY <2>1, <2>2 DEF MayFollow
<1> HIDE DEF m, n
<1>6. ASSUME NEW i \in Int, NEW j \in Int, FinishBetween(s, i, j), i >= 0 PROVE FinishBetween(R, i, j)
  <2>1. PICK k \in 1 .. m : i < k /\ k < j /\ s[k].do = "finish"  BY <1>6 DEF FinishBetween, m
  <2>2. k \in 1 .. m + n /\ R[k] = s[k]  BY <1>1, <1>2
  <2> QED BY <1>2, <2>1, <2>2 DEF FinishBetween
<1>7. ASSUME NEW i \in Int, NEW j \in Int, FinishBetween(t, i, j) PROVE FinishBetween(R, m + i, m + j)
  <2>1. PICK k \in 1 .. n : i < k /\ k < j /\ t[k].do = "finish"  BY <1>7 DEF FinishBetween, n
  <2>2. m + k \in 1 .. m + n /\ ~ (m + k <= m) /\ (m + k) - m = k /\ m + i < m + k /\ m + k < m + j  BY <1>1, <2>1
  <2>3. R[m + k] = t[k]  BY <1>2, <2>2
  <2> QED BY <1>2, <2>1, <2>2, <2>3 DEF FinishBetween
<1>8. ASSUME NEW i \in Int, NEW j \in Int, NEW h \in Int, FinishBetween(R, i, j), j <= h PROVE FinishBetween(R, i, h)
  <2>1. PICK k \in 1 .. m + n : i < k /\ k < j /\ R[k].do = "finish"  BY <1>2, <1>8 DEF FinishBetween
  <2>2. k < h  BY <1>1, <1>8, <2>1
  <2> QED BY <1>2, <2>1, <2>2 DEF FinishBetween
<1>9. \A i \in 1 .. m + n : \/ (i \in 1 .. m /\ R[i] = s[i])
                           \/ (i - m \in 1 .. n /\ R[i] = t[i - m] /\ m + (i - m) = i /\ ~ (i <= m))
  <2> SUFFICES ASSUME NEW i \in 1 .. m + n
               PROVE  \/ i \in 1 .. m /\ R[i] = s[i]
                      \/ i - m \in 1 .. n /\ R[i] = t[i - m] /\ m + (i - m) = i /\ ~ (i <= m)  OBVIOUS
  <2>1. CASE i <= m  BY <1>1, <1>2, <2>1
  <2>2. CASE ~ (i <= m)
    <3>1. i - m \in 1 .. n /\ m + (i - m) = i  BY <1>1, <2>2
    <3> QED BY <1>2, <2>2, <3>1
  <2> QED BY <2>1, <2>2
<1>10. ASSUME NEW i \in 1 .. m + n, NEW j \in 1 .. m + n, Needs(R[i], R[j]) PROVE FinishBetween(R, i, j)
  <2>0. i \in Int /\ j \in Int /\ i >= 0  BY <1>1
  <2>1. CASE i \in 1 .. m /\ R[i] = s[i] /\ j \in 1 .. m /\ R[j] = s[j]  BY <1>3, <1>6, <1>10, <2>0, <2>1
  <2>2. CASE i \in 1 .. m /\ R[i] = s[i] /\ j - m \in 1 .. n /\ ~ (j <= m)
    <3>1. IsTask(s[i])  BY <1>10, <2>2, OnlyTasksAreNeeded
    <3>2. FinishBetween(R, i, m + 1)  BY <1>1, <1>3, <1>6, <2>0, <2>2, <3>1
    <3>3. m + 1 <= j /\ m + 1 \in Int  BY <1>1, <2>0, <2>2
    <3> QED BY <1>8, <2>0, <3>2, <3>3
  <2>3. CASE i - m \in 1 .. n /\ R[i] = t[i - m] /\ j \in 1 .. m /\ R[j] = s[j]  BY <1>5, <1>10, <2>3
  <2>4. CASE i - m \in 1 .. n /\ R[i] = t[i - m] /\ m + (i - m) = i /\ j - m \in 1 .. n /\ R[j] = t[j - m] /\ m + (j - m) = j
    <3>1. FinishBetween(t, i - m, j - m)  BY <1>4, <1>10, <2>4
    <3>2. FinishBetween(R, m + (i - m), m + (j - m))  BY <1>1, <1>7, <2>0, <3>1
    <3> QED BY <2>4, <3>2
  <2> QED BY <1>9, <2>1, <2>2, <2>3, <2>4
<1>11. ASSUME NEW i \in 1 .. m + n, IsTask(R[i]) PROVE FinishBetween(R, i, m + n + 1)
  <2>0. i \in Int /\ i >= 0 /\ m + 1 \in Int /\ m + n + 1 \in Int /\ m + 1 <= m + n + 1 /\ n + 1 \in Int /\ m + (n + 1) = m + n + 1
    BY <1>1
  <2>1. CASE i \in 1 .. m /\ R[i] = s[i]
    <3>1. FinishBetween(R, i, m + 1)  BY <1>3, <1>6, <1>11, <2>0, <2>1
    <3> QED BY <1>8, <2>0, <3>1
  <2>2. CASE i - m \in 1 .. n /\ R[i] = t[i - m] /\ m + (i - m) = i
    <3>1. FinishBetween(t, i - m, n + 1)  BY <1>4, <1>11, <2>2
    <3>2. FinishBetween(R, m + (i - m), m + (n + 1))  BY <1>1, <1>7, <2>0, <3>1
    <3> QED BY <2>0, <2>2, <3>2
  <2> QED BY <1>9, <2>1, <2>2
<1>12. ASSUME NEW i \in 1 .. m + n, NEW j \in 1 .. m + n, IsAdded(R[i]), R[i] = R[j] PROVE i = j
  <2>1. CASE i \in 1 .. m /\ R[i] = s[i] /\ j \in 1 .. m /\ R[j] = s[j]  BY <1>3, <1>12, <2>1
  <2>2. CASE i \in 1 .. m /\ R[i] = s[i] /\ j - m \in 1 .. n /\ R[j] = t[j - m]  BY <1>5, <1>12, <2>2
  <2>3. CASE i - m \in 1 .. n /\ R[i] = t[i - m] /\ j \in 1 .. m /\ R[j] = s[j]  BY <1>5, <1>12, <2>3
  <2>4. CASE i - m \in 1 .. n /\ R[i] = t[i - m] /\ m + (i - m) = i /\ j - m \in 1 .. n /\ R[j] = t[j - m] /\ m + (j - m) = j
    <3>1. i - m = j - m  BY <1>4, <1>12, <2>4
    <3> QED BY <2>4, <3>1
  <2> QED BY <1>9, <2>1, <2>2, <2>3, <2>4
<1> QED BY <1>2, <1>10, <1>11, <1>12 DEF Orderly, R

\* And so for any number of batches.
LEMMA FlattenOrderly ==
  ASSUME NEW X, NEW seqs \in Seq(Seq(X)), Len(seqs) # 0,
         \A i \in 1 .. Len(seqs) : Orderly(seqs[i]),
         \A i, j \in 1 .. Len(seqs) : i < j => MayFollow(seqs[i], seqs[j])
  PROVE  Orderly(FlattenSeq(seqs))
<1> DEFINE n == Len(seqs)
<1>1. CanFlatten(seqs, X)  BY FlattenIsStepwise
<1>2. PICK fl : IsFlattening(fl, seqs, X)  BY <1>1 DEF CanFlatten
<1>3. /\ fl \in [1 .. n -> Seq(X)]
      /\ fl[1] = seqs[1]
      /\ \A i \in 1 .. n - 1 : fl[i + 1] = fl[i] \o seqs[i + 1]
      /\ FlattenSeq(seqs) = fl[n]  BY <1>2 DEF IsFlattening
<1>4. Len(seqs) \in Nat /\ seqs \in [1 .. Len(seqs) -> Seq(X)]  BY LenProperties
<1>5. n \in Nat /\ n - 1 \in Nat /\ n \in 1 .. n /\ 1 \in 1 .. n /\ seqs \in [1 .. n -> Seq(X)]  BY <1>4
<1>6. /\ \A i \in 1 .. n : Orderly(seqs[i])
      /\ \A i, j \in 1 .. n : i < j => MayFollow(seqs[i], seqs[j])  OBVIOUS
<1> HIDE DEF n
<1> DEFINE Known(k) == Orderly(fl[k]) /\ In(fl[k]) = UNION {In(seqs[i]) : i \in 1 .. k}
           P == {k \in 0 .. n - 1 : Known(k + 1)}
<1>7. 0 \in P
  <2>1. 0 \in 0 .. n - 1 /\ 0 + 1 = 1 /\ UNION {In(seqs[i]) : i \in 1 .. 1} = In(seqs[1])  BY <1>5
  <2>2. Known(1)  BY <1>3, <1>5, <1>6, <2>1
  <2> HIDE DEF Known
  <2> QED BY <2>1, <2>2
<1>8. ASSUME NEW k \in 0 .. n - 1 - 1, k \in P PROVE k + 1 \in P
  <2>1. k + 1 \in 1 .. n - 1 /\ k + 1 \in 0 .. n - 1 /\ k + 1 + 1 \in 1 .. n /\ k + 1 \in 1 .. n  BY <1>5
  <2>2. fl[k + 1 + 1] = fl[k + 1] \o seqs[k + 1 + 1] /\ fl[k + 1] \in Seq(X) /\ seqs[k + 1 + 1] \in Seq(X)
    BY <1>3, <1>5, <2>1
  <2>3. Orderly(fl[k + 1]) /\ In(fl[k + 1]) = UNION {In(seqs[i]) : i \in 1 .. k + 1}  BY <1>8
  <2>4. MayFollow(fl[k + 1], seqs[k + 1 + 1])
    <3> SUFFICES ASSUME NEW a \in In(fl[k + 1]), NEW b \in In(seqs[k + 1 + 1])
                 PROVE  ~ Needs(b, a) /\ ~ (IsAdded(a) /\ a = b)  BY DEF MayFollow
    <3>1. PICK i \in 1 .. k + 1 : a \in In(seqs[i])  BY <2>3
    <3>2. i \in 1 .. n /\ i < k + 1 + 1  BY <1>5, <2>1
    <3>3. MayFollow(seqs[i], seqs[k + 1 + 1])  BY <1>6, <2>1, <3>2
    <3> QED BY <3>1, <3>3 DEF MayFollow
  <2>5. Orderly(fl[k + 1 + 1])  BY <1>6, <2>1, <2>2, <2>3, <2>4, JoinOrderly
  <2>6. In(fl[k + 1 + 1]) = In(fl[k + 1]) \cup In(seqs[k + 1 + 1])  BY <2>2, InConcat
  <2>7. In(fl[k + 1 + 1]) = UNION {In(seqs[i]) : i \in 1 .. k + 1 + 1}
    <3>1. 1 .. k + 1 + 1 = (1 .. k + 1) \cup {k + 1 + 1}  BY <2>1
    <3> QED BY <2>3, <2>6, <3>1
  <2> QED BY <2>1, <2>5, <2>7
<1>9. n - 1 \in P
  <2> HIDE DEF P
  <2>1. \A k \in 0 .. n - 1 : k \in P  BY <1>5, <1>7, <1>8, StepByStep
  <2> QED BY <1>5, <2>1
<1>10. n - 1 + 1 = n  BY <1>5
<1> QED BY <1>3, <1>9, <1>10

----
\* The lookup tables of the imaging table.
FirstPlaces(keys) == {i \in DOMAIN keys : \A j \in 1 .. i - 1 : keys[j] # keys[i]}
KeyOf(keys, g) == keys[Firsts(keys)[g]]
PlacesOf(keys, g) == {i \in DOMAIN keys : keys[i] = KeyOf(keys, g)}
PlaceIn(keys, g) == Ascending(PlacesOf(keys, g))

IsGrouping(groups, table, keys, X) ==
  /\ groups \in Seq(Seq(X))
  /\ IsAscending(Firsts(keys), FirstPlaces(keys))
  /\ Len(groups) = Cardinality(FirstPlaces(keys))
  /\ \A g \in 1 .. Len(groups) :
       /\ Firsts(keys)[g] \in PlacesOf(keys, g)
       /\ groups[g] \in Seq(X)
       /\ IsAscending(PlaceIn(keys, g), PlacesOf(keys, g))
       /\ Len(groups[g]) = Cardinality(PlacesOf(keys, g))
       /\ \A k \in 1 .. Len(groups[g]) : groups[g][k] = table[PlaceIn(keys, g)[k]]
  /\ \A i \in 1 .. Len(table) : \E g \in 1 .. Len(groups) : i \in PlacesOf(keys, g)
  /\ \A g, h \in 1 .. Len(groups) : KeyOf(keys, g) = KeyOf(keys, h) => g = h

\* GroupsBy gives the groups in the order of their first entries, with the entries in their own order.
LEMMA GroupsByFacts ==
  ASSUME NEW X, NEW table \in Seq(X), NEW keys, DOMAIN keys = 1 .. Len(table)
  PROVE  IsGrouping(GroupsBy(table, keys), table, keys, X)
<1> DEFINE n == Len(table)
           F == FirstPlaces(keys)
           firsts == Firsts(keys)
           m == Cardinality(F)
           groups == GroupsBy(table, keys)
<1>1. n \in Nat /\ DOMAIN keys = 1 .. n  BY LenProperties
<1> HIDE DEF n
<1>2. IsFiniteSet(1 .. n) /\ F \in SUBSET (1 .. n) /\ 1 .. n \subseteq Nat
  <2>1. IsFiniteSet(1 .. n)  BY <1>1, FS_Interval
  <2>2. F \subseteq 1 .. n  BY <1>1 DEF FirstPlaces
  <2>3. 1 .. n \subseteq Nat  BY <1>1
  <2> QED BY <2>1, <2>2, <2>3
<1>3. IsFiniteSet(F) /\ F \in SUBSET Nat
  <2>1. F \in SUBSET Nat  BY <1>2
  <2> HIDE DEF F
  <2>2. IsFiniteSet(F)  BY <1>2, FS_Subset
  <2> QED BY <2>1, <2>2
<1>4. firsts = Ascending(F)  BY DEF Firsts, FirstPlaces
<1> HIDE DEF F, firsts
<1>5. IsAscending(firsts, F)  BY <1>3, <1>4, AscendingFacts
<1>6. m \in Nat /\ firsts \in [1 .. m -> F]  BY <1>5 DEF IsAscending
<1> HIDE DEF m
<1>7. groups = [g \in 1 .. m |-> AtPlaces(table, PlacesOf(keys, g))]
  <2>1. DOMAIN firsts = 1 .. m  BY <1>6
  <2>2. groups = [g \in DOMAIN firsts |-> AtPlaces(table, PlacesOf(keys, g))]
    BY DEF GroupsBy, PlacesOf, KeyOf, firsts
  <2> QED BY <2>1, <2>2
<1> HIDE DEF groups
<1>8. ASSUME NEW g \in 1 .. m
      PROVE  /\ groups[g] \in Seq(X)
             /\ IsAscending(PlaceIn(keys, g), PlacesOf(keys, g))
             /\ Len(groups[g]) = Cardinality(PlacesOf(keys, g))
             /\ \A k \in 1 .. Len(groups[g]) : groups[g][k] = table[PlaceIn(keys, g)[k]]
  <2> DEFINE I == PlacesOf(keys, g)
  <2>1. I \in SUBSET (1 .. Len(table))  BY <1>1 DEF PlacesOf, n
  <2>2. groups[g] = AtPlaces(table, I)  BY <1>7
  <2> HIDE DEF I
  <2>3. /\ IsAscending(Ascending(I), I)
        /\ AtPlaces(table, I) \in Seq(X)
        /\ Len(AtPlaces(table, I)) = Cardinality(I)
        /\ \A k \in 1 .. Cardinality(I) : AtPlaces(table, I)[k] = table[Ascending(I)[k]]  BY <2>1, AtPlacesFacts
  <2> QED BY <2>2, <2>3 DEF I, PlaceIn
<1>9. groups \in Seq(Seq(X)) /\ Len(groups) = m
  <2>1. groups \in [1 .. m -> Seq(X)]  BY <1>7, <1>8
  <2>2. DOMAIN groups = 1 .. m  BY <1>7
  <2> QED BY <1>6, <2>1, <2>2
<1>10. ASSUME NEW i \in 1 .. n PROVE \E g \in 1 .. m : i \in PlacesOf(keys, g)
  <2> DEFINE same == {j \in 1 .. n : keys[j] = keys[i]}
  <2>1. same \subseteq Nat /\ same # {}
    <3>1. i \in same  OBVIOUS
    <3>2. same \subseteq 1 .. n  OBVIOUS
    <3> HIDE DEF same
    <3> QED BY <1>2, <3>1, <3>2
  <2>2. PICK j \in same : \A h \in same : j <= h
    <3> HIDE DEF same
    <3> QED BY <2>1, LeastElement
  <2>3. j \in F
    <3>1. j \in 1 .. n /\ keys[j] = keys[i] /\ \A h \in 1 .. n : keys[h] = keys[i] => j <= h  BY <2>2
    <3>2. ASSUME NEW h \in 1 .. j - 1 PROVE keys[h] # keys[j]
      <4>1. h \in 1 .. n /\ ~ (j <= h)  BY <1>1, <3>1
      <4> QED BY <3>1, <4>1
    <3> QED BY <1>1, <3>1, <3>2 DEF F, FirstPlaces
  <2>4. PICK g \in 1 .. m : firsts[g] = j  BY <1>5, <2>3 DEF IsAscending, m
  <2> QED BY <1>1, <2>2, <2>4 DEF PlacesOf, KeyOf, firsts
<1>11. ASSUME NEW g \in 1 .. m, NEW h \in 1 .. m, KeyOf(keys, g) = KeyOf(keys, h) PROVE g = h
  <2>1. firsts[g] \in F /\ firsts[h] \in F /\ keys[firsts[g]] = keys[firsts[h]]  BY <1>6, <1>11 DEF KeyOf, firsts
  <2>2. firsts[g] \in 1 .. n /\ firsts[h] \in 1 .. n  BY <1>2, <2>1
  <2>3. ~ (firsts[g] < firsts[h])
    <3> SUFFICES ASSUME firsts[g] < firsts[h] PROVE FALSE  OBVIOUS
    <3>1. firsts[g] \in 1 .. firsts[h] - 1  BY <1>1, <2>2
    <3> QED BY <2>1, <3>1 DEF F, FirstPlaces
  <2>4. ~ (firsts[h] < firsts[g])
    <3> SUFFICES ASSUME firsts[h] < firsts[g] PROVE FALSE  OBVIOUS
    <3>1. firsts[h] \in 1 .. firsts[g] - 1  BY <1>1, <2>2
    <3> QED BY <2>1, <3>1 DEF F, FirstPlaces
  <2>5. firsts[g] = firsts[h]
    <3>1. firsts[g] \in Int /\ firsts[h] \in Int  BY <1>1, <2>2
    <3> QED BY <2>3, <2>4, <3>1
  <2> QED BY <1>5, <2>5 DEF IsAscending, m
<1>12. ASSUME NEW g \in 1 .. m PROVE firsts[g] \in PlacesOf(keys, g)  BY <1>1, <1>2, <1>6 DEF PlacesOf, KeyOf, firsts
<1> QED BY <1>5, <1>8, <1>9, <1>10, <1>11, <1>12 DEF IsGrouping, groups, firsts, F, m, n

\* Every entry is in one group, and a group keeps the order of the table.
Partitions(groups, table, keys, X) ==
  /\ groups \in Seq(Seq(X))
  /\ \A g \in 1 .. Len(groups) : groups[g] \in Seq(X) /\ Len(groups[g]) # 0
  /\ \A g \in 1 .. Len(groups) : \A k \in 1 .. Len(groups[g]) : groups[g][k] \in In(table)
  /\ \A i \in 1 .. Len(table) : \E g \in 1 .. Len(groups) : \E k \in 1 .. Len(groups[g]) : groups[g][k] = table[i]
  /\ \A i, j \in 1 .. Len(table) :
       i < j /\ keys[i] = keys[j] =>
         \E g \in 1 .. Len(groups) : \E k, l \in 1 .. Len(groups[g]) :
           k < l /\ groups[g][k] = table[i] /\ groups[g][l] = table[j]
  /\ \A g, h \in 1 .. Len(groups) : \A k \in 1 .. Len(groups[g]), l \in 1 .. Len(groups[h]) :
       groups[g][k] = groups[h][l] => g = h /\ k = l
  /\ Len(groups) = 1 => \A i, j \in 1 .. Len(table) : keys[i] = keys[j]

\* When no entry is in the table twice every entry is in one group, once.
LEMMA GroupsPartition ==
  ASSUME NEW X, NEW table \in Seq(X), NEW keys, DOMAIN keys = 1 .. Len(table),
         \A i, j \in 1 .. Len(table) : table[i] = table[j] => i = j
  PROVE  Partitions(GroupsBy(table, keys), table, keys, X)
<1> DEFINE groups == GroupsBy(table, keys)
           Spot(g) == PlaceIn(keys, g)
           n == Len(table)
<1>1. IsGrouping(groups, table, keys, X)  BY GroupsByFacts
<1>0. n \in Nat /\ DOMAIN keys = 1 .. n  BY LenProperties
<1> HIDE DEF groups, n
<1>2. /\ groups \in Seq(Seq(X))
      /\ \A g \in 1 .. Len(groups) :
           /\ Firsts(keys)[g] \in PlacesOf(keys, g)
           /\ groups[g] \in Seq(X)
           /\ IsAscending(Spot(g), PlacesOf(keys, g))
           /\ Len(groups[g]) = Cardinality(PlacesOf(keys, g))
           /\ \A k \in 1 .. Len(groups[g]) : groups[g][k] = table[Spot(g)[k]]
      /\ \A i \in 1 .. n : \E g \in 1 .. Len(groups) : i \in PlacesOf(keys, g)
      /\ \A g, h \in 1 .. Len(groups) : KeyOf(keys, g) = KeyOf(keys, h) => g = h  BY <1>1 DEF IsGrouping, n
<1> HIDE DEF Spot
<1>3. ASSUME NEW g \in 1 .. Len(groups)
      PROVE  /\ Len(groups[g]) \in Nat
             /\ Spot(g) \in [1 .. Len(groups[g]) -> PlacesOf(keys, g)]
             /\ \A k, l \in 1 .. Len(groups[g]) : k < l => Spot(g)[k] < Spot(g)[l]
             /\ \A k, l \in 1 .. Len(groups[g]) : Spot(g)[k] = Spot(g)[l] => k = l
             /\ \A x \in PlacesOf(keys, g) : \E k \in 1 .. Len(groups[g]) : Spot(g)[k] = x
  <2>1. IsAscending(Spot(g), PlacesOf(keys, g)) /\ Len(groups[g]) = Cardinality(PlacesOf(keys, g))  BY <1>2
  <2> QED BY <2>1 DEF IsAscending
<1>4. \A g : PlacesOf(keys, g) \subseteq 1 .. n /\ \A i \in PlacesOf(keys, g) : keys[i] = KeyOf(keys, g)
  BY <1>0 DEF PlacesOf
<1>5. ASSUME NEW g \in 1 .. Len(groups) PROVE groups[g] \in Seq(X) /\ Len(groups[g]) # 0
  <2>1. PICK k \in 1 .. Len(groups[g]) : Spot(g)[k] = Firsts(keys)[g]  BY <1>2, <1>3
  <2>2. Len(groups[g]) # 0  BY <1>3, <2>1
  <2> QED BY <1>2, <2>2
<1>6. ASSUME NEW g \in 1 .. Len(groups), NEW k \in 1 .. Len(groups[g]) PROVE groups[g][k] \in In(table)
  <2>1. Spot(g)[k] \in 1 .. n /\ groups[g][k] = table[Spot(g)[k]]
    <3>1. Spot(g)[k] \in PlacesOf(keys, g)  BY <1>3
    <3>2. Spot(g)[k] \in 1 .. n  BY <1>4, <3>1
    <3> QED BY <1>2, <3>2
  <2> QED BY <2>1 DEF In, n
<1>7. ASSUME NEW i \in 1 .. n PROVE \E g \in 1 .. Len(groups) : \E k \in 1 .. Len(groups[g]) : Spot(g)[k] = i /\ groups[g][k] = table[i]
  <2>1. PICK g \in 1 .. Len(groups) : i \in PlacesOf(keys, g)  BY <1>2
  <2>2. PICK k \in 1 .. Len(groups[g]) : Spot(g)[k] = i  BY <1>3, <2>1
  <2>3. groups[g][k] = table[i]  BY <1>2, <2>2
  <2> QED BY <2>2, <2>3
<1>8. ASSUME NEW i \in 1 .. n, NEW j \in 1 .. n, i < j, keys[i] = keys[j]
      PROVE  \E g \in 1 .. Len(groups) : \E k, l \in 1 .. Len(groups[g]) :
               k < l /\ groups[g][k] = table[i] /\ groups[g][l] = table[j]
  <2>1. PICK g \in 1 .. Len(groups) : i \in PlacesOf(keys, g)  BY <1>2
  <2>2. j \in PlacesOf(keys, g)  BY <1>0, <1>8, <2>1 DEF PlacesOf
  <2>3. PICK k \in 1 .. Len(groups[g]) : Spot(g)[k] = i  BY <1>3, <2>1
  <2>4. PICK l \in 1 .. Len(groups[g]) : Spot(g)[l] = j  BY <1>3, <2>2
  <2>5. k < l
    <3>0. Len(groups[g]) \in Nat  BY <1>3
    <3>1. ~ (l < k)
      <4> SUFFICES ASSUME l < k PROVE FALSE  OBVIOUS
      <4>1. Spot(g)[l] < Spot(g)[k]  BY <1>3
      <4>2. j < i /\ i \in Int /\ j \in Int  BY <1>0, <2>3, <2>4, <4>1
      <4> QED BY <1>8, <4>2
    <3>2. l # k
      <4>1. i # j  BY <1>0, <1>8
      <4> QED BY <2>3, <2>4, <4>1
    <3> QED BY <3>0, <3>1, <3>2
  <2>6. groups[g][k] = table[i] /\ groups[g][l] = table[j]  BY <1>2, <2>3, <2>4
  <2> QED BY <2>5, <2>6
<1>9. ASSUME NEW g \in 1 .. Len(groups), NEW h \in 1 .. Len(groups), NEW k \in 1 .. Len(groups[g]),
             NEW l \in 1 .. Len(groups[h]), groups[g][k] = groups[h][l]
      PROVE  g = h /\ k = l
  <2>1. table[Spot(g)[k]] = table[Spot(h)[l]]  BY <1>2, <1>9
  <2>2. Spot(g)[k] \in PlacesOf(keys, g) /\ Spot(h)[l] \in PlacesOf(keys, h)  BY <1>3
  <2>3. Spot(g)[k] = Spot(h)[l]  BY <1>4, <2>1, <2>2 DEF n
  <2>4. g = h  BY <1>2, <1>4, <2>2, <2>3
  <2> QED BY <1>3, <2>3, <2>4
<1>10. ASSUME Len(groups) = 1, NEW i \in 1 .. n, NEW j \in 1 .. n PROVE keys[i] = keys[j]
  <2>1. i \in PlacesOf(keys, 1) /\ j \in PlacesOf(keys, 1)  BY <1>2, <1>10
  <2> QED BY <1>4, <2>1
<1> QED BY <1>2, <1>5, <1>6, <1>7, <1>8, <1>9, <1>10 DEF Partitions, groups, n

\* Division with remainder.
LEMMA Remainders ==
  ASSUME NEW a \in Nat, NEW n \in Nat \ {0}
  PROVE  a % n \in 0 .. n - 1 /\ a = n * (a \div n) + (a % n)  OBVIOUS

\* The quotient and the remainder are determined by the number.
LEMMA DivisionIsUnique ==
  ASSUME NEW n \in Nat \ {0}, NEW q \in Nat, NEW r \in 0 .. n - 1
  PROVE  (n * q + r) \div n = q /\ (n * q + r) % n = r
<1> DEFINE a == n * q + r
           k == a \div n
<1>1. n * q \in Nat /\ a \in Nat /\ a = n * q + r  OBVIOUS
<1> HIDE DEF a
<1>2. k \in Nat /\ n * k <= a /\ a < n * k + n  BY <1>1, Quotients
<1>3. a % n \in 0 .. n - 1 /\ a = n * k + (a % n)  BY <1>1, Remainders
<1> HIDE DEF k
<1>4. n * k \in Nat /\ n * (k + 1) = n * k + n /\ n * (q + 1) = n * q + n  BY <1>2
<1>5. ~ (k < q)
  <2> SUFFICES ASSUME k < q PROVE FALSE  OBVIOUS
  <2>1. k + 1 \in Nat /\ k + 1 <= q  BY <1>2
  <2>2. n * (k + 1) <= n * q  BY <2>1, ProductsInOrder
  <2> QED BY <1>1, <1>2, <1>4, <2>2
<1>6. ~ (q < k)
  <2> SUFFICES ASSUME q < k PROVE FALSE  OBVIOUS
  <2>1. q + 1 \in Nat /\ q + 1 <= k  BY <1>2
  <2>2. n * (q + 1) <= n * k  BY <1>2, <2>1, ProductsInOrder
  <2> QED BY <1>1, <1>2, <1>4, <2>2
<1>7. k = q  BY <1>2, <1>5, <1>6
<1>8. a % n = r  BY <1>1, <1>3, <1>7
<1> QED BY <1>7, <1>8 DEF k, a

----
\* The entries of the table.
Good(s) == s \in SettingsSet /\ ValidSettings(s)
Pols(s) == Len(s.polarizations)
Size(s) == Pols(s) * s.channelsOut
ChannelAt(s, i) == ((i - 1) \div Pols(s)) + 1
PolAt(s, i) == ((i - 1) % Pols(s)) + 1
EntryAt(s, i) == MakeImagingTable(s)[i]
TableEntries(s) == {EntryAt(s, i) : i \in 1 .. Size(s)}

\* The numbers that order the polarizations: YX is right after XY.
LEMMA PolarizationNumbers ==
  /\ PolarizationEnum["XY"] = 9 /\ PolarizationEnum["YX"] = 10
  /\ \A p \in DOMAIN PolarizationEnum : PolarizationEnum[p] \in Nat  BY DEF PolarizationEnum

\* What every accepted setting has: polarizations once each, YX right after XY.
LEMMA GoodFacts ==
  ASSUME NEW s, Good(s)
  PROVE  /\ Pols(s) \in Nat \ {0} /\ s.channelsOut \in Nat \ {0}
         /\ s.polarizations \in [1 .. Pols(s) -> DOMAIN PolarizationEnum]
         /\ \A p, q \in 1 .. Pols(s) : s.polarizations[p] = s.polarizations[q] => p = q
         /\ \A p, q \in 1 .. Pols(s) : s.polarizations[p] = "XY" /\ s.polarizations[q] = "YX" => q = p + 1
         /\ s.mode \in {"image", "predict"}
         /\ s.mode = "predict" => ~ s.joinChannels /\ ~ s.joinPolarizations
         /\ (HasCross(s) /\ s.clean) => s.joinPolarizations
         /\ (\E p \in 1 .. Pols(s) : s.polarizations[p] = "XY") <=> (\E p \in 1 .. Pols(s) : s.polarizations[p] = "YX")
         /\ HasCross(s) <=> (\E p \in 1 .. Pols(s) : s.polarizations[p] = "XY")
         /\ Has(s, "XY") <=> (\E p \in 1 .. Pols(s) : s.polarizations[p] = "XY")
         /\ s.joinChannels => s.channelsOut > 1
<1> DEFINE ps == s.polarizations
           D == DOMAIN PolarizationEnum
           E == PolarizationEnum
<1>1. s.mode \in {"image", "predict"} /\ s.channelsOut \in Nat /\ ps \in Seq(D) /\ ps # << >>
  BY SettingsAssumption DEF Good
<1>2. \A p, q \in DOMAIN ps : p < q => E[ps[p]] < E[ps[q]]  BY SettingsAssumption DEF Good
<1>3. E["XY"] = 9 /\ E["YX"] = 10 /\ \A p \in D : E[p] \in Nat  BY PolarizationNumbers
<1> HIDE DEF D, E
<1>4. Len(ps) \in Nat /\ ps \in [1 .. Len(ps) -> D] /\ DOMAIN ps = 1 .. Len(ps)  BY <1>1, LenProperties
<1>5. Len(ps) # 0  BY <1>1, EmptySeq
<1>6. Pols(s) = Len(ps)  BY DEF Pols
<1>7. ValidSettings(s)  BY DEF Good
<1> HIDE DEF ps
<1>8. \A p, q \in 1 .. Len(ps) : p < q => E[ps[p]] < E[ps[q]] /\ E[ps[p]] \in Nat /\ E[ps[q]] \in Nat
  BY <1>2, <1>3, <1>4
<1>9. ASSUME NEW p \in 1 .. Len(ps), NEW q \in 1 .. Len(ps), ps[p] = ps[q] PROVE p = q
  <2>1. ~ (p < q)  BY <1>8, <1>9
  <2>2. ~ (q < p)  BY <1>8, <1>9
  <2> QED BY <1>4, <2>1, <2>2
<1>10. ASSUME NEW p \in 1 .. Len(ps), NEW q \in 1 .. Len(ps), ps[p] = "XY", ps[q] = "YX" PROVE q = p + 1
  <2>0. p \in Int /\ q \in Int  BY <1>4
  <2>1. ~ (q < p)  BY <1>3, <1>8, <1>10
  <2>2. p # q  BY <1>10
  <2>3. ~ (p + 1 < q)
    <3> SUFFICES ASSUME p + 1 < q PROVE FALSE  OBVIOUS
    <3>1. p + 1 \in 1 .. Len(ps) /\ p < p + 1  BY <1>4, <2>0
    <3>2. E[ps[p]] < E[ps[p + 1]] /\ E[ps[p + 1]] < E[ps[q]] /\ E[ps[p + 1]] \in Nat  BY <1>8, <3>1
    <3> QED BY <1>3, <1>10, <3>2
  <2> QED BY <2>0, <2>1, <2>2, <2>3
<1>11. /\ s.channelsOut > 0
       /\ s.joinChannels => s.channelsOut > 1
       /\ HasCross(s) /\ s.clean => s.joinPolarizations
       /\ Has(s, "XY") <=> Has(s, "YX")
       /\ s.mode = "predict" => ~ s.joinChannels /\ ~ s.joinPolarizations  BY <1>7 DEF ValidSettings
<1>12. \A pol : Has(s, pol) <=> \E p \in 1 .. Len(ps) : ps[p] = pol  BY DEF Has, Contains, ps
<1>13. HasCross(s) <=> Has(s, "XY") \/ Has(s, "YX")  BY DEF HasCross
<1> QED BY <1>1, <1>4, <1>5, <1>6, <1>9, <1>10, <1>11, <1>12, <1>13 DEF ps, D

\* A place in the table has one channel and one polarization,
LEMMA PlaceOfEntry ==
  ASSUME NEW s, Good(s), NEW i \in 1 .. Size(s)
  PROVE  /\ ChannelAt(s, i) \in 1 .. s.channelsOut
         /\ PolAt(s, i) \in 1 .. Pols(s)
         /\ i = Pols(s) * (ChannelAt(s, i) - 1) + PolAt(s, i)
<1> DEFINE n == Pols(s)
           C == s.channelsOut
           q == (i - 1) \div n
           r == (i - 1) % n
<1>1. n \in Nat \ {0} /\ C \in Nat \ {0}  BY GoodFacts
<1>2. n * C \in Nat /\ i \in 1 .. n * C  BY <1>1 DEF Size
<1>3. i - 1 \in Nat /\ i - 1 < n * C /\ i \in Nat  BY <1>2
<1> HIDE DEF n, C
<1>4. q \in Nat /\ n * q <= i - 1  BY <1>1, <1>3, Quotients
<1>5. r \in 0 .. n - 1 /\ i - 1 = n * q + r  BY <1>1, <1>3, Remainders
<1> HIDE DEF q, r
<1>6. q < C
  <2> SUFFICES ASSUME C <= q PROVE FALSE  BY <1>1, <1>4
  <2>1. n * C <= n * q /\ n * q \in Nat  BY <1>1, <1>4, ProductsInOrder
  <2> QED BY <1>2, <1>3, <1>4, <2>1
<1>7. q + 1 \in 1 .. C /\ r + 1 \in 1 .. n /\ (q + 1) - 1 = q  BY <1>1, <1>4, <1>5, <1>6
<1>8. n * q \in Nat  BY <1>1, <1>4
<1>9. i = n * q + (r + 1)  BY <1>3, <1>5, <1>8
<1>10. ChannelAt(s, i) = q + 1 /\ PolAt(s, i) = r + 1  BY DEF ChannelAt, PolAt, q, r, n
<1> QED BY <1>7, <1>9, <1>10 DEF n, C

\* and a channel and a polarization have one place.
LEMMA EntryOfPlace ==
  ASSUME NEW s, Good(s), NEW c \in 1 .. s.channelsOut, NEW p \in 1 .. Pols(s)
  PROVE  /\ Pols(s) * (c - 1) + p \in 1 .. Size(s)
         /\ ChannelAt(s, Pols(s) * (c - 1) + p) = c
         /\ PolAt(s, Pols(s) * (c - 1) + p) = p
<1> DEFINE n == Pols(s)
           C == s.channelsOut
           i == n * (c - 1) + p
           q == c - 1
           r == p - 1
<1>1. n \in Nat \ {0} /\ C \in Nat \ {0}  BY GoodFacts
<1>2. q \in Nat /\ q + 1 <= C /\ r \in 0 .. n - 1 /\ p = r + 1 /\ c = q + 1  BY <1>1
<1> HIDE DEF q, r, n, C
<1>3. n * q \in Nat /\ n * (q + 1) = n * q + n /\ n * C \in Nat  BY <1>1, <1>2
<1>4. n * (q + 1) <= n * C  BY <1>1, <1>2, ProductsInOrder
<1>5. i = n * q + r + 1  BY <1>2, <1>3 DEF q
<1> HIDE DEF i
<1>6. i \in 1 .. n * C /\ i - 1 = n * q + r  BY <1>1, <1>2, <1>3, <1>4, <1>5
<1>7. (n * q + r) \div n = q /\ (n * q + r) % n = r  BY <1>1, <1>2, DivisionIsUnique
<1>8. ((i - 1) \div n) + 1 = c /\ ((i - 1) % n) + 1 = p  BY <1>2, <1>6, <1>7
<1> QED BY <1>6, <1>8 DEF i, n, C, Size, ChannelAt, PolAt

\* The table, entry by entry.
LEMMA TableFacts ==
  ASSUME NEW s, Good(s)
  PROVE  /\ MakeImagingTable(s) \in Seq(TableEntries(s))
         /\ Size(s) \in Nat \ {0}
         /\ Len(MakeImagingTable(s)) = Size(s)
         /\ \A i \in 1 .. Size(s) :
              EntryAt(s, i) =
                [polarization |-> s.polarizations[PolAt(s, i)], outputChannelIndex |-> ChannelAt(s, i),
                 joinedGroupIndex |-> JoinedGroupIndex(s, ChannelAt(s, i), PolAt(s, i)),
                 squaredDeconvolutionIndex |-> SquaredGroupIndex(s, ChannelAt(s, i), PolAt(s, i)),
                 imageCount |-> ImageCount(s.polarizations[PolAt(s, i)])]
<1> DEFINE n == Size(s)
           T == MakeImagingTable(s)
<1>1. Pols(s) \in Nat \ {0} /\ s.channelsOut \in Nat \ {0}  BY GoodFacts
<1>2. n \in Nat \ {0}  BY <1>1 DEF Size
<1>3. T = [i \in 1 .. n |->
             [polarization |-> s.polarizations[PolAt(s, i)], outputChannelIndex |-> ChannelAt(s, i),
              joinedGroupIndex |-> JoinedGroupIndex(s, ChannelAt(s, i), PolAt(s, i)),
              squaredDeconvolutionIndex |-> SquaredGroupIndex(s, ChannelAt(s, i), PolAt(s, i)),
              imageCount |-> ImageCount(s.polarizations[PolAt(s, i)])]]
  BY DEF MakeImagingTable, Size, Pols, PolAt, ChannelAt
<1> HIDE DEF T, n
<1>4. DOMAIN T = 1 .. n /\ \A i \in 1 .. n : T[i] = EntryAt(s, i) /\ T[i] \in TableEntries(s)
  <2>1. DOMAIN T = 1 .. n  BY <1>3
  <2>2. \A i \in 1 .. n : T[i] = EntryAt(s, i)  BY DEF T, EntryAt
  <2> QED BY <2>1, <2>2 DEF TableEntries, n
<1>5. T \in [1 .. n -> TableEntries(s)]  BY <1>3, <1>4
<1>6. T \in Seq(TableEntries(s)) /\ Len(T) = n  BY <1>2, <1>4, <1>5
<1> QED BY <1>2, <1>3, <1>4, <1>6 DEF T, n

\* The keys by which the lookup tables divide the table.
JoinedKeys(s) == [i \in 1 .. Size(s) |-> EntryAt(s, i).joinedGroupIndex]
SquaredKeys(s) == [i \in 1 .. Size(s) |-> EntryAt(s, i).squaredDeconvolutionIndex]

\* A channel and a polarization have one entry.
LEMMA EntriesAreDistinct ==
  ASSUME NEW s, Good(s), NEW i \in 1 .. Size(s), NEW j \in 1 .. Size(s),
         EntryAt(s, i).polarization = EntryAt(s, j).polarization,
         EntryAt(s, i).outputChannelIndex = EntryAt(s, j).outputChannelIndex
  PROVE  i = j
<1>1. PolAt(s, i) \in 1 .. Pols(s) /\ PolAt(s, j) \in 1 .. Pols(s)  BY PlaceOfEntry
<1>2. s.polarizations[PolAt(s, i)] = s.polarizations[PolAt(s, j)] /\ ChannelAt(s, i) = ChannelAt(s, j)  BY TableFacts
<1>3. PolAt(s, i) = PolAt(s, j)  BY <1>1, <1>2, GoodFacts
<1> QED BY <1>2, <1>3, PlaceOfEntry

\* What the numbers of the groups distinguish.
LEMMA KeysOfEntries ==
  ASSUME NEW s, Good(s), NEW i \in 1 .. Size(s)
  PROVE  /\ JoinedKeys(s)[i] =
              CASE s.joinPolarizations /\ s.joinChannels -> 0
                [] s.joinPolarizations /\ ~ s.joinChannels -> ChannelAt(s, i) - 1
                [] ~ s.joinPolarizations /\ s.joinChannels -> PolAt(s, i) - 1
                [] OTHER -> i - 1
         /\ SquaredKeys(s)[i] = IF s.joinPolarizations THEN ChannelAt(s, i) - 1 ELSE i - 1
<1> DEFINE c == ChannelAt(s, i)
           p == PolAt(s, i)
           n == Pols(s)
<1>1. n \in Nat \ {0} /\ c \in Nat \ {0} /\ p \in Nat \ {0} /\ i = n * (c - 1) + p /\ i \in Nat
  <2>1. Pols(s) \in Nat \ {0} /\ s.channelsOut \in Nat \ {0} /\ Size(s) \in Nat  BY GoodFacts, TableFacts
  <2>2. c \in 1 .. s.channelsOut /\ p \in 1 .. n /\ i = n * (c - 1) + p  BY PlaceOfEntry
  <2> HIDE DEF c, p, n
  <2>3. c \in Nat \ {0} /\ p \in Nat \ {0} /\ i \in Nat  BY <2>1, <2>2 DEF n
  <2> QED BY <2>1, <2>2, <2>3 DEF n
<1>2. JoinedKeys(s)[i] = JoinedGroupIndex(s, c, p) /\ SquaredKeys(s)[i] = SquaredGroupIndex(s, c, p)
  BY TableFacts DEF JoinedKeys, SquaredKeys
<1> HIDE DEF c, p, n
<1>3. (c - 1) * n = n * (c - 1) /\ n * (c - 1) \in Nat  BY <1>1
<1>4. (c - 1) * n + p - 1 = i - 1  BY <1>1, <1>3
<1>5. (1 - 1) * n + p - 1 = p - 1  BY <1>1
<1>6. SquaredGroupIndex(s, c, p) = IF s.joinPolarizations THEN c - 1 ELSE (c - 1) * n + p - 1
  BY DEF SquaredGroupIndex, n, Pols
<1>7. SquaredGroupIndex(s, 1, p) = IF s.joinPolarizations THEN 1 - 1 ELSE (1 - 1) * n + p - 1
  BY DEF SquaredGroupIndex, n, Pols
<1>8. JoinedGroupIndex(s, c, p) = IF s.joinChannels THEN SquaredGroupIndex(s, 1, p) ELSE SquaredGroupIndex(s, c, p)
  BY DEF JoinedGroupIndex
<1>9. SquaredKeys(s)[i] = IF s.joinPolarizations THEN c - 1 ELSE i - 1  BY <1>2, <1>4, <1>6
<1>10. JoinedKeys(s)[i] = IF s.joinChannels THEN (IF s.joinPolarizations THEN 0 ELSE p - 1)
                          ELSE (IF s.joinPolarizations THEN c - 1 ELSE i - 1)  BY <1>2, <1>4, <1>5, <1>6, <1>7, <1>8
<1> QED BY <1>9, <1>10 DEF c, p

\* The lookup tables of the imaging table group it by these keys.
LEMMA LookupsAreByKey ==
  ASSUME NEW s, Good(s)
  PROVE  /\ IndependentGroups(MakeImagingTable(s)) = GroupsBy(MakeImagingTable(s), JoinedKeys(s))
         /\ SquaredGroups(MakeImagingTable(s)) = GroupsBy(MakeImagingTable(s), SquaredKeys(s))
<1> DEFINE T == MakeImagingTable(s)
<1>1. T \in Seq(TableEntries(s)) /\ Len(T) = Size(s)  BY TableFacts
<1>2. DOMAIN T = 1 .. Size(s)
  <2> HIDE DEF T
  <2> QED BY <1>1, LenProperties
<1>3. [i \in DOMAIN T |-> T[i].joinedGroupIndex] = JoinedKeys(s)  BY <1>2 DEF JoinedKeys, EntryAt
<1>4. [i \in DOMAIN T |-> T[i].squaredDeconvolutionIndex] = SquaredKeys(s)  BY <1>2 DEF SquaredKeys, EntryAt
<1> QED BY <1>3, <1>4 DEF IndependentGroups, SquaredGroups

\* What the work on a group relies on.
IsEntryGroup(E, s) ==
  /\ E \in Seq(TableEntries(s)) /\ Len(E) # 0
  /\ \A i, j \in 1 .. Len(E) : E[i] = E[j] => i = j
  /\ \A i, j \in 1 .. Len(E) :
       /\ E[i].polarization = "XY" /\ E[j].polarization = "YX"
       /\ E[i].outputChannelIndex = E[j].outputChannelIndex
       => i < j /\ E[i].squaredDeconvolutionIndex = E[j].squaredDeconvolutionIndex
  /\ s.joinPolarizations =>
       /\ E[1].polarization = s.polarizations[1]
       /\ \A i \in 1 .. Len(E), p \in 1 .. Pols(s) : \E j \in 1 .. Len(E) :
            E[j].polarization = s.polarizations[p] /\ E[j].outputChannelIndex = E[i].outputChannelIndex
  /\ ~ s.joinPolarizations => \A i, j \in 1 .. Len(E) : E[i].polarization = E[j].polarization
  /\ \A i, j \in 1 .. Len(E) :
       E[i].squaredDeconvolutionIndex = E[j].squaredDeconvolutionIndex
       => E[i].outputChannelIndex = E[j].outputChannelIndex

\* Every independent group is such a group of entries.
LEMMA IndependentGroupFacts ==
  ASSUME NEW s, Good(s), NEW g \in 1 .. Len(IndependentGroups(MakeImagingTable(s)))
  PROVE  IsEntryGroup(IndependentGroups(MakeImagingTable(s))[g], s)
<1> DEFINE T == MakeImagingTable(s)
           keys == JoinedKeys(s)
           groups == GroupsBy(T, keys)
           X == TableEntries(s)
           I == PlacesOf(keys, g)
           P == PlaceIn(keys, g)
           E == groups[g]
           m == Len(E)
           n == Pols(s)
<1>1. T \in Seq(X) /\ Len(T) = Size(s) /\ Size(s) \in Nat \ {0}  BY TableFacts
<1>2. DOMAIN keys = 1 .. Size(s)  BY DEF JoinedKeys
<1>3. groups = IndependentGroups(T)  BY LookupsAreByKey
<1>4. \A i \in 1 .. Size(s) : T[i] = EntryAt(s, i)  BY DEF EntryAt
<1>5. \A i \in 1 .. Size(s) : ChannelAt(s, i) \in 1 .. s.channelsOut /\ PolAt(s, i) \in 1 .. n /\ i = n * (ChannelAt(s, i) - 1) + PolAt(s, i)
  BY PlaceOfEntry
<1>6. \A i \in 1 .. Size(s) : keys[i] =
              CASE s.joinPolarizations /\ s.joinChannels -> 0
                [] s.joinPolarizations /\ ~ s.joinChannels -> ChannelAt(s, i) - 1
                [] ~ s.joinPolarizations /\ s.joinChannels -> PolAt(s, i) - 1
                [] OTHER -> i - 1  BY KeysOfEntries
<1>7. \A i \in 1 .. Size(s) : /\ EntryAt(s, i).polarization = s.polarizations[PolAt(s, i)]
                              /\ EntryAt(s, i).outputChannelIndex = ChannelAt(s, i)
                              /\ EntryAt(s, i).squaredDeconvolutionIndex = IF s.joinPolarizations THEN ChannelAt(s, i) - 1 ELSE i - 1
  <2> SUFFICES ASSUME NEW i \in 1 .. Size(s)
               PROVE  /\ EntryAt(s, i).polarization = s.polarizations[PolAt(s, i)]
                      /\ EntryAt(s, i).outputChannelIndex = ChannelAt(s, i)
                      /\ EntryAt(s, i).squaredDeconvolutionIndex = IF s.joinPolarizations THEN ChannelAt(s, i) - 1 ELSE i - 1
    OBVIOUS
  <2>1. SquaredKeys(s)[i] = IF s.joinPolarizations THEN ChannelAt(s, i) - 1 ELSE i - 1  BY KeysOfEntries
  <2>2. SquaredKeys(s)[i] = EntryAt(s, i).squaredDeconvolutionIndex  BY DEF SquaredKeys
  <2>3. EntryAt(s, i).polarization = s.polarizations[PolAt(s, i)] /\ EntryAt(s, i).outputChannelIndex = ChannelAt(s, i)
    BY TableFacts
  <2> QED BY <2>1, <2>2, <2>3
<1>8. n \in Nat \ {0} /\ s.channelsOut \in Nat \ {0}
      /\ \A p, q \in 1 .. n : s.polarizations[p] = "XY" /\ s.polarizations[q] = "YX" => q = p + 1  BY GoodFacts
<1> HIDE DEF T, keys, n
<1>9. IsGrouping(groups, T, keys, X)  BY <1>1, <1>2, GroupsByFacts
<1>10. g \in 1 .. Len(groups)  BY <1>3 DEF T
<1> HIDE DEF groups
<1>11. /\ Firsts(keys)[g] \in I
       /\ E \in Seq(X)
       /\ IsAscending(P, I)
       /\ m = Cardinality(I)
       /\ \A k \in 1 .. m : E[k] = T[P[k]]  BY <1>9, <1>10 DEF IsGrouping
<1>12. I \subseteq 1 .. Size(s) /\ \A i \in 1 .. Size(s), j \in I : keys[i] = keys[j] => i \in I  BY <1>2 DEF PlacesOf
<1>13. \A i, j \in I : keys[i] = keys[j]  BY DEF PlacesOf
<1> HIDE DEF P, I, E, X
<1>14. /\ m \in Nat /\ P \in [1 .. m -> I]
       /\ \A k, l \in 1 .. m : k < l => P[k] < P[l]
       /\ \A k, l \in 1 .. m : P[k] = P[l] => k = l
       /\ \A x \in I : \E k \in 1 .. m : P[k] = x  BY <1>11 DEF IsAscending
<1> HIDE DEF m
<1>15. m # 0
  <2>1. PICK k \in 1 .. m : P[k] = Firsts(keys)[g]  BY <1>11, <1>14
  <2> QED BY <1>14
<1>16. \A k \in 1 .. m : /\ P[k] \in I /\ P[k] \in 1 .. Size(s) /\ E[k] = EntryAt(s, P[k])
                         /\ E[k].polarization = s.polarizations[PolAt(s, P[k])]
                         /\ E[k].outputChannelIndex = ChannelAt(s, P[k])
                         /\ E[k].squaredDeconvolutionIndex = IF s.joinPolarizations THEN ChannelAt(s, P[k]) - 1 ELSE P[k] - 1
  <2> SUFFICES ASSUME NEW k \in 1 .. m
               PROVE  /\ P[k] \in I /\ P[k] \in 1 .. Size(s) /\ E[k] = EntryAt(s, P[k])
                      /\ E[k].polarization = s.polarizations[PolAt(s, P[k])]
                      /\ E[k].outputChannelIndex = ChannelAt(s, P[k])
                      /\ E[k].squaredDeconvolutionIndex = IF s.joinPolarizations THEN ChannelAt(s, P[k]) - 1 ELSE P[k] - 1
    OBVIOUS
  <2>1. P[k] \in I  BY <1>14
  <2>2. P[k] \in 1 .. Size(s)  BY <1>12, <2>1
  <2>3. E[k] = EntryAt(s, P[k])  BY <1>4, <1>11, <2>2
  <2> QED BY <1>7, <2>1, <2>2, <2>3
<1>17. ASSUME NEW i \in 1 .. m, NEW j \in 1 .. m, E[i] = E[j] PROVE i = j
  <2>1. EntryAt(s, P[i]) = EntryAt(s, P[j])  BY <1>16, <1>17
  <2>2. P[i] = P[j]  BY <1>16, <2>1, EntriesAreDistinct
  <2> QED BY <1>14, <2>2
<1>18. ASSUME ~ s.joinPolarizations, NEW i \in 1 .. m, NEW j \in 1 .. m PROVE PolAt(s, P[i]) = PolAt(s, P[j])
  <2>1. keys[P[i]] = keys[P[j]]  BY <1>13, <1>16
  <2>2. PolAt(s, P[i]) \in Int /\ PolAt(s, P[j]) \in Int /\ P[i] \in Int /\ P[j] \in Int  BY <1>1, <1>5, <1>8, <1>16
  <2>3. CASE s.joinChannels  BY <1>6, <1>16, <1>18, <2>1, <2>2, <2>3
  <2>4. CASE ~ s.joinChannels
    <3>1. P[i] - 1 = P[j] - 1  BY <1>6, <1>16, <1>18, <2>1, <2>4
    <3> QED BY <2>2, <3>1
  <2> QED BY <2>3, <2>4
<1>19. ASSUME NEW i \in 1 .. m, NEW j \in 1 .. m, E[i].polarization = "XY", E[j].polarization = "YX",
              E[i].outputChannelIndex = E[j].outputChannelIndex
       PROVE  i < j /\ E[i].squaredDeconvolutionIndex = E[j].squaredDeconvolutionIndex
  <2>1. PolAt(s, P[j]) = PolAt(s, P[i]) + 1 /\ ChannelAt(s, P[i]) = ChannelAt(s, P[j])  BY <1>5, <1>8, <1>16, <1>19
  <2>2. P[i] \in Int /\ P[j] \in Int /\ PolAt(s, P[i]) \in Int /\ ChannelAt(s, P[i]) \in Int
    BY <1>1, <1>5, <1>8, <1>16
  <2>3. P[i] = n * (ChannelAt(s, P[i]) - 1) + PolAt(s, P[i]) /\ P[j] = n * (ChannelAt(s, P[i]) - 1) + (PolAt(s, P[i]) + 1)
    BY <1>5, <1>16, <2>1
  <2>4. n * (ChannelAt(s, P[i]) - 1) \in Int  BY <1>8, <2>2
  <2>5. P[i] < P[j]  BY <2>2, <2>3, <2>4
  <2>6. ~ (j <= i)
    <3> SUFFICES ASSUME j <= i PROVE FALSE  OBVIOUS
    <3>1. CASE j < i
      <4>1. P[j] < P[i]  BY <1>14, <3>1
      <4> QED BY <2>2, <2>5, <4>1
    <3>2. CASE j = i  BY <2>2, <2>5, <3>2
    <3> QED BY <1>14, <3>1, <3>2
  <2>7. s.joinPolarizations
    <3> SUFFICES ASSUME ~ s.joinPolarizations PROVE FALSE  OBVIOUS
    <3>1. PolAt(s, P[i]) = PolAt(s, P[j])  BY <1>18
    <3> QED BY <2>1, <2>2, <3>1
  <2> QED BY <1>14, <1>16, <2>1, <2>6, <2>7
<1>20. ASSUME s.joinPolarizations, NEW i \in 1 .. m, NEW p \in 1 .. n
       PROVE  \E j \in 1 .. m : P[j] = n * (ChannelAt(s, P[i]) - 1) + p /\ PolAt(s, P[j]) = p /\ ChannelAt(s, P[j]) = ChannelAt(s, P[i])
  <2> DEFINE c == ChannelAt(s, P[i])
             a == n * (c - 1) + p
  <2>1. c \in 1 .. s.channelsOut  BY <1>5, <1>16
  <2>2. a \in 1 .. Size(s) /\ ChannelAt(s, a) = c /\ PolAt(s, a) = p  BY <2>1, EntryOfPlace DEF n
  <2> HIDE DEF a
  <2>3. keys[a] = keys[P[i]]  BY <1>6, <1>16, <1>20, <2>2
  <2>4. a \in I  BY <1>12, <1>16, <2>2, <2>3
  <2>5. PICK j \in 1 .. m : P[j] = a  BY <1>14, <2>4
  <2> QED BY <2>2, <2>5 DEF a
<1>21. ASSUME s.joinPolarizations PROVE E[1].polarization = s.polarizations[1]
  <2>1. 1 \in 1 .. m /\ 1 \in 1 .. n  BY <1>8, <1>14, <1>15
  <2>2. PICK j \in 1 .. m : P[j] = n * (ChannelAt(s, P[1]) - 1) + 1 /\ PolAt(s, P[j]) = 1 /\ ChannelAt(s, P[j]) = ChannelAt(s, P[1])
    BY <1>20, <1>21, <2>1
  <2> DEFINE a == n * (ChannelAt(s, P[1]) - 1)
  <2>3. P[1] = a + PolAt(s, P[1]) /\ PolAt(s, P[1]) \in 1 .. n  BY <1>5, <1>16, <2>1
  <2>4. ChannelAt(s, P[1]) \in 1 .. s.channelsOut  BY <1>5, <1>16, <2>1
  <2>5. a \in Int /\ P[j] = a + 1  BY <1>8, <2>2, <2>4
  <2> HIDE DEF a
  <2>6. P[j] <= P[1]  BY <1>8, <2>3, <2>5
  <2>7. ~ (1 < j)
    <3> SUFFICES ASSUME 1 < j PROVE FALSE  OBVIOUS
    <3>1. P[1] < P[j]  BY <1>14, <2>1
    <3>2. P[1] \in Int /\ P[j] \in Int  BY <1>1, <1>16, <2>1
    <3> QED BY <2>6, <3>1, <3>2
  <2>8. j = 1  BY <1>14, <2>7
  <2> QED BY <1>16, <2>1, <2>2, <2>8
<1>22. ASSUME s.joinPolarizations, NEW i \in 1 .. m, NEW p \in 1 .. n
       PROVE  \E j \in 1 .. m : E[j].polarization = s.polarizations[p] /\ E[j].outputChannelIndex = E[i].outputChannelIndex
  <2>1. PICK j \in 1 .. m : PolAt(s, P[j]) = p /\ ChannelAt(s, P[j]) = ChannelAt(s, P[i])  BY <1>20, <1>22
  <2> QED BY <1>16, <2>1
<1>23. ASSUME ~ s.joinPolarizations, NEW i \in 1 .. m, NEW j \in 1 .. m PROVE E[i].polarization = E[j].polarization
  BY <1>16, <1>18, <1>23
<1>24. ASSUME NEW i \in 1 .. m, NEW j \in 1 .. m, E[i].squaredDeconvolutionIndex = E[j].squaredDeconvolutionIndex
       PROVE  E[i].outputChannelIndex = E[j].outputChannelIndex
  <2>1. ChannelAt(s, P[i]) \in Int /\ ChannelAt(s, P[j]) \in Int /\ P[i] \in Int /\ P[j] \in Int
    BY <1>1, <1>5, <1>8, <1>16
  <2>2. CASE s.joinPolarizations
    <3>1. ChannelAt(s, P[i]) - 1 = ChannelAt(s, P[j]) - 1  BY <1>16, <1>24, <2>2
    <3> QED BY <1>16, <2>1, <3>1
  <2>3. CASE ~ s.joinPolarizations
    <3>1. P[i] - 1 = P[j] - 1  BY <1>16, <1>24, <2>3
    <3>2. P[i] = P[j]  BY <2>1, <3>1
    <3> QED BY <1>16, <3>2
  <2> QED BY <2>2, <2>3
<1>25. IsEntryGroup(E, s)  BY <1>11, <1>15, <1>17, <1>19, <1>21, <1>22, <1>23, <1>24 DEF IsEntryGroup, m, n, X
<1> QED BY <1>3, <1>25 DEF E, T

\* The squared groups divide any table, also that of an independent group.
LEMMA SquaredGroupsPartition ==
  ASSUME NEW X, NEW E \in Seq(X), \A i, j \in 1 .. Len(E) : E[i] = E[j] => i = j
  PROVE  Partitions(SquaredGroups(E), E, [i \in 1 .. Len(E) |-> E[i].squaredDeconvolutionIndex], X)
<1> DEFINE keys == [i \in 1 .. Len(E) |-> E[i].squaredDeconvolutionIndex]
<1>1. DOMAIN E = 1 .. Len(E)  BY LenProperties
<1>2. SquaredGroups(E) = GroupsBy(E, keys)  BY <1>1 DEF SquaredGroups
<1>3. DOMAIN keys = 1 .. Len(E)  OBVIOUS
<1> HIDE DEF keys
<1>4. Partitions(GroupsBy(E, keys), E, keys, X)  BY <1>3, GroupsPartition
<1> QED BY <1>2, <1>4 DEF keys

\* A table in which every entry has a number of its own.
LEMMA GroupsOfOne ==
  ASSUME NEW X, NEW table \in Seq(X), NEW keys, DOMAIN keys = 1 .. Len(table),
         \A i, j \in 1 .. Len(table) : keys[i] = keys[j] => i = j
  PROVE  /\ Len(GroupsBy(table, keys)) = Len(table)
         /\ \A g \in 1 .. Len(table) : GroupsBy(table, keys)[g] = <<table[g]>>
<1> DEFINE n == Len(table)
           groups == GroupsBy(table, keys)
<1>1. n \in Nat /\ table \in [1 .. n -> X]  BY LenProperties
<1>2. IsGrouping(groups, table, keys, X)  BY GroupsByFacts
<1>3. DOMAIN keys = 1 .. n /\ \A i, j \in 1 .. n : keys[i] = keys[j] => i = j  OBVIOUS
<1> HIDE DEF n, groups
<1>4. FirstPlaces(keys) = 1 .. n
  <2> SUFFICES ASSUME NEW i \in 1 .. n, NEW j \in 1 .. i - 1 PROVE keys[j] # keys[i]  BY <1>3 DEF FirstPlaces
  <2>1. j \in 1 .. n /\ j # i  BY <1>1
  <2> QED BY <1>3, <2>1
<1>5. Firsts(keys) = [k \in 1 .. n |-> k]
  <2>1. Firsts(keys) = Ascending(FirstPlaces(keys))  BY DEF Firsts, FirstPlaces
  <2> QED BY <1>1, <1>4, <2>1, AscendingUpTo
<1>6. Cardinality(1 .. n) = n  BY <1>1, FS_Interval
<1>7. /\ groups \in Seq(Seq(X))
      /\ Len(groups) = n
      /\ \A g \in 1 .. n :
           /\ groups[g] \in Seq(X)
           /\ IsAscending(PlaceIn(keys, g), PlacesOf(keys, g))
           /\ Len(groups[g]) = Cardinality(PlacesOf(keys, g))
           /\ \A k \in 1 .. Len(groups[g]) : groups[g][k] = table[PlaceIn(keys, g)[k]]
  BY <1>2, <1>4, <1>6 DEF IsGrouping
<1>8. ASSUME NEW g \in 1 .. n PROVE groups[g] = <<table[g]>>
  <2>1. KeyOf(keys, g) = keys[g]  BY <1>5 DEF KeyOf
  <2>2. PlacesOf(keys, g) = {g}  BY <1>3, <2>1 DEF PlacesOf
  <2>3. Cardinality({g}) = 1  BY FS_Singleton
  <2>4. IsAscending(PlaceIn(keys, g), {g})  BY <1>7, <2>2
  <2>5. PlaceIn(keys, g)[1] = g
    <3>1. PlaceIn(keys, g) \in [1 .. Cardinality({g}) -> {g}]  BY <2>4 DEF IsAscending
    <3>2. PlaceIn(keys, g) \in [1 .. 1 -> {g}]  BY <2>3, <3>1
    <3> QED BY <3>2
  <2>6. Len(groups[g]) = 1  BY <1>7, <2>2, <2>3
  <2>7. groups[g][1] = table[g]
    <3>1. 1 \in 1 .. Len(groups[g])  BY <2>6
    <3> QED BY <1>7, <2>5, <3>1
  <2>8. table[g] \in X  BY <1>1
  <2>9. <<table[g]>> \in Seq(X) /\ Len(<<table[g]>>) = 1 /\ <<table[g]>>[1] = table[g]  BY <2>8
  <2>10. \A i \in 1 .. Len(groups[g]) : groups[g][i] = <<table[g]>>[i]
    <3>1. \A i \in 1 .. 1 : i = 1  OBVIOUS
    <3> QED BY <2>6, <2>7, <2>9, <3>1
  <2> QED BY <1>7, <2>6, <2>9, <2>10, SeqEqual
<1> QED BY <1>7, <1>8 DEF groups, n

AreConsecutive(groups, s) ==
  /\ Len(groups) \in Nat \ {0}
  /\ \A g \in 1 .. Len(groups) : IsEntryGroup(groups[g], s)
  /\ groups[1][1].polarization = s.polarizations[1]
  /\ \A g \in 1 .. Len(groups) - 1 :
       groups[g + 1][1].polarization # s.polarizations[1] =>
         \A k \in 1 .. Len(groups[g + 1]) : \E l \in 1 .. Len(groups[g]) :
           groups[g][l].outputChannelIndex = groups[g + 1][k].outputChannelIndex

\* With every channel on its own, so are its groups.
LEMMA ChannelsOfConsecutiveGroups ==
  ASSUME NEW s, Good(s)
  PROVE  AreConsecutive(IndependentGroups(MakeImagingTable(s)), s)
<1> DEFINE T == MakeImagingTable(s)
           keys == JoinedKeys(s)
           groups == IndependentGroups(T)
           X == TableEntries(s)
           n == Pols(s)
           N == Size(s)
<1>1. T \in Seq(X) /\ Len(T) = N /\ N \in Nat \ {0}  BY TableFacts
<1>2. groups = GroupsBy(T, keys)  BY LookupsAreByKey
<1>3. DOMAIN keys = 1 .. N  BY DEF JoinedKeys
<1>4. \A i \in 1 .. N : /\ T[i] = EntryAt(s, i)
                        /\ EntryAt(s, i).polarization = s.polarizations[PolAt(s, i)]
                        /\ EntryAt(s, i).outputChannelIndex = ChannelAt(s, i)
  <2>1. \A i \in 1 .. N : T[i] = EntryAt(s, i)  BY DEF EntryAt
  <2>2. \A i \in 1 .. N : EntryAt(s, i).polarization = s.polarizations[PolAt(s, i)] /\ EntryAt(s, i).outputChannelIndex = ChannelAt(s, i)
    BY TableFacts
  <2> QED BY <2>1, <2>2
<1>5. \A i \in 1 .. N : ChannelAt(s, i) \in 1 .. s.channelsOut /\ PolAt(s, i) \in 1 .. n /\ i = n * (ChannelAt(s, i) - 1) + PolAt(s, i)
  BY PlaceOfEntry
<1>6. \A i \in 1 .. N : keys[i] =
              CASE s.joinPolarizations /\ s.joinChannels -> 0
                [] s.joinPolarizations /\ ~ s.joinChannels -> ChannelAt(s, i) - 1
                [] ~ s.joinPolarizations /\ s.joinChannels -> PolAt(s, i) - 1
                [] OTHER -> i - 1  BY KeysOfEntries
<1>7. n \in Nat \ {0} /\ s.channelsOut \in Nat \ {0}  BY GoodFacts
<1>8. \A g \in 1 .. Len(groups) : IsEntryGroup(groups[g], s)  BY IndependentGroupFacts
<1>9. \A c \in 1 .. s.channelsOut, p \in 1 .. n : n * (c - 1) + p \in 1 .. N /\ ChannelAt(s, n * (c - 1) + p) = c /\ PolAt(s, n * (c - 1) + p) = p
  BY EntryOfPlace
<1> HIDE DEF T, keys, n, N
<1>10. IsGrouping(groups, T, keys, X)  BY <1>1, <1>2, <1>3, GroupsByFacts
<1> HIDE DEF groups, X
<1>11. /\ groups \in Seq(Seq(X))
       /\ IsAscending(Firsts(keys), FirstPlaces(keys))
       /\ Len(groups) = Cardinality(FirstPlaces(keys))
       /\ \A g \in 1 .. Len(groups) :
            /\ Firsts(keys)[g] \in PlacesOf(keys, g)
            /\ IsAscending(PlaceIn(keys, g), PlacesOf(keys, g))
            /\ Len(groups[g]) = Cardinality(PlacesOf(keys, g))
            /\ \A k \in 1 .. Len(groups[g]) : groups[g][k] = T[PlaceIn(keys, g)[k]]
       /\ \A i \in 1 .. N : \E g \in 1 .. Len(groups) : i \in PlacesOf(keys, g)  BY <1>1, <1>10 DEF IsGrouping
<1>12. \A g \in 1 .. Len(groups) : \A i \in PlacesOf(keys, g) : \E k \in 1 .. Len(groups[g]) : groups[g][k] = T[i]
  <2> SUFFICES ASSUME NEW g \in 1 .. Len(groups), NEW i \in PlacesOf(keys, g)
               PROVE  \E k \in 1 .. Len(groups[g]) : groups[g][k] = T[i]  OBVIOUS
  <2>1. IsAscending(PlaceIn(keys, g), PlacesOf(keys, g)) /\ Len(groups[g]) = Cardinality(PlacesOf(keys, g))  BY <1>11
  <2>2. PICK k \in 1 .. Len(groups[g]) : PlaceIn(keys, g)[k] = i  BY <2>1 DEF IsAscending
  <2> QED BY <1>11, <2>2
<1>13. Len(groups) \in Nat \ {0}
  <2>1. Len(groups) \in Nat  BY <1>11 DEF IsAscending
  <2>2. PICK g \in 1 .. Len(groups) : 1 \in PlacesOf(keys, g)  BY <1>1, <1>11
  <2> QED BY <2>1, <2>2
<1>14. Firsts(keys)[1] = 1
  <2> DEFINE f == Firsts(keys)
             F == FirstPlaces(keys)
             m == Len(groups)
  <2>1. /\ f \in [1 .. m -> F] /\ m \in Nat /\ m # 0
        /\ \A i, j \in 1 .. m : i < j => f[i] < f[j]
        /\ \A x \in F : \E i \in 1 .. m : f[i] = x  BY <1>11, <1>13 DEF IsAscending
  <2>2. 1 \in F /\ F \subseteq 1 .. N
    <3>1. 1 .. 1 - 1 = {}  OBVIOUS
    <3>2. 1 \in 1 .. N  BY <1>1
    <3> QED BY <1>3, <3>1, <3>2 DEF FirstPlaces
  <2> HIDE DEF f, F, m
  <2>3. PICK k \in 1 .. m : f[k] = 1  BY <2>1, <2>2
  <2>4. 1 \in 1 .. m /\ f[1] \in 1 .. N
    <3>1. 1 \in 1 .. m  BY <2>1
    <3>2. f[1] \in F  BY <2>1, <3>1
    <3> QED BY <2>2, <3>1, <3>2
  <2>5. ~ (1 < k)
    <3> SUFFICES ASSUME 1 < k PROVE FALSE  OBVIOUS
    <3>1. f[1] < 1  BY <2>1, <2>3, <2>4
    <3> QED BY <1>1, <2>4, <3>1
  <2>6. k = 1  BY <2>1, <2>5
  <2> QED BY <2>3, <2>6 DEF f
<1>15. groups[1][1].polarization = s.polarizations[1]
  <2>1. 1 \in 1 .. Len(groups)  BY <1>13
  <2>2. IsEntryGroup(groups[1], s)  BY <1>8, <2>1
  <2>3. CASE s.joinPolarizations  BY <2>2, <2>3 DEF IsEntryGroup
  <2>4. CASE ~ s.joinPolarizations
    <3>1. 1 \in PlacesOf(keys, 1)  BY <1>11, <1>14, <2>1
    <3>2. PICK k \in 1 .. Len(groups[1]) : groups[1][k] = T[1]  BY <1>12, <2>1, <3>1
    <3>3. 1 \in 1 .. N /\ 1 \in 1 .. n /\ 1 \in 1 .. s.channelsOut  BY <1>1, <1>7
    <3>4. PolAt(s, 1) = 1
      <4>1. n * (1 - 1) + 1 = 1  BY <1>7
      <4>2. PolAt(s, n * (1 - 1) + 1) = 1  BY <1>9, <3>3
      <4> QED BY <4>1, <4>2
    <3>5. groups[1][k].polarization = s.polarizations[1]  BY <1>4, <3>2, <3>3, <3>4
    <3>6. 1 \in 1 .. Len(groups[1])
      <4>1. Len(groups[1]) \in Nat  BY <1>11, <2>1 DEF IsAscending
      <4> QED BY <3>2, <4>1
    <3> QED BY <2>2, <2>4, <3>2, <3>5, <3>6 DEF IsEntryGroup
  <2> QED BY <2>3, <2>4
<1>16. ASSUME NEW g \in 1 .. Len(groups) - 1, groups[g + 1][1].polarization # s.polarizations[1],
              NEW k \in 1 .. Len(groups[g + 1])
       PROVE  \E l \in 1 .. Len(groups[g]) : groups[g][l].outputChannelIndex = groups[g + 1][k].outputChannelIndex
  <2> DEFINE h == g + 1
             i == PlaceIn(keys, h)[k]
             c == ChannelAt(s, i)
  <2>1. g \in 1 .. Len(groups) /\ h \in 1 .. Len(groups)  BY <1>13
  <2> HIDE DEF h
  <2>2. IsAscending(PlaceIn(keys, h), PlacesOf(keys, h)) /\ Len(groups[h]) = Cardinality(PlacesOf(keys, h)) /\ k \in 1 .. Len(groups[h])
    BY <1>11, <2>1 DEF h
  <2>3. i \in PlacesOf(keys, h) /\ groups[h][k] = T[i] /\ Len(groups[h]) \in Nat  BY <1>11, <2>1, <2>2 DEF IsAscending
  <2>4. i \in 1 .. N  BY <1>3, <2>3 DEF PlacesOf
  <2> HIDE DEF i
  <2>5. groups[h][k].outputChannelIndex = c /\ groups[h][k].polarization = s.polarizations[PolAt(s, i)]
    BY <1>4, <2>3, <2>4
  <2>6. c \in 1 .. s.channelsOut /\ PolAt(s, i) \in 1 .. n /\ i = n * (c - 1) + PolAt(s, i)  BY <1>5, <2>4
  <2> HIDE DEF c
  <2>7. IsEntryGroup(groups[h], s) /\ 1 \in 1 .. Len(groups[h]) /\ groups[h][1].polarization # s.polarizations[1]
    <3>1. IsEntryGroup(groups[h], s)  BY <1>8, <2>1
    <3>2. 1 \in 1 .. Len(groups[h])  BY <2>2, <2>3
    <3> QED BY <1>16, <3>1, <3>2 DEF h
  <2>8. ~ s.joinPolarizations  BY <2>7 DEF IsEntryGroup
  <2>9. PolAt(s, i) # 1
    <3>1. groups[h][k].polarization # s.polarizations[1]  BY <2>2, <2>7, <2>8 DEF IsEntryGroup
    <3> QED BY <2>5, <3>1
  <2>10. ASSUME NEW j \in 1 .. N, j \in PlacesOf(keys, g), ChannelAt(s, j) = c
         PROVE  \E l \in 1 .. Len(groups[g]) : groups[g][l].outputChannelIndex = c
    <3>1. PICK l \in 1 .. Len(groups[g]) : groups[g][l] = T[j]  BY <1>12, <2>1, <2>10
    <3>2. T[j].outputChannelIndex = c  BY <1>4, <2>10
    <3> QED BY <3>1, <3>2
  <2>11. CASE s.joinChannels
    <3> DEFINE a == Firsts(keys)[g]
               j == n * (c - 1) + PolAt(s, a)
    <3>1. a \in PlacesOf(keys, g)  BY <1>11, <2>1
    <3>2. a \in 1 .. N  BY <1>3, <3>1 DEF PlacesOf
    <3> HIDE DEF a
    <3>3. PolAt(s, a) \in 1 .. n  BY <1>5, <3>2
    <3>4. j \in 1 .. N /\ ChannelAt(s, j) = c /\ PolAt(s, j) = PolAt(s, a)  BY <1>9, <2>6, <3>3
    <3> HIDE DEF j
    <3>5. keys[j] = keys[a]  BY <1>6, <2>8, <2>11, <3>2, <3>4
    <3>6. j \in PlacesOf(keys, g)  BY <1>3, <3>1, <3>4, <3>5 DEF PlacesOf
    <3> QED BY <2>5, <2>10, <3>4, <3>6 DEF h
  <2>12. CASE ~ s.joinChannels
    <3>1. \A a, b \in 1 .. N : keys[a] = keys[b] => a = b
      <4> SUFFICES ASSUME NEW a \in 1 .. N, NEW b \in 1 .. N, keys[a] = keys[b] PROVE a = b  OBVIOUS
      <4>1. keys[a] = a - 1  BY <1>6, <2>8, <2>12
      <4>2. keys[b] = b - 1  BY <1>6, <2>8, <2>12
      <4>3. a - 1 = b - 1  BY <4>1, <4>2
      <4>4. N \in Int  BY <1>1
      <4>5. a \in Int /\ b \in Int  BY <4>4
      <4> QED BY <4>3, <4>5
    <3>2. Len(groups) = N /\ \A a \in 1 .. N : groups[a] = <<T[a]>>  BY <1>1, <1>2, <1>3, <3>1, GroupsOfOne
    <3>3. groups[h] = <<T[h]>> /\ groups[g] = <<T[g]>> /\ h \in 1 .. N /\ g \in 1 .. N  BY <2>1, <3>2
    <3>4. k = 1 /\ groups[h][1] = T[h]
      <4>1. Len(groups[h]) = 1  BY <3>3
      <4>2. k = 1  BY <2>2, <4>1
      <4> QED BY <3>3, <4>2
    <3>5. i = h
      <4>1. T[i] = T[h]  BY <2>3, <3>4
      <4>2. EntryAt(s, i) = EntryAt(s, h)  BY <1>4, <2>4, <3>3, <4>1
      <4> QED BY <2>4, <3>3, <4>2, EntriesAreDistinct DEF N
    <3>6. g = n * (c - 1) + (PolAt(s, i) - 1) /\ PolAt(s, i) - 1 \in 1 .. n
      <4>1. h = g + 1 /\ g \in Int  BY <1>1, <3>3 DEF h
      <4>2. PolAt(s, i) \in Int /\ PolAt(s, i) - 1 \in 1 .. n  BY <1>7, <2>6, <2>9
      <4>3. n * (c - 1) \in Int  BY <1>7, <2>6
      <4>4. g + 1 = n * (c - 1) + PolAt(s, i)  BY <2>6, <3>5, <4>1
      <4> QED BY <4>1, <4>2, <4>3, <4>4
    <3>7. ChannelAt(s, g) = c  BY <1>9, <2>6, <3>6
    <3>8. T[g].outputChannelIndex = c  BY <1>4, <3>3, <3>7
    <3>9. Len(groups[g]) = 1 /\ groups[g][1] = T[g]  BY <3>3
    <3>10. 1 \in 1 .. Len(groups[g])  BY <3>9
    <3> QED BY <2>5, <3>8, <3>9, <3>10 DEF h
  <2> QED BY <2>11, <2>12
<1>17. AreConsecutive(groups, s)  BY <1>8, <1>13, <1>15, <1>16 DEF AreConsecutive
<1> QED BY <1>17 DEF groups, T

\* In prediction every entry is a group, and that of YX follows that of XY.
ArePredicted(groups, s) ==
  /\ Len(groups) = Size(s)
  /\ \A g \in 1 .. Size(s) : groups[g] = <<EntryAt(s, g)>>
  /\ \A g \in 1 .. Size(s) :
       EntryAt(s, g).polarization = "YX" =>
         /\ g - 1 \in 1 .. Size(s)
         /\ EntryAt(s, g - 1).polarization = "XY"
         /\ EntryAt(s, g - 1).outputChannelIndex = EntryAt(s, g).outputChannelIndex

\* A prediction has a group for every entry.
LEMMA PredictedGroups ==
  ASSUME NEW s, Good(s), s.mode = "predict"
  PROVE  ArePredicted(SquaredGroups(MakeImagingTable(s)), s)
<1> DEFINE T == MakeImagingTable(s)
           keys == SquaredKeys(s)
           groups == SquaredGroups(T)
           X == TableEntries(s)
           n == Pols(s)
           N == Size(s)
<1>1. T \in Seq(X) /\ Len(T) = N /\ N \in Nat \ {0}  BY TableFacts
<1>2. groups = GroupsBy(T, keys)  BY LookupsAreByKey
<1>3. DOMAIN keys = 1 .. N  BY DEF SquaredKeys
<1>4. \A i \in 1 .. N : /\ T[i] = EntryAt(s, i)
                        /\ EntryAt(s, i).polarization = s.polarizations[PolAt(s, i)]
                        /\ EntryAt(s, i).outputChannelIndex = ChannelAt(s, i)
  <2>1. \A i \in 1 .. N : T[i] = EntryAt(s, i)  BY DEF EntryAt
  <2>2. \A i \in 1 .. N : EntryAt(s, i).polarization = s.polarizations[PolAt(s, i)] /\ EntryAt(s, i).outputChannelIndex = ChannelAt(s, i)
    BY TableFacts
  <2> QED BY <2>1, <2>2
<1>5. \A i \in 1 .. N : ChannelAt(s, i) \in 1 .. s.channelsOut /\ PolAt(s, i) \in 1 .. n /\ i = n * (ChannelAt(s, i) - 1) + PolAt(s, i)
  BY PlaceOfEntry
<1>6. ~ s.joinPolarizations  BY GoodFacts
<1>7. \A i \in 1 .. N : keys[i] = i - 1  BY <1>6, KeysOfEntries
<1>8. /\ n \in Nat \ {0} /\ s.channelsOut \in Nat \ {0}
      /\ \A p, q \in 1 .. n : s.polarizations[p] = "XY" /\ s.polarizations[q] = "YX" => q = p + 1
      /\ (\E p \in 1 .. n : s.polarizations[p] = "YX") => (\E p \in 1 .. n : s.polarizations[p] = "XY")  BY GoodFacts
<1>9. \A c \in 1 .. s.channelsOut, p \in 1 .. n : n * (c - 1) + p \in 1 .. N /\ ChannelAt(s, n * (c - 1) + p) = c /\ PolAt(s, n * (c - 1) + p) = p
  BY EntryOfPlace
<1> HIDE DEF T, keys, n, N
<1>10. \A a, b \in 1 .. N : keys[a] = keys[b] => a = b
  <2> SUFFICES ASSUME NEW a \in 1 .. N, NEW b \in 1 .. N, keys[a] = keys[b] PROVE a = b  OBVIOUS
  <2>1. a - 1 = b - 1 /\ a \in Int /\ b \in Int  BY <1>1, <1>7
  <2> QED BY <2>1
<1>11. Len(groups) = N /\ \A a \in 1 .. N : groups[a] = <<T[a]>>  BY <1>1, <1>2, <1>3, <1>10, GroupsOfOne
<1> HIDE DEF groups
<1>12. \A g \in 1 .. N : groups[g] = <<EntryAt(s, g)>>  BY <1>4, <1>11
<1>13. ASSUME NEW g \in 1 .. N, EntryAt(s, g).polarization = "YX"
       PROVE  /\ g - 1 \in 1 .. N
              /\ EntryAt(s, g - 1).polarization = "XY"
              /\ EntryAt(s, g - 1).outputChannelIndex = EntryAt(s, g).outputChannelIndex
  <2> DEFINE c == ChannelAt(s, g)
             q == PolAt(s, g)
  <2>1. c \in 1 .. s.channelsOut /\ q \in 1 .. n /\ g = n * (c - 1) + q /\ s.polarizations[q] = "YX" /\ EntryAt(s, g).outputChannelIndex = c
    BY <1>4, <1>5, <1>13
  <2> HIDE DEF c, q
  <2>2. PICK p \in 1 .. n : s.polarizations[p] = "XY"  BY <1>8, <2>1
  <2>3. q = p + 1  BY <1>8, <2>1, <2>2
  <2>4. n * (c - 1) + p = g - 1
    <3>1. n * (c - 1) \in Int /\ p \in Int  BY <1>8, <2>1
    <3> QED BY <2>1, <2>3, <3>1
  <2>5. g - 1 \in 1 .. N /\ ChannelAt(s, g - 1) = c /\ PolAt(s, g - 1) = p  BY <1>9, <2>1, <2>4
  <2> QED BY <1>4, <2>1, <2>2, <2>5
<1>14. ArePredicted(groups, s)  BY <1>11, <1>12, <1>13 DEF ArePredicted, N
<1> QED BY <1>14 DEF groups, T

----
\* The calls of a group.
Calls(X) ==
  [do : {"psf", "invert", "image", "predict", "save", "readModel"}, entry : X]
  \cup {[do |-> "finish"], [do |-> "deconvolve"]}

Of(kind, S) == {[do |-> kind, entry |-> e] : e \in S}
Finish == [do |-> "finish"]

\* Each makes the call for every entry, in the order of the entries.
LEMMA EachFacts ==
  ASSUME NEW X, NEW es \in Seq(X), NEW kind \in {"psf", "invert", "image", "predict", "save", "readModel"}
  PROVE  /\ Each(kind, es) \in Seq(Calls(X))
         /\ Len(Each(kind, es)) = Len(es)
         /\ \A i \in 1 .. Len(es) : Each(kind, es)[i] = [do |-> kind, entry |-> es[i]]
         /\ In(Each(kind, es)) = Of(kind, In(es))
<1> DEFINE n == Len(es)
           s == Each(kind, es)
<1>1. n \in Nat /\ es \in [1 .. n -> X]  BY LenProperties
<1>2. s = [i \in 1 .. n |-> [do |-> kind, entry |-> es[i]]]  BY DEF Each
<1> HIDE DEF s
<1>3. \A i \in 1 .. n : s[i] = [do |-> kind, entry |-> es[i]] /\ s[i] \in Calls(X)
  <2> SUFFICES ASSUME NEW i \in 1 .. n PROVE s[i] = [do |-> kind, entry |-> es[i]] /\ s[i] \in Calls(X)  OBVIOUS
  <2>1. es[i] \in X  BY <1>1
  <2> QED BY <1>2, <2>1 DEF Calls
<1> HIDE DEF n
<1>4. s \in [1 .. n -> Calls(X)] /\ DOMAIN s = 1 .. n  BY <1>2, <1>3
<1>5. s \in Seq(Calls(X)) /\ Len(s) = n  BY <1>1, <1>4
<1>6. In(s) = Of(kind, In(es))
  <2>1. In(s) = {s[i] : i \in 1 .. n}  BY <1>5 DEF In
  <2>2. In(es) = {es[i] : i \in 1 .. n}  BY DEF In, n
  <2>3. ASSUME NEW c \in In(s) PROVE c \in Of(kind, In(es))
    <3>1. PICK i \in 1 .. n : c = s[i]  BY <2>1
    <3>2. es[i] \in In(es)  BY <2>2
    <3> QED BY <1>3, <3>1, <3>2 DEF Of
  <2>4. ASSUME NEW c \in Of(kind, In(es)) PROVE c \in In(s)
    <3>1. PICK e \in In(es) : c = [do |-> kind, entry |-> e]  BY DEF Of
    <3>2. PICK i \in 1 .. n : e = es[i]  BY <2>2
    <3> QED BY <1>3, <2>1, <3>1, <3>2
  <2> QED BY <2>3, <2>4
<1> QED BY <1>3, <1>5, <1>6 DEF s, n

\* Just makes the call once.
LEMMA JustFacts ==
  ASSUME NEW X, NEW kind \in {"finish", "deconvolve"}
  PROVE  /\ Just(kind) \in Seq(Calls(X)) /\ Len(Just(kind)) = 1 /\ Just(kind)[1] = [do |-> kind]
         /\ In(Just(kind)) = {[do |-> kind]}
<1>1. [do |-> kind] \in Calls(X)  BY DEF Calls
<1>2. Just(kind) = <<[do |-> kind]>>  BY DEF Just
<1>3. Just(kind) \in Seq(Calls(X)) /\ Len(Just(kind)) = 1 /\ Just(kind)[1] = [do |-> kind]  BY <1>1, <1>2
<1>4. In(Just(kind)) = {Just(kind)[i] : i \in 1 .. 1}  BY <1>3 DEF In
<1>5. 1 .. 1 = {1}  OBVIOUS
<1> QED BY <1>3, <1>4, <1>5

\* Waiting and deconvolving are no tasks.
LEMMA FinishIsNoTask ==
  /\ ~ IsTask([do |-> "finish"]) /\ ~ IsTask([do |-> "deconvolve"])
  /\ \A c : ~ Needs([do |-> "finish"], c) /\ ~ Needs([do |-> "deconvolve"], c) /\ ~ Needs(c, [do |-> "finish"])
  /\ ~ IsAdded([do |-> "finish"]) /\ ~ IsAdded([do |-> "deconvolve"])  BY DEF IsTask, TaskKinds, Needs, IsAdded

\* Calls that no other one waits for and that add nothing.
LEMMA NoTasksAreOrderly ==
  ASSUME NEW X, NEW s \in Seq(X), \A c \in In(s) : ~ IsTask(c)
  PROVE  Orderly(s)
<1>1. \A i \in 1 .. Len(s) : s[i] \in In(s)  BY DEF In
<1>2. \A i \in 1 .. Len(s) : ~ IsTask(s[i]) /\ ~ IsAdded(s[i])  BY <1>1 DEF IsAdded, IsTask, TaskKinds
<1>3. \A i \in 1 .. Len(s) : \A d : ~ Needs(s[i], d)  BY <1>2, OnlyTasksAreNeeded
<1> QED BY <1>2, <1>3 DEF Orderly

\* Entries whose calls may be accepted together.
IsBatch(kind, es) ==
  kind \in {"invert", "image"} =>
    /\ \A i, j \in 1 .. Len(es) :
         ~ (/\ es[i].polarization = "XY" /\ es[j].polarization = "YX"
            /\ es[i].outputChannelIndex = es[j].outputChannelIndex)
    /\ \A i, j \in 1 .. Len(es) : es[i].polarization = "YX" /\ es[i] = es[j] => i = j

\* A batch that is waited for is in order.
LEMMA FinishedBatch ==
  ASSUME NEW X, NEW es \in Seq(X), NEW kind \in TaskKinds
  PROVE  /\ Finished(Each(kind, es)) \in Seq(Calls(X))
         /\ In(Finished(Each(kind, es))) = Of(kind, In(es)) \cup {Finish}
         /\ IsBatch(kind, es) => Orderly(Finished(Each(kind, es)))
<1> DEFINE s == Each(kind, es)
           f == Just("finish")
           n == Len(es)
           R == Finished(s)
           C == Calls(X)
<1>1. kind \in {"psf", "invert", "image", "predict", "save", "readModel"}  BY DEF TaskKinds
<1>2. /\ s \in Seq(C) /\ Len(s) = n /\ In(s) = Of(kind, In(es))
      /\ \A i \in 1 .. n : s[i] = [do |-> kind, entry |-> es[i]]  BY <1>1, EachFacts
<1>3. f \in Seq(C) /\ Len(f) = 1 /\ f[1] = [do |-> "finish"] /\ In(f) = {Finish}  BY JustFacts DEF Finish
<1>4. n \in Nat  BY LenProperties
<1>5. R = s \o f  BY DEF Finished
<1> HIDE DEF s, f, R, C, n
<1>6. R \in Seq(C) /\ In(R) = Of(kind, In(es)) \cup {Finish}  BY <1>2, <1>3, <1>5, InConcat
<1>7. ASSUME IsBatch(kind, es) PROVE Orderly(R)
  <2>1. Len(R) = n + 1 /\ \A i \in 1 .. n + 1 : R[i] = IF i <= n THEN s[i] ELSE f[i - n]
    <3>1. /\ Len(s \o f) = Len(s) + Len(f)
          /\ \A i \in 1 .. Len(s) + Len(f) : (s \o f)[i] = IF i <= Len(s) THEN s[i] ELSE f[i - Len(s)]
      BY <1>2, <1>3, ConcatProperties
    <3>2. Len(s) = n /\ Len(f) = 1  BY <1>2, <1>3
    <3> QED BY <1>5, <3>1, <3>2
  <2>2. \A i \in 1 .. n : R[i] = [do |-> kind, entry |-> es[i]] /\ R[i].do = kind /\ R[i].entry = es[i] /\ IsTask(R[i])
    <3> SUFFICES ASSUME NEW i \in 1 .. n PROVE R[i] = [do |-> kind, entry |-> es[i]] /\ R[i].do = kind /\ R[i].entry = es[i] /\ IsTask(R[i])
      OBVIOUS
    <3>1. R[i] = s[i]  BY <1>4, <2>1
    <3> QED BY <1>2, <3>1 DEF IsTask
  <2>3. R[n + 1] = [do |-> "finish"]
    <3>1. ~ (n + 1 <= n) /\ (n + 1) - n = 1 /\ n + 1 \in 1 .. n + 1  BY <1>4
    <3> QED BY <1>3, <2>1, <3>1
  <2>4. \A i \in 1 .. n + 1 : i \in 1 .. n \/ i = n + 1  BY <1>4
  <2>5. ASSUME NEW i \in 1 .. n + 1, NEW j \in 1 .. n + 1, Needs(R[i], R[j]) PROVE FALSE
    <3>1. i \in 1 .. n /\ j \in 1 .. n  BY <2>3, <2>4, <2>5, FinishIsNoTask
    <3>2. R[i].do = kind /\ R[j].do = kind /\ R[i].entry = es[i] /\ R[j].entry = es[j]  BY <2>2, <3>1
    <3>3. /\ kind \in {"invert", "image"}
          /\ es[i].polarization = "XY" /\ es[j].polarization = "YX"
          /\ es[i].outputChannelIndex = es[j].outputChannelIndex  BY <2>5, <3>2 DEF Needs, IsTask, TaskKinds
    <3> QED BY <1>7, <3>1, <3>3 DEF IsBatch, n
  <2>6. ASSUME NEW i \in 1 .. n + 1, IsTask(R[i]) PROVE FinishBetween(R, i, n + 1 + 1)
    <3>1. i \in 1 .. n  BY <2>3, <2>4, <2>6, FinishIsNoTask
    <3>2. n + 1 \in 1 .. Len(R) /\ i < n + 1 /\ n + 1 < n + 1 + 1 /\ R[n + 1].do = "finish"  BY <1>4, <2>1, <2>3, <3>1
    <3> QED BY <3>2 DEF FinishBetween
  <2>7. ASSUME NEW i \in 1 .. n + 1, NEW j \in 1 .. n + 1, IsAdded(R[i]), R[i] = R[j] PROVE i = j
    <3>1. i \in 1 .. n /\ j \in 1 .. n  BY <2>3, <2>4, <2>7, FinishIsNoTask
    <3>2. R[i].do = kind /\ R[i].entry = es[i] /\ R[j].entry = es[j]  BY <2>2, <3>1
    <3>3. kind \in {"invert", "image"} /\ es[i].polarization = "YX" /\ es[i] = es[j]  BY <2>7, <3>2 DEF IsAdded
    <3> QED BY <1>7, <3>1, <3>3 DEF IsBatch, n
  <2> QED BY <2>1, <2>5, <2>6, <2>7 DEF Orderly
<1> QED BY <1>6, <1>7 DEF R, s, C

----
\* One batch for the first entries of the groups, one for the second, ...
LEMMA LongestIsLongest ==
  ASSUME NEW X, NEW groups \in Seq(Seq(X)), Len(groups) # 0
  PROVE  /\ Longest(groups) \in Nat
         /\ \A g \in 1 .. Len(groups) : Len(groups[g]) <= Longest(groups)
<1> DEFINE n == Len(groups)
           L(g) == Len(groups[g])
           P == {k \in 0 .. n - 1 : \E g \in 1 .. k + 1 : \A h \in 1 .. k + 1 : L(h) <= L(g)}
<1>1. n \in Nat /\ DOMAIN groups = 1 .. n /\ groups \in [1 .. n -> Seq(X)]  BY LenProperties
<1>2. \A g \in 1 .. n : L(g) \in Nat
  <2> SUFFICES ASSUME NEW g \in 1 .. n PROVE L(g) \in Nat  OBVIOUS
  <2>1. groups[g] \in Seq(X)  BY <1>1
  <2> QED BY <2>1, LenProperties
<1>3. n # 0  OBVIOUS
<1> HIDE DEF n, L
<1>4. n - 1 \in Nat /\ 0 \in 0 .. n - 1  BY <1>1, <1>3
<1>5. 0 \in P
  <2>1. 1 \in 1 .. 0 + 1 /\ \A h \in 1 .. 0 + 1 : h = 1  OBVIOUS
  <2>2. L(1) \in Nat  BY <1>1, <1>2, <1>3
  <2>3. \A h \in 1 .. 0 + 1 : L(h) <= L(1)  BY <2>1, <2>2
  <2> QED BY <1>4, <2>1, <2>3
<1>6. ASSUME NEW k \in 0 .. n - 1 - 1, k \in P PROVE k + 1 \in P
  <2>1. PICK g \in 1 .. k + 1 : \A h \in 1 .. k + 1 : L(h) <= L(g)  BY <1>6
  <2>2. k + 1 \in 0 .. n - 1 /\ k + 1 + 1 \in 1 .. n /\ g \in 1 .. n /\ g \in 1 .. k + 1 + 1 /\ k + 1 + 1 \in 1 .. k + 1 + 1
    BY <1>1
  <2>3. \A h \in 1 .. k + 1 + 1 : h \in 1 .. k + 1 \/ h = k + 1 + 1  BY <1>1
  <2>4. L(g) \in Nat /\ L(k + 1 + 1) \in Nat /\ \A h \in 1 .. k + 1 : L(h) \in Nat
    <3>1. \A h \in 1 .. k + 1 : h \in 1 .. n  BY <1>1
    <3> QED BY <1>2, <2>2, <3>1
  <2>5. CASE L(k + 1 + 1) <= L(g)
    <3>1. \A h \in 1 .. k + 1 + 1 : L(h) <= L(g)  BY <2>1, <2>3, <2>5
    <3> QED BY <2>2, <3>1
  <2>6. CASE L(g) < L(k + 1 + 1)
    <3>1. \A h \in 1 .. k + 1 : L(h) <= L(k + 1 + 1)  BY <2>1, <2>4, <2>6
    <3>2. \A h \in 1 .. k + 1 + 1 : L(h) <= L(k + 1 + 1)  BY <2>3, <2>4, <3>1
    <3> QED BY <2>2, <3>2
  <2> QED BY <2>4, <2>5, <2>6
<1>7. n - 1 \in P
  <2> HIDE DEF P
  <2>1. \A k \in 0 .. n - 1 : k \in P  BY <1>4, <1>5, <1>6, StepByStep
  <2> QED BY <1>4, <2>1
<1>8. PICK g \in 1 .. n : \A h \in 1 .. n : L(h) <= L(g)
  <2>1. n - 1 + 1 = n  BY <1>1
  <2> QED BY <1>7, <2>1
<1> DEFINE S == {L(h) : h \in 1 .. n}
           Most(m) == m \in S /\ \A h \in 1 .. n : L(h) <= m
<1>9. Longest(groups) = CHOOSE m \in S : \A h \in 1 .. n : L(h) <= m  BY <1>1 DEF Longest, L
<1>10. L(g) \in S /\ \A h \in 1 .. n : L(h) <= L(g)  BY <1>8
<1>11. Longest(groups) \in S /\ \A h \in 1 .. n : L(h) <= Longest(groups)
  <2> HIDE DEF S
  <2> QED BY <1>9, <1>10
<1>12. Longest(groups) \in Nat  BY <1>2, <1>11
<1> QED BY <1>11, <1>12 DEF L, n

\* The groups with an i-th entry, and these entries.
LongEnough(groups, i) == {g \in DOMAIN groups : i <= Len(groups[g])}
NthOf(groups, i) ==
  LET longEnough == AtPlaces(groups, LongEnough(groups, i))
  IN  [g \in DOMAIN longEnough |-> longEnough[g][i]]

\* They are taken in the order of the groups.
LEMMA NthFacts ==
  ASSUME NEW X, NEW groups \in Seq(Seq(X)), NEW i \in Nat \ {0}
  PROVE  /\ NthOf(groups, i) \in Seq(X)
         /\ IsAscending(Ascending(LongEnough(groups, i)), LongEnough(groups, i))
         /\ Len(NthOf(groups, i)) = Cardinality(LongEnough(groups, i))
         /\ \A a \in 1 .. Len(NthOf(groups, i)) :
              /\ Ascending(LongEnough(groups, i))[a] \in 1 .. Len(groups)
              /\ i \in 1 .. Len(groups[Ascending(LongEnough(groups, i))[a]])
              /\ NthOf(groups, i)[a] = groups[Ascending(LongEnough(groups, i))[a]][i]
         /\ In(NthOf(groups, i)) = {groups[g][i] : g \in LongEnough(groups, i)}
<1> DEFINE I == LongEnough(groups, i)
           O == Ascending(I)
           long == AtPlaces(groups, I)
           m == Cardinality(I)
           s == NthOf(groups, i)
<1>1. Len(groups) \in Nat /\ DOMAIN groups = 1 .. Len(groups) /\ groups \in [1 .. Len(groups) -> Seq(X)]
  BY LenProperties
<1>2. I \in SUBSET (1 .. Len(groups)) /\ \A g \in I : i <= Len(groups[g])  BY <1>1 DEF LongEnough
<1> HIDE DEF I
<1>3. /\ IsAscending(O, I)
      /\ long \in Seq(Seq(X)) /\ Len(long) = m
      /\ \A k \in 1 .. m : long[k] = groups[O[k]]  BY <1>2, AtPlacesFacts
<1>4. m \in Nat /\ O \in [1 .. m -> I] /\ \A x \in I : \E k \in 1 .. m : O[k] = x  BY <1>3 DEF IsAscending
<1> HIDE DEF long, O, m
<1>5. DOMAIN long = 1 .. m  BY <1>3, LenProperties
<1>6. s = [a \in 1 .. m |-> long[a][i]]  BY <1>5 DEF NthOf, I, long
<1> HIDE DEF s
<1>7. ASSUME NEW a \in 1 .. m
      PROVE  /\ O[a] \in I /\ O[a] \in 1 .. Len(groups) /\ i \in 1 .. Len(groups[O[a]])
             /\ s[a] = groups[O[a]][i] /\ s[a] \in X
  <2>1. O[a] \in I  BY <1>4
  <2>2. O[a] \in 1 .. Len(groups) /\ i <= Len(groups[O[a]])  BY <1>2, <2>1
  <2>3. groups[O[a]] \in Seq(X)  BY <1>1, <2>2
  <2>4. Len(groups[O[a]]) \in Nat /\ groups[O[a]] \in [1 .. Len(groups[O[a]]) -> X]  BY <2>3, LenProperties
  <2>5. i \in 1 .. Len(groups[O[a]])  BY <2>2, <2>4
  <2> QED BY <1>3, <1>6, <2>1, <2>2, <2>4, <2>5
<1>8. s \in [1 .. m -> X] /\ DOMAIN s = 1 .. m  BY <1>6, <1>7
<1>9. s \in Seq(X) /\ Len(s) = m  BY <1>4, <1>8
<1>10. In(s) = {groups[g][i] : g \in I}
  <2>1. In(s) = {s[a] : a \in 1 .. m}  BY <1>9 DEF In
  <2>2. \A a \in 1 .. m : \E g \in I : s[a] = groups[g][i]  BY <1>7
  <2>3. ASSUME NEW g \in I PROVE \E a \in 1 .. m : s[a] = groups[g][i]
    <3>1. PICK a \in 1 .. m : O[a] = g  BY <1>4
    <3> QED BY <1>7, <3>1
  <2>4. ASSUME NEW x \in In(s) PROVE x \in {groups[g][i] : g \in I}
    <3>1. PICK a \in 1 .. m : x = s[a]  BY <2>1
    <3>2. PICK g \in I : s[a] = groups[g][i]  BY <2>2
    <3> QED BY <3>1, <3>2
  <2>5. ASSUME NEW x \in {groups[g][i] : g \in I} PROVE x \in In(s)
    <3>1. PICK g \in I : x = groups[g][i]  OBVIOUS
    <3>2. PICK a \in 1 .. m : s[a] = groups[g][i]  BY <2>3
    <3> QED BY <2>1, <3>1, <3>2
  <2> QED BY <2>4, <2>5
<1>11. s \in Seq(X) /\ IsAscending(O, I) /\ Len(s) = m  BY <1>3, <1>9
<1>12. \A a \in 1 .. Len(s) : O[a] \in 1 .. Len(groups) /\ i \in 1 .. Len(groups[O[a]]) /\ s[a] = groups[O[a]][i]
  BY <1>7, <1>9
<1>13. In(s) = {groups[g][i] : g \in LongEnough(groups, i)}  BY <1>10 DEF I
<1> QED BY <1>11, <1>12, <1>13 DEF s, m, O, I

\* The squared groups of a group: what the batches rely on.
AreSquared(groups, E, X) ==
  /\ groups \in Seq(Seq(X)) /\ Len(groups) \in Nat \ {0}
  /\ \A g \in 1 .. Len(groups) : groups[g] \in Seq(X) /\ Len(groups[g]) \in Nat \ {0}
  /\ UNION {In(groups[g]) : g \in 1 .. Len(groups)} = In(E)
  /\ \A g, h \in 1 .. Len(groups) : \A k \in 1 .. Len(groups[g]), l \in 1 .. Len(groups[h]) :
       groups[g][k] = groups[h][l] => g = h /\ k = l
  /\ \A g, h \in 1 .. Len(groups) : \A k \in 1 .. Len(groups[g]), l \in 1 .. Len(groups[h]) :
       /\ groups[g][k].polarization = "XY" /\ groups[h][l].polarization = "YX"
       /\ groups[g][k].outputChannelIndex = groups[h][l].outputChannelIndex
       => g = h /\ k < l
  /\ Len(groups) = 1 => \A a, b \in In(E) : a.outputChannelIndex = b.outputChannelIndex

\* The squared groups of an independent group are these.
LEMMA SquaredGroupsOfAGroup ==
  ASSUME NEW s, NEW E, IsEntryGroup(E, s)
  PROVE  AreSquared(SquaredGroups(E), E, TableEntries(s))
<1> DEFINE X == TableEntries(s)
           groups == SquaredGroups(E)
           keys == [i \in 1 .. Len(E) |-> E[i].squaredDeconvolutionIndex]
           n == Len(groups)
           m == Len(E)
<1>1. E \in Seq(X) /\ m # 0 /\ \A i, j \in 1 .. m : E[i] = E[j] => i = j  BY DEF IsEntryGroup
<1>2. Partitions(groups, E, keys, X)  BY <1>1, SquaredGroupsPartition
<1>3. m \in Nat  BY <1>1, LenProperties
<1>4. \A i \in 1 .. m : keys[i] = E[i].squaredDeconvolutionIndex  OBVIOUS
<1> HIDE DEF groups, keys, X, n, m
<1>5. groups \in Seq(Seq(X)) /\ \A g \in 1 .. n : groups[g] \in Seq(X) /\ Len(groups[g]) # 0
  BY <1>2 DEF Partitions, n
<1>6. n \in Nat /\ \A g \in 1 .. n : Len(groups[g]) \in Nat \ {0}  BY <1>5, LenProperties DEF n
<1>7. /\ \A g \in 1 .. n : \A k \in 1 .. Len(groups[g]) : groups[g][k] \in In(E)
      /\ \A i \in 1 .. m : \E g \in 1 .. n : \E k \in 1 .. Len(groups[g]) : groups[g][k] = E[i]
      /\ \A i, j \in 1 .. m :
           i < j /\ keys[i] = keys[j] =>
             \E g \in 1 .. n : \E k, l \in 1 .. Len(groups[g]) :
               k < l /\ groups[g][k] = E[i] /\ groups[g][l] = E[j]
      /\ \A g, h \in 1 .. n : \A k \in 1 .. Len(groups[g]), l \in 1 .. Len(groups[h]) :
           groups[g][k] = groups[h][l] => g = h /\ k = l
      /\ n = 1 => \A i, j \in 1 .. m : keys[i] = keys[j]  BY <1>2 DEF Partitions, n, m
<1>8. In(E) = {E[i] : i \in 1 .. m}  BY DEF In, m
<1>9. n # 0
  <2>1. 1 \in 1 .. m  BY <1>1, <1>3
  <2>2. PICK g \in 1 .. n : TRUE  BY <1>7, <2>1
  <2> QED BY <1>6, <2>2
<1>10. UNION {In(groups[g]) : g \in 1 .. n} = In(E)
  <2>1. ASSUME NEW g \in 1 .. n, NEW e \in In(groups[g]) PROVE e \in In(E)
    <3>1. PICK k \in 1 .. Len(groups[g]) : e = groups[g][k]  BY DEF In
    <3> QED BY <1>7, <3>1
  <2>2. ASSUME NEW e \in In(E) PROVE \E g \in 1 .. n : e \in In(groups[g])
    <3>1. PICK i \in 1 .. m : e = E[i]  BY <1>8
    <3>2. PICK g \in 1 .. n : \E k \in 1 .. Len(groups[g]) : groups[g][k] = E[i]  BY <1>7
    <3>3. e \in In(groups[g])  BY <3>1, <3>2 DEF In
    <3> QED BY <3>3
  <2> QED BY <2>1, <2>2
<1>11. ASSUME NEW g \in 1 .. n, NEW h \in 1 .. n, NEW k \in 1 .. Len(groups[g]), NEW l \in 1 .. Len(groups[h]),
              groups[g][k].polarization = "XY", groups[h][l].polarization = "YX",
              groups[g][k].outputChannelIndex = groups[h][l].outputChannelIndex
       PROVE  g = h /\ k < l
  <2>1. groups[g][k] \in In(E) /\ groups[h][l] \in In(E)  BY <1>7
  <2>2. PICK i \in 1 .. m : groups[g][k] = E[i]  BY <1>8, <2>1
  <2>3. PICK j \in 1 .. m : groups[h][l] = E[j]  BY <1>8, <2>1
  <2>4. i < j /\ E[i].squaredDeconvolutionIndex = E[j].squaredDeconvolutionIndex
    BY <1>11, <2>2, <2>3 DEF IsEntryGroup, m
  <2>5. keys[i] = keys[j]  BY <1>4, <2>4
  <2>6. PICK f \in 1 .. n : \E a, b \in 1 .. Len(groups[f]) : a < b /\ groups[f][a] = E[i] /\ groups[f][b] = E[j]
    <3>1. \A p, q \in 1 .. m :
            p < q /\ keys[p] = keys[q] =>
              \E g_1 \in 1 .. n : \E a, b \in 1 .. Len(groups[g_1]) :
                a < b /\ groups[g_1][a] = E[p] /\ groups[g_1][b] = E[q]  BY <1>7
    <3> QED BY <2>4, <2>5, <3>1
  <2>7. PICK a \in 1 .. Len(groups[f]), b \in 1 .. Len(groups[f]) : a < b /\ groups[f][a] = E[i] /\ groups[f][b] = E[j]
    BY <2>6
  <2>10. ASSUME NEW p \in 1 .. n, NEW q \in 1 .. n, NEW c \in 1 .. Len(groups[p]), NEW d \in 1 .. Len(groups[q]),
                groups[p][c] = groups[q][d]
         PROVE  p = q /\ c = d  BY <1>7, <2>10
  <2>8. f = g /\ a = k  BY <2>2, <2>7, <2>10
  <2>9. f = h /\ b = l  BY <2>3, <2>7, <2>10
  <2> QED BY <2>7, <2>8, <2>9
<1>12. ASSUME n = 1, NEW a \in In(E), NEW b \in In(E) PROVE a.outputChannelIndex = b.outputChannelIndex
  <2>1. PICK i \in 1 .. m : a = E[i]  BY <1>8
  <2>2. PICK j \in 1 .. m : b = E[j]  BY <1>8
  <2>3. E[i].squaredDeconvolutionIndex = E[j].squaredDeconvolutionIndex  BY <1>4, <1>7, <1>12
  <2> QED BY <2>1, <2>2, <2>3 DEF IsEntryGroup, m
<1>13. groups \in Seq(Seq(X)) /\ n \in Nat \ {0} /\ \A g \in 1 .. n : groups[g] \in Seq(X) /\ Len(groups[g]) \in Nat \ {0}
  BY <1>5, <1>6, <1>9
<1>14. \A g, h \in 1 .. n : \A k \in 1 .. Len(groups[g]), l \in 1 .. Len(groups[h]) :
         groups[g][k] = groups[h][l] => g = h /\ k = l  BY <1>7
<1>15. \A g, h \in 1 .. n : \A k \in 1 .. Len(groups[g]), l \in 1 .. Len(groups[h]) :
         /\ groups[g][k].polarization = "XY" /\ groups[h][l].polarization = "YX"
         /\ groups[g][k].outputChannelIndex = groups[h][l].outputChannelIndex
         => g = h /\ k < l  BY <1>11
<1>16. n = 1 => \A a, b \in In(E) : a.outputChannelIndex = b.outputChannelIndex  BY <1>12
<1>17. AreSquared(groups, E, X)  BY <1>10, <1>13, <1>14, <1>15, <1>16 DEF AreSquared, n
<1> QED BY <1>17 DEF groups, X

----
\* The calls of a step of the group, all of which are made and in order.
IsWork(s, calls, X) == s \in Seq(Calls(X)) /\ Orderly(s) /\ In(s) = calls

\* First entries, second entries and so on: every entry in its batch, XY before YX.
LEMMA BatchPerEntryIsWork ==
  ASSUME NEW X, NEW E, NEW groups, AreSquared(groups, E, X), NEW kind \in {"invert", "image", "predict"}
  PROVE  IsWork(BatchPerEntry(kind, groups), Of(kind, In(E)) \cup {Finish}, X)
<1> DEFINE C == Calls(X)
           n == Len(groups)
           m == Longest(groups)
           B == [i \in 1 .. m + 1 |-> Finished(Each(kind, NthOf(groups, i)))]
           Nth(i) == NthOf(groups, i)
           O(i) == Ascending(LongEnough(groups, i))
<1>1. /\ groups \in Seq(Seq(X)) /\ n \in Nat \ {0}
      /\ \A g \in 1 .. n : groups[g] \in Seq(X) /\ Len(groups[g]) \in Nat \ {0}  BY DEF AreSquared
<1>2. m \in Nat /\ \A g \in 1 .. n : Len(groups[g]) <= m  BY <1>1, LongestIsLongest
<1>3. BatchPerEntry(kind, groups) = FlattenSeq(B)  BY DEF BatchPerEntry, NthOf, LongEnough
<1>4. \A i \in 1 .. m + 1 : B[i] = Finished(Each(kind, Nth(i)))  OBVIOUS
<1>5. kind \in TaskKinds  BY DEF TaskKinds
<1>15. \A g, h \in 1 .. n : \A k \in 1 .. Len(groups[g]), l \in 1 .. Len(groups[h]) :
         /\ groups[g][k] = groups[h][l] => g = h /\ k = l
         /\ /\ groups[g][k].polarization = "XY" /\ groups[h][l].polarization = "YX"
            /\ groups[g][k].outputChannelIndex = groups[h][l].outputChannelIndex
            => g = h /\ k < l  BY DEF AreSquared
<1>6. \A i \in 1 .. m + 1 : i \in Nat \ {0}  BY <1>2
<1> HIDE DEF C, n, m, Nth, O
<1>7. ASSUME NEW i \in 1 .. m + 1
      PROVE  /\ Nth(i) \in Seq(X) /\ IsAscending(O(i), LongEnough(groups, i))
             /\ Len(Nth(i)) = Cardinality(LongEnough(groups, i))
             /\ \A a \in 1 .. Len(Nth(i)) :
                  /\ O(i)[a] \in 1 .. n /\ i \in 1 .. Len(groups[O(i)[a]])
                  /\ Nth(i)[a] = groups[O(i)[a]][i]
             /\ In(Nth(i)) = {groups[g][i] : g \in LongEnough(groups, i)}
  <2>1. i \in Nat \ {0}  BY <1>6
  <2>2. Nth(i) \in Seq(X) /\ In(Nth(i)) = {groups[g][i] : g \in LongEnough(groups, i)}
    BY <1>1, <2>1, NthFacts DEF Nth
  <2>3. IsAscending(O(i), LongEnough(groups, i)) /\ Len(Nth(i)) = Cardinality(LongEnough(groups, i))
    BY <1>1, <2>1, NthFacts DEF Nth, O
  <2>4. \A a \in 1 .. Len(Nth(i)) :
          /\ O(i)[a] \in 1 .. n /\ i \in 1 .. Len(groups[O(i)[a]])
          /\ Nth(i)[a] = groups[O(i)[a]][i]
    <3> HIDE DEF B
    <3> QED BY <1>1, <2>1, NthFacts DEF Nth, O, n
  <2> QED BY <2>2, <2>3, <2>4
<1>8. ASSUME NEW i \in 1 .. m + 1
      PROVE  B[i] \in Seq(C) /\ In(B[i]) = Of(kind, In(Nth(i))) \cup {Finish} /\ Orderly(B[i])
  <2>1. IsBatch(kind, Nth(i))
    <3>1. ASSUME NEW a \in 1 .. Len(Nth(i)), NEW b \in 1 .. Len(Nth(i)),
                 Nth(i)[a].polarization = "XY", Nth(i)[b].polarization = "YX",
                 Nth(i)[a].outputChannelIndex = Nth(i)[b].outputChannelIndex
          PROVE  FALSE
      <4>1. /\ O(i)[a] \in 1 .. n /\ i \in 1 .. Len(groups[O(i)[a]]) /\ Nth(i)[a] = groups[O(i)[a]][i]
            /\ O(i)[b] \in 1 .. n /\ i \in 1 .. Len(groups[O(i)[b]]) /\ Nth(i)[b] = groups[O(i)[b]][i]  BY <1>7
      <4>2. i < i  BY <1>15, <3>1, <4>1
      <4> QED BY <1>6, <4>2
    <3>2. ASSUME NEW a \in 1 .. Len(Nth(i)), NEW b \in 1 .. Len(Nth(i)), Nth(i)[a] = Nth(i)[b] PROVE a = b
      <4>1. /\ O(i)[a] \in 1 .. n /\ i \in 1 .. Len(groups[O(i)[a]]) /\ Nth(i)[a] = groups[O(i)[a]][i]
            /\ O(i)[b] \in 1 .. n /\ i \in 1 .. Len(groups[O(i)[b]]) /\ Nth(i)[b] = groups[O(i)[b]][i]  BY <1>7
      <4>4. groups[O(i)[a]][i] = groups[O(i)[b]][i]  BY <3>2, <4>1
      <4>2. O(i)[a] = O(i)[b]
        <5>1. \A g, h \in 1 .. n : \A k \in 1 .. Len(groups[g]), l \in 1 .. Len(groups[h]) :
                groups[g][k] = groups[h][l] => g = h /\ k = l  BY DEF AreSquared, n
        <5> QED BY <4>1, <4>4, <5>1
      <4>3. a \in 1 .. Cardinality(LongEnough(groups, i)) /\ b \in 1 .. Cardinality(LongEnough(groups, i))  BY <1>7
      <4> QED BY <1>7, <4>2, <4>3 DEF IsAscending
    <3> QED BY <3>1, <3>2 DEF IsBatch
  <2> QED BY <1>4, <1>5, <1>7, <2>1, FinishedBatch DEF C
<1>9. B \in Seq(Seq(C)) /\ Len(B) = m + 1
  <2>1. B \in [1 .. m + 1 -> Seq(C)]
    <3>1. \A i \in 1 .. m + 1 : B[i] \in Seq(C)  BY <1>8
    <3>2. B = [i \in 1 .. m + 1 |-> B[i]]  OBVIOUS
    <3> HIDE DEF B
    <3> QED BY <3>1, <3>2
  <2>2. DOMAIN B = 1 .. m + 1  OBVIOUS
  <2> HIDE DEF B
  <2> QED BY <1>2, <2>1, <2>2
<1> HIDE DEF B
<1>10. ASSUME NEW i \in 1 .. m + 1, NEW j \in 1 .. m + 1, i < j PROVE MayFollow(B[i], B[j])
  <2> SUFFICES ASSUME NEW a \in In(B[i]), NEW b \in In(B[j]), Needs(b, a) \/ (IsAdded(a) /\ a = b) PROVE FALSE
    BY DEF MayFollow
  <2>1. a # Finish /\ b # Finish  BY FinishIsNoTask DEF Finish
  <2>2. a \in Of(kind, In(Nth(i))) /\ b \in Of(kind, In(Nth(j)))  BY <1>8, <2>1
  <2>3. PICK x \in In(Nth(i)) : a = [do |-> kind, entry |-> x]  BY <2>2 DEF Of
  <2>4. PICK y \in In(Nth(j)) : b = [do |-> kind, entry |-> y]  BY <2>2 DEF Of
  <2>5. PICK g \in LongEnough(groups, i) : x = groups[g][i]  BY <1>7, <2>3
  <2>6. PICK h \in LongEnough(groups, j) : y = groups[h][j]  BY <1>7, <2>4
  <2>7. /\ g \in 1 .. n /\ i <= Len(groups[g])
        /\ h \in 1 .. n /\ j <= Len(groups[h])  BY <1>1, <2>5, <2>6, LenProperties DEF LongEnough, n
  <2>8. i \in 1 .. Len(groups[g]) /\ j \in 1 .. Len(groups[h])  BY <1>1, <2>7
  <2>9. a.do = kind /\ b.do = kind /\ a.entry = x /\ b.entry = y  BY <2>3, <2>4
  <2>10. CASE IsAdded(a) /\ a = b
    <3>1. i = j  BY <1>15, <2>5, <2>6, <2>7, <2>8, <2>9, <2>10
    <3> QED BY <1>10, <3>1
  <2>11. CASE Needs(b, a)
    <3>1. /\ y.polarization = "XY" /\ x.polarization = "YX"
          /\ y.outputChannelIndex = x.outputChannelIndex  BY <2>9, <2>11 DEF Needs, IsTask, TaskKinds
    <3>2. j < i  BY <1>15, <2>5, <2>6, <2>7, <2>8, <3>1
    <3> QED BY <1>10, <3>2
  <2> QED BY <2>10, <2>11
<1>11. m + 1 # 0  BY <1>2
<1>12. FlattenSeq(B) \in Seq(C) /\ In(FlattenSeq(B)) = UNION {In(B[i]) : i \in 1 .. m + 1}  BY <1>9, InFlattened
<1>13. Orderly(FlattenSeq(B))  BY <1>8, <1>9, <1>10, <1>11, FlattenOrderly
<1>14. UNION {In(B[i]) : i \in 1 .. m + 1} = Of(kind, In(E)) \cup {Finish}
  <2>1. ASSUME NEW i \in 1 .. m + 1, NEW c \in In(B[i]) PROVE c \in Of(kind, In(E)) \cup {Finish}
    <3>1. CASE c = Finish  BY <3>1
    <3>2. CASE c # Finish
      <4>1. PICK x \in In(Nth(i)) : c = [do |-> kind, entry |-> x]  BY <1>8, <3>2 DEF Of
      <4>2. PICK g \in LongEnough(groups, i) : x = groups[g][i]  BY <1>7, <4>1
      <4>3. g \in 1 .. n /\ i <= Len(groups[g])  BY <1>1, <4>2, LenProperties DEF LongEnough, n
      <4>4. i \in 1 .. Len(groups[g])  BY <1>1, <4>3
      <4>5. x \in In(groups[g])  BY <4>2, <4>4 DEF In
      <4>6. x \in In(E)  BY <4>3, <4>5 DEF AreSquared, n
      <4> QED BY <4>1, <4>6 DEF Of
    <3> QED BY <3>1, <3>2
  <2>2. ASSUME NEW c \in Of(kind, In(E)) PROVE \E i \in 1 .. m + 1 : c \in In(B[i])
    <3>1. PICK x \in In(E) : c = [do |-> kind, entry |-> x]  BY DEF Of
    <3>2. PICK g \in 1 .. n : x \in In(groups[g])  BY DEF AreSquared, n
    <3>3. PICK i \in 1 .. Len(groups[g]) : x = groups[g][i]  BY <3>2 DEF In
    <3>4. Len(groups[g]) \in Nat /\ Len(groups[g]) <= m  BY <1>1, <1>2
    <3>5. i \in 1 .. m + 1 /\ i <= Len(groups[g])  BY <1>2, <3>4
    <3>6. g \in LongEnough(groups, i)  BY <1>1, <3>5, LenProperties DEF LongEnough, n
    <3>7. x \in In(Nth(i))  BY <1>7, <3>3, <3>5, <3>6
    <3> QED BY <1>8, <3>1, <3>5, <3>7 DEF Of
  <2>3. \E i \in 1 .. m + 1 : Finish \in In(B[i])
    <3>1. 1 \in 1 .. m + 1  BY <1>2
    <3> QED BY <1>8, <3>1
  <2> QED BY <2>1, <2>2, <2>3
<1> QED BY <1>3, <1>12, <1>13, <1>14 DEF IsWork, C

\* The entries of the table, by polarization and channel.
LEMMA EntryFacts ==
  ASSUME NEW s, Good(s)
  PROVE  /\ \A e \in TableEntries(s) :
              /\ \E p \in 1 .. Pols(s) : e.polarization = s.polarizations[p]
              /\ e.outputChannelIndex \in 1 .. s.channelsOut
              /\ e.imageCount = ImageCount(e.polarization)
         /\ \A e, f \in TableEntries(s) :
              e.polarization = f.polarization /\ e.outputChannelIndex = f.outputChannelIndex => e = f
         /\ ~ HasCross(s) => \A e \in TableEntries(s) : e.polarization # "XY" /\ e.polarization # "YX"
<1>1. ASSUME NEW i \in 1 .. Size(s)
      PROVE  /\ PolAt(s, i) \in 1 .. Pols(s) /\ ChannelAt(s, i) \in 1 .. s.channelsOut
             /\ EntryAt(s, i).polarization = s.polarizations[PolAt(s, i)]
             /\ EntryAt(s, i).outputChannelIndex = ChannelAt(s, i)
             /\ EntryAt(s, i).imageCount = ImageCount(s.polarizations[PolAt(s, i)])  BY TableFacts, PlaceOfEntry
<1>2. ASSUME NEW e \in TableEntries(s)
      PROVE  /\ \E p \in 1 .. Pols(s) : e.polarization = s.polarizations[p]
             /\ e.outputChannelIndex \in 1 .. s.channelsOut
             /\ e.imageCount = ImageCount(e.polarization)
  <2>1. PICK i \in 1 .. Size(s) : e = EntryAt(s, i)  BY DEF TableEntries
  <2> QED BY <1>1, <2>1
<1>3. ASSUME NEW e \in TableEntries(s), NEW f \in TableEntries(s),
             e.polarization = f.polarization, e.outputChannelIndex = f.outputChannelIndex
      PROVE  e = f
  <2>1. PICK i \in 1 .. Size(s) : e = EntryAt(s, i)  BY DEF TableEntries
  <2>2. PICK j \in 1 .. Size(s) : f = EntryAt(s, j)  BY DEF TableEntries
  <2>3. i = j  BY <1>3, <2>1, <2>2, EntriesAreDistinct
  <2> QED BY <2>1, <2>2, <2>3
<1>4. ASSUME ~ HasCross(s), NEW e \in TableEntries(s) PROVE e.polarization # "XY" /\ e.polarization # "YX"
  BY <1>2, <1>4, GoodFacts
<1> QED BY <1>2, <1>3, <1>4

\* The entries of a group.
LEMMA GroupEntries ==
  ASSUME NEW s, Good(s), NEW E, IsEntryGroup(E, s)
  PROVE  /\ E \in Seq(TableEntries(s)) /\ Len(E) \in Nat \ {0}
         /\ In(E) \subseteq TableEntries(s)
         /\ \A i \in 1 .. Len(E) : E[i] \in In(E)
         /\ E[1] \in In(E)
         /\ ~ HasCross(s) => \A e \in In(E) : e.polarization # "XY" /\ e.polarization # "YX"
<1>1. E \in Seq(TableEntries(s)) /\ Len(E) # 0  BY DEF IsEntryGroup
<1>2. Len(E) \in Nat /\ E \in [1 .. Len(E) -> TableEntries(s)]  BY <1>1, LenProperties
<1>3. \A i \in 1 .. Len(E) : E[i] \in In(E) /\ E[i] \in TableEntries(s)  BY <1>2 DEF In
<1>4. In(E) \subseteq TableEntries(s)  BY <1>3 DEF In
<1>5. 1 \in 1 .. Len(E)  BY <1>1, <1>2
<1> QED BY <1>1, <1>2, <1>3, <1>4, <1>5, EntryFacts

\* A batch of entries that may be accepted together.
LEMMA BatchIsWork ==
  ASSUME NEW X, NEW es \in Seq(X), NEW kind \in TaskKinds, IsBatch(kind, es)
  PROVE  IsWork(Finished(Each(kind, es)), Of(kind, In(es)) \cup {Finish}, X)  BY FinishedBatch DEF IsWork

\* The work on one group after the other.
LEMMA JoinWork ==
  ASSUME NEW X, NEW s, NEW t, NEW A, NEW B, IsWork(s, A, X), IsWork(t, B, X),
         \A a \in A, b \in B : ~ Needs(b, a) /\ ~ (IsAdded(a) /\ a = b)
  PROVE  IsWork(s \o t, A \cup B, X)
<1>1. MayFollow(s, t)  BY DEF MayFollow, IsWork
<1>2. Orderly(s \o t)  BY <1>1, JoinOrderly DEF IsWork
<1>3. s \o t \in Seq(Calls(X)) /\ In(s \o t) = A \cup B  BY InConcat DEF IsWork
<1> QED BY <1>2, <1>3 DEF IsWork

\* An earlier stage needs no result of a later one.
LEMMA NeedsNothingLater ==
  ASSUME NEW S, NEW T,
         NEW k \in {"psf", "invert", "predict", "image", "save"}, NEW l \in {"psf", "invert", "predict", "image", "save"},
         \/ k = "psf" /\ l = "invert"
         \/ k = "predict" /\ l = "image"
         \/ l = "save"
  PROVE  \A a \in Of(k, S) \cup {Finish}, b \in Of(l, T) \cup {Finish} : ~ Needs(b, a) /\ ~ (IsAdded(a) /\ a = b)
<1> SUFFICES ASSUME NEW a \in Of(k, S) \cup {Finish}, NEW b \in Of(l, T) \cup {Finish},
                    Needs(b, a) \/ (IsAdded(a) /\ a = b)
             PROVE  FALSE  OBVIOUS
<1>1. a # Finish /\ b # Finish  BY FinishIsNoTask DEF Finish
<1>2. a.do = k /\ b.do = l  BY <1>1 DEF Of
<1> QED BY <1>2 DEF Needs, IsAdded, IsTask, TaskKinds

\* Saving the images of a group,
LEMMA SavingIsWork ==
  ASSUME NEW X, NEW es \in Seq(X)
  PROVE  IsWork(Each("save", es), Of("save", In(es)), X)
<1> DEFINE s == Each("save", es)
<1>1. s \in Seq(Calls(X)) /\ In(s) = Of("save", In(es))  BY EachFacts
<1> HIDE DEF s
<1>2. \A c \in In(s) : ~ IsTask(c)  BY <1>1 DEF Of, IsTask, TaskKinds
<1>3. Orderly(s)  BY <1>1, <1>2, NoTasksAreOrderly
<1>4. IsWork(s, Of("save", In(es)), X)  BY <1>1, <1>3 DEF IsWork
<1> QED BY <1>4 DEF s

\* one call,
LEMMA JustIsWork ==
  ASSUME NEW X, NEW kind \in {"finish", "deconvolve"}
  PROVE  IsWork(Just(kind), {[do |-> kind]}, X)
<1>1. Just(kind) \in Seq(Calls(X)) /\ In(Just(kind)) = {[do |-> kind]}  BY JustFacts
<1>2. \A c \in In(Just(kind)) : ~ IsTask(c)  BY <1>1 DEF IsTask, TaskKinds
<1> QED BY <1>1, <1>2, NoTasksAreOrderly DEF IsWork

\* and no call at all.
LEMMA NothingIsWork ==
  ASSUME NEW X
  PROVE  IsWork(<<>>, {}, X)
<1>1. <<>> \in Seq(Calls(X)) /\ Len(<<>>) = 0  OBVIOUS
<1>2. In(<<>>) = {}  BY <1>1 DEF In
<1>3. Orderly(<<>>)  BY <1>1, <1>2, NoTasksAreOrderly
<1> QED BY <1>1, <1>2, <1>3 DEF IsWork

----
\* The work on an independent group.
Started(E, s) ==
  IF s.clean \/ s.makePSF \/ s.makePSFOnly THEN {e \in In(E) : e.polarization = Head(s.polarizations)} ELSE {}

\* The PSFs, of one polarization, are one batch.
LEMMA PSFsAreWork ==
  ASSUME Good(settings), NEW E, IsEntryGroup(E, settings)
  PROVE  IsWork(PSFs(E), Of("psf", Started(E, settings)) \cup {Finish}, TableEntries(settings))
<1> DEFINE X == TableEntries(settings)
           I == {i \in DOMAIN E : E[i].polarization = FirstPol /\ DoMakePSF}
           O == Ascending(I)
           made == AtPlaces(E, I)
           m == Cardinality(I)
<1>1. E \in Seq(X) /\ In(E) \subseteq X  BY GroupEntries
<1>2. DOMAIN E = 1 .. Len(E)  BY <1>1, LenProperties
<1>3. I \in SUBSET (1 .. Len(E)) /\ \A i \in I : E[i].polarization = FirstPol /\ DoMakePSF  BY <1>2
<1>4. \A i \in 1 .. Len(E) : E[i].polarization = FirstPol /\ DoMakePSF => i \in I  BY <1>2
<1>5. PSFs(E) = Finished(Each("psf", made))  BY DEF PSFs
<1> HIDE DEF I, O, made, m, X
<1>6. /\ IsAscending(O, I) /\ made \in Seq(X) /\ Len(made) = m
      /\ \A k \in 1 .. m : made[k] = E[O[k]]  BY <1>1, <1>3, AtPlacesFacts DEF O, made, m
<1>7. O \in [1 .. m -> I] /\ \A x \in I : \E k \in 1 .. m : O[k] = x  BY <1>6 DEF IsAscending, m
<1>8. In(made) = Started(E, settings)
  <2>1. ASSUME NEW e \in In(made) PROVE e \in Started(E, settings)
    <3>1. PICK k \in 1 .. m : e = made[k]  BY <1>6 DEF In
    <3>2. e = E[O[k]] /\ O[k] \in I  BY <1>6, <1>7, <3>1
    <3>3. O[k] \in 1 .. Len(E) /\ e.polarization = FirstPol /\ DoMakePSF  BY <1>3, <3>2
    <3>4. e \in In(E)  BY <3>2, <3>3 DEF In
    <3> QED BY <3>3, <3>4 DEF Started, FirstPol, DoMakePSF
  <2>2. ASSUME NEW e \in Started(E, settings) PROVE e \in In(made)
    <3>1. e \in In(E) /\ e.polarization = FirstPol /\ DoMakePSF  BY DEF Started, FirstPol, DoMakePSF
    <3>2. PICK i \in 1 .. Len(E) : e = E[i]  BY <3>1 DEF In
    <3>3. i \in I  BY <1>4, <3>1, <3>2
    <3>4. PICK k \in 1 .. m : O[k] = i  BY <1>7, <3>3
    <3> QED BY <1>6, <3>2, <3>4 DEF In
  <2> QED BY <2>1, <2>2
<1>9. "psf" \in TaskKinds /\ IsBatch("psf", made)  BY DEF TaskKinds, IsBatch
<1> QED BY <1>5, <1>6, <1>8, <1>9, BatchIsWork DEF X

\* Without XY and YX any entries can be in a batch.
LEMMA WithoutCrossABatch ==
  ASSUME NEW es, NEW kind, \A e \in In(es) : e.polarization # "XY" /\ e.polarization # "YX"
  PROVE  IsBatch(kind, es)
<1>1. \A i \in 1 .. Len(es) : es[i] \in In(es)  BY DEF In
<1> QED BY <1>1 DEF IsBatch

\* The first inversion takes every entry of the group, unless only PSFs are made.
LEMMA FirstInversionIsWork ==
  ASSUME Good(settings), NEW E, IsEntryGroup(E, settings)
  PROVE  \E calls :
           /\ IsWork(FirstInversion(E), calls, TableEntries(settings))
           /\ ~ settings.makePSFOnly => calls = Of("invert", In(E)) \cup {Finish}
           /\ settings.makePSFOnly => calls \subseteq {Finish}
<1> DEFINE X == TableEntries(settings)
           whole == IF ParallelizePolarizations THEN Finished(Each("invert", E))
                    ELSE BatchPerEntry("invert", SquaredGroups(E))
           I == {i \in DOMAIN whole : whole[i].do = "finish"}
           only == AtPlaces(whole, I)
           All == Of("invert", In(E)) \cup {Finish}
<1>1. E \in Seq(X)  BY GroupEntries
<1>2. FirstInversion(E) = IF settings.makePSFOnly THEN only ELSE whole  BY DEF FirstInversion
<1>3. IsWork(whole, All, X)
  <2>1. CASE ParallelizePolarizations
    <3>1. \A e \in In(E) : e.polarization # "XY" /\ e.polarization # "YX"
      BY <2>1, GroupEntries DEF ParallelizePolarizations
    <3>2. "invert" \in TaskKinds /\ IsBatch("invert", E)  BY <3>1, WithoutCrossABatch DEF TaskKinds
    <3>3. IsWork(Finished(Each("invert", E)), All, X)  BY <1>1, <3>2, BatchIsWork
    <3> QED BY <2>1, <3>3
  <2>2. CASE ~ ParallelizePolarizations
    <3>1. AreSquared(SquaredGroups(E), E, X)  BY SquaredGroupsOfAGroup
    <3>2. IsWork(BatchPerEntry("invert", SquaredGroups(E)), All, X)  BY <3>1, BatchPerEntryIsWork
    <3> QED BY <2>2, <3>2
  <2> QED BY <2>1, <2>2
<1> HIDE DEF whole, X, All
<1>4. whole \in Seq(Calls(X)) /\ Len(whole) \in Nat /\ DOMAIN whole = 1 .. Len(whole)
  BY <1>3, LenProperties DEF IsWork
<1>5. I \in SUBSET (1 .. Len(whole)) /\ \A i \in I : whole[i].do = "finish"  BY <1>4
<1> HIDE DEF I
<1>6. /\ only \in Seq(Calls(X)) /\ IsAscending(Ascending(I), I) /\ Len(only) = Cardinality(I)
      /\ \A k \in 1 .. Cardinality(I) : only[k] = whole[Ascending(I)[k]]  BY <1>4, <1>5, AtPlacesFacts
<1>7. \A k \in 1 .. Cardinality(I) : Ascending(I)[k] \in I  BY <1>6 DEF IsAscending
<1> HIDE DEF only
<1>8. \A c \in In(only) : c \in In(whole) /\ c.do = "finish"
  <2> SUFFICES ASSUME NEW c \in In(only) PROVE c \in In(whole) /\ c.do = "finish"  OBVIOUS
  <2>1. PICK k \in 1 .. Cardinality(I) : c = only[k]  BY <1>6 DEF In
  <2>2. c = whole[Ascending(I)[k]] /\ Ascending(I)[k] \in I  BY <1>6, <1>7, <2>1
  <2> QED BY <1>5, <2>2 DEF In
<1>9. In(only) \subseteq {Finish}
  <2>1. \A c \in All : c.do = "finish" => c = Finish  BY DEF All, Of, Finish
  <2> QED BY <1>3, <1>8, <2>1 DEF IsWork
<1>10. Orderly(only)
  <2>1. \A c \in In(only) : ~ IsTask(c)  BY <1>9, FinishIsNoTask DEF Finish
  <2> QED BY <1>6, <2>1, NoTasksAreOrderly
<1>11. IsWork(only, In(only), X)  BY <1>6, <1>10 DEF IsWork
<1>12. CASE settings.makePSFOnly
  <2>1. IsWork(FirstInversion(E), In(only), X)  BY <1>2, <1>11, <1>12
  <2> QED BY <1>9, <1>12, <2>1 DEF X
<1>13. CASE ~ settings.makePSFOnly
  <2>1. IsWork(FirstInversion(E), All, X)  BY <1>2, <1>3, <1>13
  <2> QED BY <1>13, <2>1 DEF X, All
<1> QED BY <1>12, <1>13

\* One squared group after the other, when there is no XY or YX.
LEMMA BatchPerGroupIsWork ==
  ASSUME NEW X, NEW E, NEW groups, AreSquared(groups, E, X),
         \A e \in In(E) : e.polarization # "XY" /\ e.polarization # "YX"
  PROVE  IsWork(BatchPerGroup(groups), Of("predict", In(E)) \cup Of("image", In(E)) \cup {Finish}, X)
<1> DEFINE C == Calls(X)
           n == Len(groups)
           P(g) == Of("predict", In(groups[g])) \cup {Finish}
           M(g) == Of("image", In(groups[g])) \cup {Finish}
           B == [g \in 1 .. n |-> Finished(Each("predict", groups[g])) \o Finished(Each("image", groups[g]))]
<1>1. /\ groups \in Seq(Seq(X)) /\ n \in Nat \ {0}
      /\ \A g \in 1 .. n : groups[g] \in Seq(X) /\ Len(groups[g]) \in Nat \ {0}  BY DEF AreSquared
<1>2. BatchPerGroup(groups) = FlattenSeq(B)  BY DEF BatchPerGroup
<1>3. \A g \in 1 .. n : B[g] = Finished(Each("predict", groups[g])) \o Finished(Each("image", groups[g]))  OBVIOUS
<1>4. UNION {In(groups[g]) : g \in 1 .. n} = In(E)  BY DEF AreSquared
<1>5. \A g, h \in 1 .. n : \A k \in 1 .. Len(groups[g]), l \in 1 .. Len(groups[h]) :
        groups[g][k] = groups[h][l] => g = h /\ k = l  BY DEF AreSquared
<1> HIDE DEF n, C
<1>6. ASSUME NEW g \in 1 .. n PROVE IsWork(B[g], P(g) \cup M(g), X)
  <2>1. \A e \in In(groups[g]) : e.polarization # "XY" /\ e.polarization # "YX"  BY <1>4
  <2>2. "predict" \in TaskKinds /\ "image" \in TaskKinds /\ IsBatch("predict", groups[g]) /\ IsBatch("image", groups[g])
    BY <2>1, WithoutCrossABatch DEF TaskKinds
  <2>3. groups[g] \in Seq(X)  BY <1>1
  <2>4. IsWork(Finished(Each("predict", groups[g])), P(g), X) /\ IsWork(Finished(Each("image", groups[g])), M(g), X)
    BY <2>2, <2>3, BatchIsWork
  <2>5. \A a \in P(g), b \in M(g) : ~ Needs(b, a) /\ ~ (IsAdded(a) /\ a = b)  BY NeedsNothingLater
  <2> HIDE DEF B, P, M
  <2>6. IsWork(Finished(Each("predict", groups[g])) \o Finished(Each("image", groups[g])), P(g) \cup M(g), X)
    BY <2>4, <2>5, JoinWork
  <2> QED BY <1>3, <2>6
<1>7. B \in Seq(Seq(C)) /\ Len(B) = n
  <2>1. \A g \in 1 .. n : B[g] \in Seq(C)  BY <1>6 DEF IsWork, C
  <2>2. B = [g \in 1 .. n |-> B[g]]  OBVIOUS
  <2>3. DOMAIN B = 1 .. n  OBVIOUS
  <2> HIDE DEF B
  <2>4. B \in [1 .. n -> Seq(C)]  BY <2>1, <2>2
  <2> QED BY <1>1, <2>3, <2>4
<1> HIDE DEF B
<1>8. \A g \in 1 .. n : Orderly(B[g]) /\ In(B[g]) = P(g) \cup M(g)  BY <1>6 DEF IsWork
<1>9. ASSUME NEW g \in 1 .. n, NEW h \in 1 .. n, g < h PROVE MayFollow(B[g], B[h])
  <2> SUFFICES ASSUME NEW a \in P(g) \cup M(g), NEW b \in P(h) \cup M(h), Needs(b, a) \/ (IsAdded(a) /\ a = b)
               PROVE  FALSE  BY <1>8 DEF MayFollow
  <2>1. a # Finish /\ b # Finish  BY FinishIsNoTask DEF Finish
  <2>2. PICK x \in In(groups[g]) : a.entry = x /\ a.do \in {"predict", "image"}  BY <2>1 DEF Of
  <2>3. PICK y \in In(groups[h]) : b.entry = y /\ b.do \in {"predict", "image"}  BY <2>1 DEF Of
  <2>4. x.polarization # "YX" /\ y.polarization # "XY" /\ x.polarization # "XY"  BY <1>4, <2>2, <2>3
  <2>5. x = y  BY <2>2, <2>3, <2>4 DEF Needs, IsAdded, IsTask, TaskKinds
  <2>6. PICK k \in 1 .. Len(groups[g]) : x = groups[g][k]  BY DEF In
  <2>7. PICK l \in 1 .. Len(groups[h]) : y = groups[h][l]  BY DEF In
  <2>8. g = h  BY <1>5, <2>5, <2>6, <2>7
  <2> QED BY <1>9, <2>8
<1>10. n # 0  BY <1>1
<1>11. Orderly(FlattenSeq(B))  BY <1>7, <1>8, <1>9, <1>10, FlattenOrderly
<1>12. FlattenSeq(B) \in Seq(C) /\ In(FlattenSeq(B)) = UNION {In(B[g]) : g \in 1 .. n}  BY <1>7, InFlattened
<1>13. UNION {In(B[g]) : g \in 1 .. n} = Of("predict", In(E)) \cup Of("image", In(E)) \cup {Finish}
  <2>1. ASSUME NEW g \in 1 .. n, NEW c \in In(B[g])
        PROVE  c \in Of("predict", In(E)) \cup Of("image", In(E)) \cup {Finish}
    <3>1. In(groups[g]) \subseteq In(E)  BY <1>4
    <3>2. c \in P(g) \cup M(g)  BY <1>8
    <3> QED BY <3>1, <3>2 DEF Of
  <2>2. ASSUME NEW c \in Of("predict", In(E)) \cup Of("image", In(E)) PROVE \E g \in 1 .. n : c \in In(B[g])
    <3>1. PICK x \in In(E), kind \in {"predict", "image"} : c = [do |-> kind, entry |-> x]  BY DEF Of
    <3>2. PICK g \in 1 .. n : x \in In(groups[g])  BY <1>4
    <3>3. c \in P(g) \cup M(g)  BY <3>1, <3>2 DEF Of
    <3> QED BY <1>8, <3>3
  <2>3. \E g \in 1 .. n : Finish \in In(B[g])
    <3>1. 1 \in 1 .. n  BY <1>1
    <3> QED BY <1>8, <3>1
  <2> QED BY <2>1, <2>2, <2>3
<1> QED BY <1>2, <1>11, <1>12, <1>13 DEF IsWork, C

\* A major iteration predicts all entries before it images them.
LEMMA PredictAndImageIsWork ==
  ASSUME Good(settings), NEW E, IsEntryGroup(E, settings)
  PROVE  IsWork(PredictAndImage(E), Of("predict", In(E)) \cup Of("image", In(E)) \cup {Finish}, TableEntries(settings))
<1> DEFINE X == TableEntries(settings)
           squared == SquaredGroups(E)
           flat == FlattenSeq(squared)
           P == Of("predict", In(E)) \cup {Finish}
           M == Of("image", In(E)) \cup {Finish}
           W == Of("predict", In(E)) \cup Of("image", In(E)) \cup {Finish}
<1>1. AreSquared(squared, E, X)  BY SquaredGroupsOfAGroup
<1>2. PredictAndImage(E) =
        IF ParallelizePolarizations
        THEN IF ParallelizeChannels
             THEN Finished(Each("predict", flat)) \o Finished(Each("image", flat))
             ELSE BatchPerGroup(squared)
        ELSE BatchPerEntry("predict", squared) \o BatchPerEntry("image", squared)  BY DEF PredictAndImage
<1>3. ~ HasCross(settings) => \A e \in In(E) : e.polarization # "XY" /\ e.polarization # "YX"  BY GroupEntries
<1>4. P \cup M = W  OBVIOUS
<1>5. \A a \in P, b \in M : ~ Needs(b, a) /\ ~ (IsAdded(a) /\ a = b)  BY NeedsNothingLater
<1> HIDE DEF squared, X, P, M, W
<1>6. CASE ParallelizePolarizations /\ ParallelizeChannels
  <2>1. \A e \in In(E) : e.polarization # "XY" /\ e.polarization # "YX"  BY <1>3, <1>6 DEF ParallelizePolarizations
  <2>2. squared \in Seq(Seq(X)) /\ UNION {In(squared[g]) : g \in 1 .. Len(squared)} = In(E)  BY <1>1 DEF AreSquared
  <2>3. flat \in Seq(X) /\ In(flat) = In(E)  BY <2>2, InFlattened
  <2> HIDE DEF flat
  <2>4. "predict" \in TaskKinds /\ "image" \in TaskKinds /\ IsBatch("predict", flat) /\ IsBatch("image", flat)
    BY <2>1, <2>3, WithoutCrossABatch DEF TaskKinds
  <2>5. IsWork(Finished(Each("predict", flat)), P, X) /\ IsWork(Finished(Each("image", flat)), M, X)
    BY <2>3, <2>4, BatchIsWork DEF P, M
  <2>6. IsWork(Finished(Each("predict", flat)) \o Finished(Each("image", flat)), W, X)  BY <1>4, <1>5, <2>5, JoinWork
  <2> QED BY <1>2, <1>6, <2>6 DEF X, W
<1>7. CASE ParallelizePolarizations /\ ~ ParallelizeChannels
  <2>1. \A e \in In(E) : e.polarization # "XY" /\ e.polarization # "YX"  BY <1>3, <1>7 DEF ParallelizePolarizations
  <2>2. IsWork(BatchPerGroup(squared), W, X)  BY <1>1, <2>1, BatchPerGroupIsWork DEF W
  <2> QED BY <1>2, <1>7, <2>2 DEF X, W
<1>8. CASE ~ ParallelizePolarizations
  <2>1. IsWork(BatchPerEntry("predict", squared), P, X) /\ IsWork(BatchPerEntry("image", squared), M, X)
    BY <1>1, BatchPerEntryIsWork DEF P, M
  <2>2. IsWork(BatchPerEntry("predict", squared) \o BatchPerEntry("image", squared), W, X)
    BY <1>4, <1>5, <2>1, JoinWork
  <2> QED BY <1>2, <1>8, <2>2 DEF X, W
<1> QED BY <1>6, <1>7, <1>8

\* What ends the work on a group.
Ending(E, s, again) ==
  IF again THEN {[do |-> "deconvolve"]} ELSE IF s.makePSFOnly THEN {} ELSE Of("save", In(E))

\* The work ends with a deconvolution or with the images being saved,
LEMMA EndingIsWork ==
  ASSUME Good(settings), NEW E, IsEntryGroup(E, settings), NEW again \in BOOLEAN
  PROVE  IsWork(IF again THEN Just("deconvolve") ELSE Saving(E), Ending(E, settings, again), TableEntries(settings))
<1>1. E \in Seq(TableEntries(settings))  BY GroupEntries
<1>2. Saving(E) = IF settings.makePSFOnly THEN <<>> ELSE Each("save", E)  BY DEF Saving
<1>3. IsWork(Each("save", E), Of("save", In(E)), TableEntries(settings))  BY <1>1, SavingIsWork
<1>4. IsWork(<<>>, {}, TableEntries(settings))  BY NothingIsWork
<1>5. IsWork(Just("deconvolve"), {[do |-> "deconvolve"]}, TableEntries(settings))  BY JustIsWork
<1> QED BY <1>2, <1>3, <1>4, <1>5 DEF Ending

\* which hands out no task.
LEMMA EndingNeedsNothingLater ==
  ASSUME NEW E, NEW s, NEW again, NEW a, NEW b \in Ending(E, s, again)
  PROVE  ~ Needs(b, a) /\ ~ (IsAdded(a) /\ a = b)
<1>1. b.do \in {"deconvolve", "save"}  BY DEF Ending, Of
<1> QED BY <1>1 DEF Needs, IsAdded, IsTask, TaskKinds

\* Whether the first inversion is followed by a deconvolution, and what is inverted.
Restarted(s) == s.clean /\ ~ s.makePSFOnly
Inverted(E, s) == IF s.makePSFOnly THEN {} ELSE Of("invert", In(E))

\* All calls of an independent group up to its first deconvolution.
LEMMA ImageGroupIsWork ==
  ASSUME Good(settings), NEW E, IsEntryGroup(E, settings)
  PROVE  IsWork(ImageGroup(E),
                Of("psf", Started(E, settings)) \cup Inverted(E, settings) \cup {Finish}
                \cup Ending(E, settings, Restarted(settings) = TRUE),
                TableEntries(settings))
<1> DEFINE X == TableEntries(settings)
           again == Restarted(settings) = TRUE
           last == IF again THEN Just("deconvolve") ELSE Saving(E)
           P == Of("psf", Started(E, settings)) \cup {Finish}
           D == Ending(E, settings, again)
<1>1. ImageGroup(E) = (PSFs(E) \o FirstInversion(E)) \o last
  <2>1. again <=> (settings.clean /\ ~ settings.makePSFOnly)  BY DEF Restarted
  <2>2. ImageGroup(E) = (PSFs(E) \o FirstInversion(E))
            \o (IF settings.clean /\ ~ settings.makePSFOnly THEN Just("deconvolve") ELSE Saving(E))  BY DEF ImageGroup
  <2> HIDE DEF again
  <2> QED BY <2>1, <2>2
<1>2. again \in BOOLEAN  OBVIOUS
<1>3. IsWork(PSFs(E), P, X)  BY PSFsAreWork
<1>4. IsWork(last, D, X)  BY <1>2, EndingIsWork
<1>5. PICK calls :
        /\ IsWork(FirstInversion(E), calls, X)
        /\ ~ settings.makePSFOnly => calls = Of("invert", In(E)) \cup {Finish}
        /\ settings.makePSFOnly => calls \subseteq {Finish}  BY FirstInversionIsWork
<1>6. \A a \in P, b \in Of("invert", In(E)) \cup {Finish} : ~ Needs(b, a) /\ ~ (IsAdded(a) /\ a = b)
  BY NeedsNothingLater
<1>7. \A b \in calls : b \in Of("invert", In(E)) \cup {Finish}  BY <1>5
<1>8. P \cup calls = Of("psf", Started(E, settings)) \cup Inverted(E, settings) \cup {Finish}  BY <1>5 DEF Inverted
<1>9. \A a \in P \cup calls, b \in D : ~ Needs(b, a) /\ ~ (IsAdded(a) /\ a = b)  BY EndingNeedsNothingLater
<1> HIDE DEF X, last, again, P, D
<1>10. IsWork(PSFs(E) \o FirstInversion(E), P \cup calls, X)
  <2>1. \A a \in P, b \in calls : ~ Needs(b, a) /\ ~ (IsAdded(a) /\ a = b)  BY <1>6, <1>7
  <2> QED BY <1>3, <1>5, <2>1, JoinWork
<1>11. IsWork((PSFs(E) \o FirstInversion(E)) \o last, (P \cup calls) \cup D, X)  BY <1>4, <1>9, <1>10, JoinWork
<1> QED BY <1>1, <1>8, <1>11 DEF X, D, again

\* The work that follows a deconvolution.
Repeated(E, s) == IF s.mgainIsOne THEN {} ELSE Of("predict", In(E)) \cup Of("image", In(E)) \cup {Finish}

\* All calls from a deconvolution to the next one, or to the end.
LEMMA MajorIterationIsWork ==
  ASSUME Good(settings), NEW E, IsEntryGroup(E, settings), NEW again \in BOOLEAN
  PROVE  IsWork((IF settings.mgainIsOne THEN <<>> ELSE PredictAndImage(E))
                  \o (IF again THEN Just("deconvolve") ELSE Saving(E)),
                Repeated(E, settings) \cup Ending(E, settings, again), TableEntries(settings))
<1> DEFINE X == TableEntries(settings)
           first == IF settings.mgainIsOne THEN <<>> ELSE PredictAndImage(E)
           last == IF again THEN Just("deconvolve") ELSE Saving(E)
<1>1. IsWork(first, Repeated(E, settings), X)  BY PredictAndImageIsWork, NothingIsWork DEF Repeated
<1>2. IsWork(last, Ending(E, settings, again), X)  BY EndingIsWork
<1>3. \A a \in Repeated(E, settings), b \in Ending(E, settings, again) : ~ Needs(b, a) /\ ~ (IsAdded(a) /\ a = b)
  BY EndingNeedsNothingLater
<1> HIDE DEF X, first, last
<1>4. IsWork(first \o last, Repeated(E, settings) \cup Ending(E, settings, again), X)  BY <1>1, <1>2, <1>3, JoinWork
<1> QED BY <1>4 DEF first, last, X

\* Short sequences.
LEMMA TwoAndOne ==
  ASSUME NEW a, NEW b, NEW c
  PROVE  <<a, b>> \o <<c>> = <<a, b, c>>
<1> DEFINE S == {a, b, c}
           s == <<a, b>>
           t == <<c>>
           u == <<a, b, c>>
<1>1. a \in S /\ b \in S /\ c \in S  OBVIOUS
<1> HIDE DEF S
<1>2. s \in Seq(S) /\ t \in Seq(S) /\ Len(s) = 2 /\ Len(t) = 1 /\ s[1] = a /\ s[2] = b /\ t[1] = c  BY <1>1
<1>3. u \in Seq(S) /\ Len(u) = 3 /\ u[1] = a /\ u[2] = b /\ u[3] = c  BY <1>1
<1> HIDE DEF s, t, u
<1>4. /\ s \o t \in Seq(S) /\ Len(s \o t) = Len(s) + Len(t)
      /\ \A i \in 1 .. Len(s) + Len(t) : (s \o t)[i] = IF i <= Len(s) THEN s[i] ELSE t[i - Len(s)]
  BY <1>2, ConcatProperties
<1>5. Len(s \o t) = 3  BY <1>2, <1>4
<1>6. \A i \in 1 .. 3 : i = 1 \/ i = 2 \/ i = 3  OBVIOUS
<1>7. \A i \in 1 .. 3 : (s \o t)[i] = u[i]  BY <1>2, <1>3, <1>4, <1>6
<1>8. s \o t = u  BY <1>3, <1>4, <1>5, <1>7, SeqEqual
<1> QED BY <1>8 DEF s, t, u

\* A second part.
LEMMA AppendToOne ==
  ASSUME NEW a, NEW b
  PROVE  Append(<<a>>, b) = <<a, b>>
<1> DEFINE S == {a, b}
           s == <<a>>
           u == <<a, b>>
<1>1. a \in S /\ b \in S  OBVIOUS
<1> HIDE DEF S
<1>2. s \in Seq(S) /\ Len(s) = 1 /\ s[1] = a  BY <1>1
<1>3. u \in Seq(S) /\ Len(u) = 2 /\ u[1] = a /\ u[2] = b  BY <1>1
<1> HIDE DEF s, u
<1>4. /\ Append(s, b) \in Seq(S) /\ Len(Append(s, b)) = Len(s) + 1
      /\ \A i \in 1 .. Len(s) : Append(s, b)[i] = s[i]
      /\ Append(s, b)[Len(s) + 1] = b  BY <1>1, <1>2, AppendProperties
<1>5. \A i \in 1 .. 2 : i = 1 \/ i = 2  OBVIOUS
<1>6. Len(Append(s, b)) = 2 /\ \A i \in 1 .. 2 : Append(s, b)[i] = u[i]  BY <1>2, <1>3, <1>4, <1>5
<1>7. Append(s, b) = u  BY <1>3, <1>4, <1>6, SeqEqual
<1> QED BY <1>7 DEF s, u

\* Predicting one entry.
LEMMA PredictGroupOfOne ==
  ASSUME NEW e
  PROVE  PredictGroup(<<e>>) =
           <<[do |-> "readModel", entry |-> e], [do |-> "predict", entry |-> e], [do |-> "finish"]>>
<1> DEFINE C == Calls({e})
           two == <<[do |-> "readModel", entry |-> e], [do |-> "predict", entry |-> e]>>
           seqs == [i \in 1 .. Len(<<e>>) |->
                      <<[do |-> "readModel", entry |-> <<e>>[i]], [do |-> "predict", entry |-> <<e>>[i]]>>]
<1>1. Len(<<e>>) = 1 /\ <<e>>[1] = e  OBVIOUS
<1>2. seqs = [i \in 1 .. 1 |-> two]
  <2>1. \A i \in 1 .. 1 : i = 1  OBVIOUS
  <2>2. \A i \in 1 .. 1 : <<e>>[i] = e  BY <1>1, <2>1
  <2> QED BY <1>1, <2>2
<1>3. two \in Seq(C)
  <2>1. [do |-> "readModel", entry |-> e] \in C /\ [do |-> "predict", entry |-> e] \in C  BY DEF Calls
  <2> HIDE DEF C
  <2> QED BY <2>1
<1> DEFINE const == [i \in 1 .. 1 |-> two]
<1> HIDE DEF two, C
<1>4. const \in Seq(Seq(C)) /\ Len(const) = 1 /\ const[1] = two
  <2>1. const \in [1 .. 1 -> Seq(C)] /\ DOMAIN const = 1 .. 1 /\ const[1] = two  BY <1>3
  <2> DEFINE T == Seq(C)
             n == 1
  <2> HIDE DEF const, T
  <2>2. const \in [1 .. n -> T] /\ DOMAIN const = 1 .. n /\ n \in Nat  BY <2>1 DEF T
  <2>3. const \in Seq(T) /\ Len(const) = n
    <3> HIDE DEF n
    <3> QED BY <2>2
  <2> QED BY <2>1, <2>3 DEF T
<1> HIDE DEF const
<1>5. FlattenSeq(const) = two
  <2>1. CanFlatten(const, C)  BY <1>4, FlattenIsStepwise
  <2>2. PICK fl : IsFlattening(fl, const, C)  BY <2>1 DEF CanFlatten
  <2>3. fl[1] = const[1] /\ FlattenSeq(const) = fl[Len(const)]  BY <2>2 DEF IsFlattening
  <2> QED BY <1>4, <2>3
<1>6. PredictGroup(<<e>>) = FlattenSeq(seqs) \o Just("finish")  BY DEF PredictGroup
<1>7. PredictGroup(<<e>>) = two \o <<[do |-> "finish"]>>
  <2>1. seqs = const  BY <1>2 DEF const
  <2> HIDE DEF seqs
  <2> QED BY <1>5, <1>6, <2>1 DEF Just
<1>8. \A a, b, c : <<a, b>> \o <<c>> = <<a, b, c>>  BY TwoAndOne
<1> QED BY <1>7, <1>8, Zenon DEF two

----
\* What is left of the calls, and those that were accepted before.
LEMMA HeadAndTail ==
  ASSUME NEW X, NEW R \in Seq(X), R # <<>>
  PROVE  /\ Len(R) \in Nat \ {0} /\ Head(R) = R[1] /\ Head(R) \in X
         /\ Tail(R) \in Seq(X) /\ Len(Tail(R)) = Len(R) - 1
         /\ \A i \in 1 .. Len(R) - 1 : Tail(R)[i] = R[i + 1]
         /\ In(R) = {Head(R)} \cup In(Tail(R))
<1>1. /\ Len(R) \in Nat \ {0} /\ Head(R) = R[1] /\ Head(R) \in X
      /\ Tail(R) \in Seq(X) /\ Len(Tail(R)) = Len(R) - 1
      /\ \A i \in 1 .. Len(Tail(R)) : Tail(R)[i] = R[i + 1]  BY HeadTailProperties, LenProperties
<1>2. \A i \in 1 .. Len(R) - 1 : Tail(R)[i] = R[i + 1]  BY <1>1
<1>3. ASSUME NEW x \in In(R) PROVE x \in {Head(R)} \cup In(Tail(R))
  <2>1. PICK i \in 1 .. Len(R) : x = R[i]  BY DEF In
  <2>2. CASE i = 1  BY <1>1, <2>1, <2>2
  <2>3. CASE i # 1
    <3>1. i - 1 \in 1 .. Len(R) - 1 /\ (i - 1) + 1 = i  BY <1>1, <2>3
    <3>2. x = Tail(R)[i - 1] /\ i - 1 \in 1 .. Len(Tail(R))  BY <1>1, <1>2, <2>1, <3>1
    <3> QED BY <3>2 DEF In
  <2> QED BY <2>2, <2>3
<1>4. ASSUME NEW x \in {Head(R)} \cup In(Tail(R)) PROVE x \in In(R)
  <2>1. CASE x = Head(R)
    <3>1. 1 \in 1 .. Len(R)  BY <1>1
    <3> QED BY <1>1, <2>1, <3>1 DEF In
  <2>2. CASE x \in In(Tail(R))
    <3>1. PICK i \in 1 .. Len(Tail(R)) : x = Tail(R)[i]  BY <2>2 DEF In
    <3>2. i + 1 \in 1 .. Len(R) /\ x = R[i + 1]  BY <1>1, <3>1
    <3> QED BY <3>2 DEF In
  <2> QED BY <2>1, <2>2
<1>5. In(R) = {Head(R)} \cup In(Tail(R))  BY <1>3, <1>4
<1> QED BY <1>1, <1>2, <1>5

\* An accepted call and the calls that are made later.
Ahead(c, R) ==
  /\ IsTask(c)
  /\ FinishBetween(R, 0, Len(R) + 1)
  /\ \A j \in 1 .. Len(R) : Needs(c, R[j]) => FinishBetween(R, 0, j)
  /\ \A j \in 1 .. Len(R) : ~ Needs(R[j], c) /\ (IsAdded(c) => R[j] # c)

InOrder(R, calls) ==
  /\ Orderly(R)
  /\ \A t \in DOMAIN calls : Ahead(calls[t], R)
  /\ \A t, u \in DOMAIN calls :
       ~ Needs(calls[t], calls[u]) /\ (IsAdded(calls[t]) /\ calls[t] = calls[u] => t = u)

\* Waiting in the rest of the calls.
LEMMA FinishInTail ==
  ASSUME NEW X, NEW R \in Seq(X), R # <<>>, NEW i \in Nat, NEW j \in Nat, FinishBetween(R, i, j),
         i # 0 \/ Head(R).do # "finish"
  PROVE  FinishBetween(Tail(R), IF i = 0 THEN 0 ELSE i - 1, j - 1)
<1>1. /\ Len(R) \in Nat \ {0} /\ Head(R) = R[1] /\ Len(Tail(R)) = Len(R) - 1
      /\ \A k \in 1 .. Len(R) - 1 : Tail(R)[k] = R[k + 1]  BY HeadAndTail
<1>2. PICK k \in 1 .. Len(R) : i < k /\ k < j /\ R[k].do = "finish"  BY DEF FinishBetween
<1>3. k # 1  BY <1>1, <1>2
<1>4. k - 1 \in 1 .. Len(R) - 1 /\ (k - 1) + 1 = k  BY <1>1, <1>3
<1>5. k - 1 \in 1 .. Len(Tail(R)) /\ Tail(R)[k - 1].do = "finish"  BY <1>1, <1>2, <1>4
<1>6. (IF i = 0 THEN 0 ELSE i - 1) < k - 1 /\ k - 1 < j - 1  BY <1>2, <1>3
<1> QED BY <1>5, <1>6 DEF FinishBetween

\* The rest of calls in order is in order.
LEMMA TailIsOrderly ==
  ASSUME NEW X, NEW R \in Seq(X), R # <<>>, Orderly(R)
  PROVE  Orderly(Tail(R))
<1> DEFINE T == Tail(R)
<1>1. /\ Len(R) \in Nat \ {0} /\ Len(T) = Len(R) - 1
      /\ \A k \in 1 .. Len(R) - 1 : T[k] = R[k + 1]  BY HeadAndTail
<1>2. \A k \in 1 .. Len(T) : k + 1 \in 1 .. Len(R) /\ T[k] = R[k + 1] /\ k \in Nat /\ k + 1 \in Nat /\ k + 1 # 0 /\ (k + 1) - 1 = k
  BY <1>1
<1>3. ASSUME NEW i \in Nat \ {0}, NEW j \in Nat, FinishBetween(R, i, j) PROVE FinishBetween(T, i - 1, j - 1)
  <2>1. i # 0 /\ i \in Nat  OBVIOUS
  <2> QED BY <1>3, <2>1, FinishInTail
<1> HIDE DEF T
<1>4. ASSUME NEW i \in 1 .. Len(T), NEW j \in 1 .. Len(T), Needs(T[i], T[j]) PROVE FinishBetween(T, i, j)
  <2>1. Needs(R[i + 1], R[j + 1])  BY <1>2, <1>4
  <2>2. FinishBetween(R, i + 1, j + 1)  BY <1>2, <2>1 DEF Orderly
  <2>3. FinishBetween(T, (i + 1) - 1, (j + 1) - 1)  BY <1>2, <1>3, <2>2
  <2> QED BY <1>2, <2>3
<1>5. ASSUME NEW i \in 1 .. Len(T), IsTask(T[i]) PROVE FinishBetween(T, i, Len(T) + 1)
  <2>1. IsTask(R[i + 1])  BY <1>2, <1>5
  <2>2. FinishBetween(R, i + 1, Len(R) + 1)  BY <1>2, <2>1 DEF Orderly
  <2>3. Len(R) + 1 \in Nat /\ (Len(R) + 1) - 1 = Len(T) + 1  BY <1>1
  <2>4. FinishBetween(T, (i + 1) - 1, (Len(R) + 1) - 1)  BY <1>2, <1>3, <2>2, <2>3
  <2> QED BY <1>2, <2>3, <2>4
<1>6. ASSUME NEW i \in 1 .. Len(T), NEW j \in 1 .. Len(T), IsAdded(T[i]), T[i] = T[j] PROVE i = j
  <2>1. i + 1 = j + 1  BY <1>2, <1>6 DEF Orderly
  <2> QED BY <1>2, <2>1
<1>7. Orderly(T)  BY <1>4, <1>5, <1>6 DEF Orderly
<1> QED BY <1>7 DEF T

\* A call that was handed out stays ahead of the rest while nobody waits.
LEMMA StillAhead ==
  ASSUME NEW X, NEW R \in Seq(X), R # <<>>, NEW c, Ahead(c, R), Head(R).do # "finish"
  PROVE  Ahead(c, Tail(R)) /\ ~ Needs(c, Head(R))
<1> DEFINE T == Tail(R)
<1>1. /\ Len(R) \in Nat \ {0} /\ Head(R) = R[1] /\ Len(T) = Len(R) - 1
      /\ \A k \in 1 .. Len(R) - 1 : T[k] = R[k + 1]  BY HeadAndTail
<1>2. \A k \in 1 .. Len(T) : k + 1 \in 1 .. Len(R) /\ T[k] = R[k + 1] /\ k + 1 \in Nat /\ (k + 1) - 1 = k  BY <1>1
<1>3. ASSUME NEW j \in Nat, FinishBetween(R, 0, j) PROVE FinishBetween(T, 0, j - 1)  BY <1>3, FinishInTail
<1> HIDE DEF T
<1>4. FinishBetween(T, 0, Len(T) + 1)
  <2>1. Len(R) + 1 \in Nat /\ (Len(R) + 1) - 1 = Len(T) + 1  BY <1>1
  <2>2. FinishBetween(R, 0, Len(R) + 1)  BY DEF Ahead
  <2>3. FinishBetween(T, 0, (Len(R) + 1) - 1)  BY <1>3, <2>1, <2>2
  <2> QED BY <2>1, <2>3
<1>5. ASSUME NEW j \in 1 .. Len(T), Needs(c, T[j]) PROVE FinishBetween(T, 0, j)
  <2>1. FinishBetween(R, 0, j + 1)  BY <1>2, <1>5 DEF Ahead
  <2>2. FinishBetween(T, 0, (j + 1) - 1)  BY <1>2, <1>3, <2>1
  <2> QED BY <1>2, <2>2
<1>6. \A j \in 1 .. Len(T) : ~ Needs(T[j], c) /\ (IsAdded(c) => T[j] # c)  BY <1>2 DEF Ahead
<1>7. ~ Needs(c, Head(R))
  <2> SUFFICES ASSUME Needs(c, R[1]) PROVE FALSE  BY <1>1
  <2>1. 1 \in 1 .. Len(R)  BY <1>1
  <2>2. FinishBetween(R, 0, 1)  BY <2>1 DEF Ahead
  <2>3. PICK k \in 1 .. Len(R) : 0 < k /\ k < 1  BY <2>2 DEF FinishBetween
  <2> QED BY <1>1, <2>3
<1>8. Ahead(c, T)  BY <1>4, <1>5, <1>6 DEF Ahead
<1> QED BY <1>7, <1>8 DEF T

\* The first call is ahead of the others.
LEMMA HeadIsAhead ==
  ASSUME NEW X, NEW R \in Seq(X), R # <<>>, Orderly(R), IsTask(Head(R))
  PROVE  Ahead(Head(R), Tail(R))
<1> DEFINE T == Tail(R)
           c == Head(R)
<1>1. /\ Len(R) \in Nat \ {0} /\ c = R[1] /\ Len(T) = Len(R) - 1
      /\ \A k \in 1 .. Len(R) - 1 : T[k] = R[k + 1]  BY HeadAndTail
<1>2. \A k \in 1 .. Len(T) : k + 1 \in 1 .. Len(R) /\ T[k] = R[k + 1] /\ k + 1 \in Nat /\ (k + 1) - 1 = k /\ k + 1 # 1 /\ ~ (k + 1 < 1)
  BY <1>1
<1>3. 1 \in 1 .. Len(R) /\ 1 - 1 = 0  BY <1>1
<1>4. ASSUME NEW j \in Nat, FinishBetween(R, 1, j) PROVE FinishBetween(T, 0, j - 1)
  <2>1. 1 \in Nat /\ 1 # 0 /\ 1 - 1 = 0  OBVIOUS
  <2>2. FinishBetween(T, IF 1 = 0 THEN 0 ELSE 1 - 1, j - 1)  BY <1>4, <2>1, FinishInTail
  <2> QED BY <2>1, <2>2
<1>5. IsTask(c)  OBVIOUS
<1> HIDE DEF T, c
<1>6. FinishBetween(T, 0, Len(T) + 1)
  <2>1. Len(R) + 1 \in Nat /\ (Len(R) + 1) - 1 = Len(T) + 1  BY <1>1
  <2>2. FinishBetween(R, 1, Len(R) + 1)  BY <1>1, <1>3, <1>5 DEF Orderly
  <2>3. FinishBetween(T, 0, (Len(R) + 1) - 1)  BY <1>4, <2>1, <2>2
  <2> QED BY <2>1, <2>3
<1>7. ASSUME NEW j \in 1 .. Len(T), Needs(c, T[j]) PROVE FinishBetween(T, 0, j)
  <2>1. FinishBetween(R, 1, j + 1)  BY <1>1, <1>2, <1>3, <1>7 DEF Orderly
  <2>2. FinishBetween(T, 0, (j + 1) - 1)  BY <1>2, <1>4, <2>1
  <2> QED BY <1>2, <2>2
<1>8. ASSUME NEW j \in 1 .. Len(T) PROVE ~ Needs(T[j], c)
  <2> SUFFICES ASSUME Needs(T[j], c) PROVE FALSE  OBVIOUS
  <2>1. FinishBetween(R, j + 1, 1)  BY <1>1, <1>2, <1>3 DEF Orderly
  <2>2. PICK k \in 1 .. Len(R) : j + 1 < k /\ k < 1  BY <2>1 DEF FinishBetween
  <2> QED BY <1>1, <2>2
<1>9. ASSUME NEW j \in 1 .. Len(T), IsAdded(c), T[j] = c PROVE FALSE
  <2>1. j + 1 = 1  BY <1>1, <1>2, <1>3, <1>9 DEF Orderly
  <2> QED BY <1>2, <2>1
<1>10. Ahead(c, T)  BY <1>5, <1>6, <1>7, <1>8, <1>9 DEF Ahead
<1> QED BY <1>10 DEF T, c

\* The calls that have not been called back: those still to make and those outstanding.
Work(R, calls) == In(R) \cup {calls[t] : t \in DOMAIN calls}

\* The next call is accepted.
WithCall(calls, t, c) == [u \in DOMAIN calls \cup {t} |-> IF u = t THEN c ELSE calls[u]]

\* Handing out the next task keeps the order and the work that is left.
LEMMA AcceptedInOrder ==
  ASSUME NEW X, NEW R \in Seq(X), R # <<>>, NEW calls, InOrder(R, calls), IsTask(Head(R)),
         NEW t, t \notin DOMAIN calls
  PROVE  /\ InOrder(Tail(R), WithCall(calls, t, Head(R)))
         /\ Work(Tail(R), WithCall(calls, t, Head(R))) = Work(R, calls)
<1> DEFINE T == Tail(R)
           c == Head(R)
           more == WithCall(calls, t, c)
           D == DOMAIN calls
<1>1. In(R) = {c} \cup In(T)  BY HeadAndTail
<1>2. DOMAIN more = D \cup {t} /\ more[t] = c /\ \A u \in D : more[u] = calls[u]  BY DEF WithCall
<1>3. c.do # "finish"  BY DEF IsTask, TaskKinds
<1>4. Orderly(T)  BY TailIsOrderly DEF InOrder
<1>5. Ahead(c, T)  BY HeadIsAhead DEF InOrder
<1>6. \A u \in D : Ahead(calls[u], R)  BY DEF InOrder
<1>7. \A u \in D : Ahead(calls[u], T) /\ ~ Needs(calls[u], c)  BY <1>3, <1>6, StillAhead
<1>8. \A u \in D : ~ Needs(c, calls[u]) /\ (IsAdded(calls[u]) => c # calls[u])
  <2>1. 1 \in 1 .. Len(R) /\ c = R[1]  BY HeadAndTail
  <2> QED BY <1>6, <2>1 DEF Ahead
<1>9. \A u, v \in D : ~ Needs(calls[u], calls[v]) /\ (IsAdded(calls[u]) /\ calls[u] = calls[v] => u = v)
  BY DEF InOrder
<1>10. ~ Needs(c, c)  BY DEF Needs, IsTask, TaskKinds
<1> HIDE DEF T, c, more
<1>11. \A u \in DOMAIN more : Ahead(more[u], T)  BY <1>2, <1>5, <1>7
<1>12. ASSUME NEW u \in DOMAIN more, NEW v \in DOMAIN more
       PROVE  ~ Needs(more[u], more[v]) /\ (IsAdded(more[u]) /\ more[u] = more[v] => u = v)
  <2>1. CASE u \in D /\ v \in D  BY <1>2, <1>9, <2>1
  <2>2. CASE u = t /\ v \in D
    <3>1. more[u] = c /\ more[v] = calls[v]  BY <1>2, <2>2
    <3>2. IsAdded(c) /\ c = calls[v] => FALSE  BY <1>8, <2>2
    <3> QED BY <1>8, <2>2, <3>1, <3>2
  <2>3. CASE u \in D /\ v = t
    <3>1. more[v] = c /\ more[u] = calls[u]  BY <1>2, <2>3
    <3> QED BY <1>7, <1>8, <2>3, <3>1
  <2>4. CASE u = t /\ v = t  BY <1>2, <1>10, <2>4
  <2> QED BY <1>2, <2>1, <2>2, <2>3, <2>4
<1>13. InOrder(T, more)  BY <1>4, <1>11, <1>12 DEF InOrder
<1>14. {more[u] : u \in DOMAIN more} = {calls[u] : u \in D} \cup {c}  BY <1>2
<1>15. Work(T, more) = Work(R, calls)  BY <1>1, <1>14 DEF Work
<1> QED BY <1>13, <1>15 DEF T, c, more

\* A call is over.
WithoutCall(calls, t) == [u \in DOMAIN calls \ {t} |-> calls[u]]

\* A callback, of whichever task, takes its call from the work that is left: nothing that is left
\* was needed by it, and a call that adds an image is not left a second time.
LEMMA CalledBackInOrder ==
  ASSUME NEW R, NEW calls, InOrder(R, calls), NEW t \in DOMAIN calls
  PROVE  /\ InOrder(R, WithoutCall(calls, t))
         /\ Work(R, WithoutCall(calls, t)) \subseteq Work(R, calls)
         /\ Work(R, calls) \subseteq Work(R, WithoutCall(calls, t)) \cup {calls[t]}
         /\ calls[t] \in Work(R, calls)
         /\ IsTask(calls[t])
         /\ IsAdded(calls[t]) => calls[t] \notin Work(R, WithoutCall(calls, t))
         /\ \A c \in Work(R, calls) : ~ Needs(c, calls[t])
<1> DEFINE less == WithoutCall(calls, t)
           D == DOMAIN calls
<1>1. DOMAIN less = D \ {t} /\ \A u \in D \ {t} : less[u] = calls[u]  BY DEF WithoutCall
<1>2. /\ Orderly(R)
      /\ \A u \in D : Ahead(calls[u], R)
      /\ \A u, v \in D : ~ Needs(calls[u], calls[v]) /\ (IsAdded(calls[u]) /\ calls[u] = calls[v] => u = v)
  BY DEF InOrder
<1> HIDE DEF less
<1>3. InOrder(R, less)  BY <1>1, <1>2 DEF InOrder
<1>4. {less[u] : u \in DOMAIN less} \subseteq {calls[u] : u \in D}  BY <1>1
<1>5. {calls[u] : u \in D} \subseteq {less[u] : u \in DOMAIN less} \cup {calls[t]}  BY <1>1
<1>6. IsTask(calls[t]) /\ \A j \in 1 .. Len(R) : ~ Needs(R[j], calls[t]) /\ (IsAdded(calls[t]) => R[j] # calls[t])
  BY <1>2 DEF Ahead
<1>7. ASSUME IsAdded(calls[t]), calls[t] \in Work(R, less) PROVE FALSE
  <2>1. calls[t] \notin In(R)  BY <1>6, <1>7 DEF In
  <2>2. PICK u \in DOMAIN less : calls[t] = less[u]  BY <1>7, <2>1 DEF Work
  <2>3. u \in D /\ u # t /\ calls[t] = calls[u]  BY <1>1, <2>2
  <2> QED BY <1>2, <1>7, <2>3
<1>8. ASSUME NEW c \in Work(R, calls) PROVE ~ Needs(c, calls[t])
  <2>1. CASE c \in In(R)  BY <1>6, <2>1 DEF In
  <2>2. CASE c \in {calls[u] : u \in D}  BY <1>2, <2>2
  <2> QED BY <2>1, <2>2 DEF Work
<1>9. /\ Work(R, less) \subseteq Work(R, calls)
      /\ Work(R, calls) \subseteq Work(R, less) \cup {calls[t]}
      /\ calls[t] \in Work(R, calls)  BY <1>4, <1>5 DEF Work
<1> QED BY <1>3, <1>6, <1>7, <1>8, <1>9 DEF less

\* Before a deconvolution or the saving of an image, and at the end.
LEMMA NothingIsPending ==
  ASSUME NEW X, NEW R \in Seq(X), NEW calls, InOrder(R, calls),
         R = <<>> \/ Head(R).do \in {"deconvolve", "save"}
  PROVE  DOMAIN calls = {} /\ \A c \in Work(R, calls) : ~ IsTask(c)
<1>1. CASE R = <<>>
  <2>1. Len(R) = 0  BY <1>1
  <2>2. \A j \in 1 .. Len(R) : FALSE  BY <2>1
  <2>3. DOMAIN calls = {}  BY <2>2 DEF InOrder, Ahead, FinishBetween
  <2> QED BY <2>2, <2>3 DEF Work, In
<1>2. CASE R # <<>> /\ Head(R).do \in {"deconvolve", "save"}
  <2>1. 1 \in 1 .. Len(R) /\ Head(R) = R[1] /\ Len(R) \in Nat  BY <1>2, HeadAndTail
  <2>2. ASSUME NEW t \in DOMAIN calls PROVE FALSE
    <3>1. Ahead(calls[t], R)  BY DEF InOrder
    <3>2. Head(R).do # "finish"  BY <1>2
    <3>3. ~ Needs(calls[t], Head(R))  BY <1>2, <3>1, <3>2, StillAhead
    <3> QED BY <1>2, <3>1, <3>3 DEF Needs, Ahead
  <2>3. ASSUME NEW j \in 1 .. Len(R), IsTask(R[j]) PROVE FALSE
    <3>1. Needs(R[j], R[1])  BY <1>2, <2>1, <2>3 DEF Needs
    <3>2. FinishBetween(R, j, 1)  BY <2>1, <3>1 DEF InOrder, Orderly
    <3>3. PICK k \in 1 .. Len(R) : j < k /\ k < 1  BY <3>2 DEF FinishBetween
    <3> QED BY <2>1, <3>3
  <2> QED BY <2>2, <2>3 DEF Work, In
<1> QED BY <1>1, <1>2

\* At the start of the work.
LEMMA WorkInOrder ==
  ASSUME NEW X, NEW R, NEW S, NEW calls, IsWork(R, S, X), DOMAIN calls = {}
  PROVE  InOrder(R, calls) /\ Work(R, calls) = S  BY DEF IsWork, InOrder, Work

----
\* The image sets.
IsImageSet(set) ==
  set = [polCount |-> set.polCount, freqCount |-> set.freqCount, image |-> set.image, files |-> set.files]

\* An image that was stored is loaded.
LEMMA StoredIsLoaded ==
  ASSUME NEW set, IsImageSet(set), NEW image, NEW pol, NEW f
  PROVE  /\ IsImageSet(Store(set, image, pol, f))
         /\ Store(set, image, pol, f).polCount = set.polCount
         /\ Store(set, image, pol, f).freqCount = set.freqCount
         /\ Load(Store(set, image, pol, f), pol, f) = image
<1> DEFINE more == [g \in DOMAIN set.files \cup {FileOf(set, pol, f)} |->
                      IF g = FileOf(set, pol, f) THEN image ELSE set.files[g]]
           new == Store(set, image, pol, f)
<1>1. CASE InMemory(set)
  <2>1. new = [polCount |-> set.polCount, freqCount |-> set.freqCount, image |-> image, files |-> set.files]
    BY <1>1 DEF Store, IsImageSet
  <2> HIDE DEF new
  <2>2. IsImageSet(new) /\ new.polCount = set.polCount /\ new.freqCount = set.freqCount /\ new.image = image
    BY <2>1 DEF IsImageSet
  <2>3. InMemory(new)  BY <1>1, <2>2 DEF InMemory
  <2>4. Load(new, pol, f) = image  BY <2>2, <2>3 DEF Load
  <2> QED BY <2>2, <2>4 DEF new
<1>2. CASE ~ InMemory(set)
  <2>1. new = [polCount |-> set.polCount, freqCount |-> set.freqCount, image |-> set.image, files |-> more]
    BY <1>2 DEF Store, IsImageSet
  <2>2. FileOf(set, pol, f) \in DOMAIN more /\ more[FileOf(set, pol, f)] = image  OBVIOUS
  <2> HIDE DEF new, more
  <2>3. IsImageSet(new) /\ new.polCount = set.polCount /\ new.freqCount = set.freqCount /\ new.files = more
    BY <2>1 DEF IsImageSet
  <2>4. ~ InMemory(new)  BY <1>2, <2>3 DEF InMemory
  <2>5. FileOf(new, pol, f) = FileOf(set, pol, f)  BY <2>3 DEF FileOf
  <2>6. Load(new, pol, f) = image  BY <2>2, <2>3, <2>4, <2>5 DEF Load
  <2> QED BY <2>3, <2>6 DEF new
<1> QED BY <1>1, <1>2

\* Another file.
LEMMA OthersAreKept ==
  ASSUME NEW set, IsImageSet(set), ~ InMemory(set), NEW image, NEW p, NEW f, NEW q, NEW g,
         FileOf(set, p, f) # FileOf(set, q, g)
  PROVE  Load(Store(set, image, p, f), q, g) = Load(set, q, g)
<1> DEFINE more == [h \in DOMAIN set.files \cup {FileOf(set, p, f)} |->
                      IF h = FileOf(set, p, f) THEN image ELSE set.files[h]]
           new == Store(set, image, p, f)
           file == FileOf(set, q, g)
<1>1. new = [polCount |-> set.polCount, freqCount |-> set.freqCount, image |-> set.image, files |-> more]
  BY DEF Store, IsImageSet
<1>2. /\ file \in DOMAIN more <=> file \in DOMAIN set.files
      /\ file \in DOMAIN set.files => more[file] = set.files[file]  OBVIOUS
<1> HIDE DEF new, more
<1>3. new.polCount = set.polCount /\ new.freqCount = set.freqCount /\ new.files = more  BY <1>1
<1>4. ~ InMemory(new) /\ FileOf(new, q, g) = file  BY <1>3 DEF InMemory, FileOf
<1> HIDE DEF file
<1>5. Load(new, q, g) = IF file \in DOMAIN more THEN more[file] ELSE NothingStored  BY <1>3, <1>4 DEF Load
<1>6. Load(set, q, g) = IF file \in DOMAIN set.files THEN set.files[file] ELSE NothingStored  BY DEF Load, file
<1>7. Load(new, q, g) = Load(set, q, g)  BY <1>2, <1>5, <1>6
<1> QED BY <1>7 DEF new

\* A set for the images of the table.
HoldsTable(set, s) == IsImageSet(set) /\ set.polCount = Pols(s) /\ set.freqCount = s.channelsOut

\* The image of an entry.
ImageIn(set, e) == Load(set, e.polarization, e.outputChannelIndex)
Put(set, image, e) == Store(set, image, e.polarization, e.outputChannelIndex)

\* Storing the image of an entry leaves the images of all others alone.
LEMMA ImagesOfEntries ==
  ASSUME NEW s, Good(s), NEW set, HoldsTable(set, s), NEW image, NEW e \in TableEntries(s)
  PROVE  /\ HoldsTable(Put(set, image, e), s)
         /\ ImageIn(Put(set, image, e), e) = image
         /\ \A f \in TableEntries(s) : f # e => ImageIn(Put(set, image, e), f) = ImageIn(set, f)
<1>1. HoldsTable(Put(set, image, e), s) /\ ImageIn(Put(set, image, e), e) = image
  BY StoredIsLoaded DEF HoldsTable, Put, ImageIn
<1>2. ASSUME NEW f \in TableEntries(s), f # e PROVE ImageIn(Put(set, image, e), f) = ImageIn(set, f)
  <2>1. /\ \E p \in 1 .. Pols(s) : e.polarization = s.polarizations[p]
        /\ \E p \in 1 .. Pols(s) : f.polarization = s.polarizations[p]
        /\ e.outputChannelIndex \in 1 .. s.channelsOut /\ f.outputChannelIndex \in 1 .. s.channelsOut
        /\ ~ (e.polarization = f.polarization /\ e.outputChannelIndex = f.outputChannelIndex)  BY <1>2, EntryFacts
  <2>2. s.channelsOut = 1 => e.outputChannelIndex = f.outputChannelIndex  BY <2>1
  <2>3. Pols(s) = 1 => e.polarization = f.polarization
    <3>1. Pols(s) = 1 => \A p, q \in 1 .. Pols(s) : p = q  OBVIOUS
    <3> QED BY <2>1, <3>1
  <2>4. ~ InMemory(set)  BY <2>1, <2>2, <2>3 DEF InMemory, HoldsTable
  <2>5. FileOf(set, e.polarization, e.outputChannelIndex) # FileOf(set, f.polarization, f.outputChannelIndex)
    BY <2>1, <2>2 DEF FileOf, HoldsTable
  <2> QED BY <2>4, <2>5, OthersAreKept DEF HoldsTable, Put, ImageIn
<1> QED BY <1>1, <1>2

----
\* Storing the images of a group, one after the other.
OneMore(set, images, e) ==
  IF HasImages(e) THEN Put(set, images[e], e) ELSE set

IsStoring(st, set, images, E) ==
  /\ st[0] = set
  /\ \A i \in 1 .. Len(E) : st[i] = OneMore(st[i - 1], images, E[i])

CanStore(all, set, images, E) == \E st : IsStoring(st, set, images, E) /\ all = st[Len(E)]

\* The recursion of StoreAll can be followed from step to step.
LEMMA StoreAllIsStepwise ==
  ASSUME Len(GroupTable) \in Nat, NEW set, NEW images
  PROVE  CanStore(StoreAll(set, images), set, images, GroupTable)
<1> DEFINE E == GroupTable
           n == Len(E)
           Is(f, m) == f = [i \in 0 .. m |-> IF i = 0 THEN set ELSE OneMore(f[i - 1], images, E[i])]
           P == {m \in 0 .. n : \E f : Is(f, m)}
           st == CHOOSE f : Is(f, n)
<1>1. n \in Nat  OBVIOUS
<1>2. StoreAll(set, images) = st[n]  BY DEF StoreAll, OneMore, Put
<1> HIDE DEF n, E
<1>3. 0 \in P
  <2> DEFINE f == [i \in 0 .. 0 |-> set]
  <2>1. \A i \in 0 .. 0 : i = 0  OBVIOUS
  <2>2. f = [i \in 0 .. 0 |-> IF i = 0 THEN set ELSE OneMore(f[i - 1], images, E[i])]  BY <2>1
  <2> HIDE DEF f
  <2>3. Is(f, 0)  BY <2>2
  <2> HIDE DEF Is
  <2> QED BY <1>1, <2>3
<1>4. ASSUME NEW m \in 0 .. n - 1, m \in P PROVE m + 1 \in P
  <2>1. PICK f : Is(f, m)  BY <1>4
  <2> DEFINE g == [i \in 0 .. m + 1 |-> IF i = m + 1 THEN OneMore(f[i - 1], images, E[i]) ELSE f[i]]
  <2>2. \A i \in 0 .. m : f[i] = IF i = 0 THEN set ELSE OneMore(f[i - 1], images, E[i])  BY <2>1
  <2>3. ASSUME NEW i \in 0 .. m + 1 PROVE g[i] = IF i = 0 THEN set ELSE OneMore(g[i - 1], images, E[i])
    <3>1. m \in Nat  BY <1>1
    <3>2. CASE i = m + 1
      <4>1. i # 0 /\ i - 1 \in 0 .. m + 1 /\ i - 1 # m + 1  BY <3>1, <3>2
      <4>2. g[i] = OneMore(f[i - 1], images, E[i]) /\ g[i - 1] = f[i - 1]  BY <3>2, <4>1
      <4> HIDE DEF g
      <4> QED BY <4>1, <4>2
    <3>3. CASE i = 0
      <4>1. g[i] = f[i] /\ i \in 0 .. m  BY <3>1, <3>3
      <4> HIDE DEF g
      <4> QED BY <2>2, <3>3, <4>1
    <3>4. CASE i # m + 1 /\ i # 0
      <4>1. i \in 0 .. m /\ i - 1 \in 0 .. m + 1 /\ i - 1 # m + 1  BY <3>1, <3>4
      <4>2. g[i] = f[i] /\ g[i - 1] = f[i - 1]  BY <3>4, <4>1
      <4> HIDE DEF g
      <4> QED BY <2>2, <3>4, <4>1, <4>2
    <3> QED BY <3>2, <3>3, <3>4
  <2>4. g = [i \in 0 .. m + 1 |-> g[i]]  OBVIOUS
  <2> HIDE DEF g
  <2>5. g = [i \in 0 .. m + 1 |-> IF i = 0 THEN set ELSE OneMore(g[i - 1], images, E[i])]  BY <2>3, <2>4
  <2>6. Is(g, m + 1)  BY <2>5
  <2> HIDE DEF Is
  <2>7. m + 1 \in 0 .. n  BY <1>1
  <2> QED BY <2>6, <2>7
<1>5. n \in P
  <2> HIDE DEF P
  <2>1. \A k \in 0 .. n : k \in P  BY <1>1, <1>3, <1>4, StepByStep
  <2> QED BY <1>1, <2>1
<1>6. Is(st, n)
  <2>1. \E f : Is(f, n)  BY <1>5
  <2> HIDE DEF Is
  <2> QED BY <2>1
<1> HIDE DEF st
<1>7. \A i \in 0 .. n : st[i] = IF i = 0 THEN set ELSE OneMore(st[i - 1], images, E[i])  BY <1>6
<1>8. st[0] = set  BY <1>1, <1>7
<1>9. \A i \in 1 .. n : st[i] = OneMore(st[i - 1], images, E[i])
  <2>1. \A i \in 1 .. n : i \in 0 .. n /\ i # 0  BY <1>1
  <2> QED BY <1>7, <2>1
<1>10. IsStoring(st, set, images, E)  BY <1>8, <1>9 DEF IsStoring, n
<1> QED BY <1>2, <1>10 DEF CanStore, E, n

\* One more entry has its image and no other has lost its own.
LEMMA OneMoreIsStored ==
  ASSUME NEW s, Good(s), NEW set, HoldsTable(set, s), NEW images, NEW e \in TableEntries(s)
  PROVE  /\ HoldsTable(OneMore(set, images, e), s)
         /\ HasImages(e) => ImageIn(OneMore(set, images, e), e) = images[e]
         /\ \A f \in TableEntries(s) : f # e => ImageIn(OneMore(set, images, e), f) = ImageIn(set, f)
<1> DEFINE new == Put(set, images[e], e)
<1>1. HoldsTable(new, s) /\ ImageIn(new, e) = images[e]  BY ImagesOfEntries
<1>3. ASSUME NEW f \in TableEntries(s), f # e PROVE ImageIn(new, f) = ImageIn(set, f)  BY <1>3, ImagesOfEntries
<1>4. OneMore(set, images, e) = IF HasImages(e) THEN new ELSE set  BY DEF OneMore
<1> HIDE DEF new
<1> QED BY <1>1, <1>3, <1>4

\* All entries of the group have their images.
LEMMA AllAreStored ==
  ASSUME NEW s, Good(s), NEW E, NEW n \in Nat, Len(E) = n, \A i \in 1 .. n : E[i] \in TableEntries(s),
         NEW set, HoldsTable(set, s), NEW images, NEW all, CanStore(all, set, images, E)
  PROVE  /\ HoldsTable(all, s)
         /\ \A e \in In(E) : HasImages(e) => ImageIn(all, e) = images[e]
<1>1. PICK st : IsStoring(st, set, images, E) /\ all = st[n]  BY DEF CanStore
<1>2. \A i \in 1 .. n : E[i] \in TableEntries(s)  OBVIOUS
<1> DEFINE Q == {k \in 0 .. n : /\ HoldsTable(st[k], s)
                                /\ \A j \in 1 .. k : HasImages(E[j]) =>
                                     ImageIn(st[k], E[j]) = images[E[j]]}
<1>3. 0 \in Q  BY <1>1, <1>2 DEF IsStoring
<1>4. ASSUME NEW k \in 0 .. n - 1, k \in Q PROVE k + 1 \in Q
  <2>1. HoldsTable(st[k], s) /\ \A j \in 1 .. k : HasImages(E[j]) =>
           ImageIn(st[k], E[j]) = images[E[j]]  BY <1>4
  <2>2. k + 1 \in 1 .. n /\ (k + 1) - 1 = k /\ k + 1 \in 0 .. n  BY <1>2
  <2>3. st[k + 1] = OneMore(st[k], images, E[k + 1])  BY <1>1, <2>2 DEF IsStoring
  <2>4. E[k + 1] \in TableEntries(s) /\ \A j \in 1 .. k : E[j] \in TableEntries(s)  BY <1>2, <2>2
  <2>5. \A j \in 1 .. k + 1 : j \in 1 .. k \/ j = k + 1  BY <1>2
  <2> DEFINE e == E[k + 1]
  <2> HIDE DEF e
  <2>6. e \in TableEntries(s)  BY <2>4 DEF e
  <2>7. /\ HoldsTable(st[k + 1], s)
        /\ HasImages(e) => ImageIn(st[k + 1], e) = images[e]
        /\ \A f \in TableEntries(s) : f # e => ImageIn(st[k + 1], f) = ImageIn(st[k], f)
    BY <2>1, <2>3, <2>6, OneMoreIsStored DEF e
  <2>8. ASSUME NEW j \in 1 .. k + 1, HasImages(E[j]) PROVE ImageIn(st[k + 1], E[j]) = images[E[j]]
    <3>1. CASE E[j] = e  BY <2>7, <2>8, <3>1
    <3>2. CASE E[j] # e
      <4>1. j \in 1 .. k  BY <2>5, <3>2 DEF e
      <4> QED BY <2>1, <2>4, <2>7, <2>8, <3>2, <4>1
    <3> QED BY <3>1, <3>2
  <2> QED BY <2>2, <2>7, <2>8
<1>5. n \in Q
  <2> HIDE DEF Q
  <2>1. \A k \in 0 .. n : k \in Q  BY <1>2, <1>3, <1>4, StepByStep
  <2> QED BY <1>2, <2>1
<1>6. HoldsTable(all, s) /\ \A j \in 1 .. n : HasImages(E[j]) =>
        ImageIn(all, E[j]) = images[E[j]]  BY <1>1, <1>5
<1>7. ASSUME NEW e \in In(E), HasImages(e) PROVE ImageIn(all, e) = images[e]
  <2>1. PICK j \in 1 .. n : e = E[j]  BY DEF In
  <2> QED BY <1>6, <1>7, <2>1
<1> QED BY <1>6, <1>7

----
\* What is right at every moment of the work on a group E of the settings s
\* in an interval, with the calls W left and after mj deconvolutions.
MakesPSF(s) == s.clean \/ s.makePSF \/ s.makePSFOnly
ModelPol(pol) == IF pol = "YX" THEN "XY" ELSE pol

\* The model after mj deconvolutions, what is subtracted from the data in the last major iteration,
\* and the residual image that this makes, from one part or (XY and YX) two.
ModelFor(e, int, mj) ==
  [polarization |-> ModelPol(e.polarization), channel |-> e.outputChannelIndex, interval |-> int, version |-> mj]

SubtractedFor(e, int, mj) == IF mj = 0 THEN NothingStored ELSE ModelFor(e, int, mj)

PartOf(pol, e, int, mj) ==
  [polarization |-> pol, channel |-> e.outputChannelIndex, interval |-> int,
   subtracted |-> SubtractedFor(e, int, mj), normalized |-> TRUE]

ResidualOf(e, whole, int, mj) ==
  [parts |-> IF e.polarization = "XY" /\ whole THEN <<PartOf("XY", e, int, mj), PartOf("YX", e, int, mj)>>
             ELSE <<PartOf(e.polarization, e, int, mj)>>]

ResultFor(kind, e, int, mj) ==
  [polarization |-> e.polarization, channel |-> e.outputChannelIndex, interval |-> int,
   subtracted |-> IF kind = "image" THEN ModelFor(e, int, mj) ELSE NothingStored]

\* The call of a kind for an entry.
Call(kind, e) == [do |-> kind, entry |-> e]

\* No image of the entry will be made any more before the next deconvolution.
IsImaged(e, W) == Call("invert", e) \notin W /\ Call("image", e) \notin W
\* The entries of XY and YX of a channel make one image: it is whole when both have been imaged.
AreTogether(x, y) ==
  x.polarization = "XY" /\ y.polarization = "YX" /\ x.outputChannelIndex = y.outputChannelIndex
IsWhole(e, E, W) == \A y \in In(E) : AreTogether(e, y) => IsImaged(y, W)

\* What is left of the work on a group: W, the calls that have not been called back.
KindsRight(s, E, W, mj) ==
  /\ \A c \in W :
       /\ c.do \in TaskKinds \cup {"save"} => c = Call(c.do, c.entry) /\ c.entry \in In(E)
       /\ c.do # "readModel"
       /\ c.do = "psf" => c.entry.polarization = Head(s.polarizations) /\ MakesPSF(s)
       /\ c.do = "invert" => mj = 0 /\ ~ s.makePSFOnly
       /\ c.do \in {"image", "predict"} => mj > 0
       /\ c.do = "deconvolve" => Restarted(s)
       /\ c.do = "save" => ~ s.makePSFOnly
  /\ mj > 0 => Restarted(s)

\* As long as XY is not imaged, neither is YX.
Paired(s, E, W) ==
  s.joinPolarizations =>
    \A x, y \in In(E) : AreTogether(x, y) =>
      \A k \in {"invert", "image"} : Call(k, x) \in W => Call(k, y) \in W

\* The runs whose residual images are looked at.
IsExamined(s) == ~ s.makePSFOnly /\ (s.joinPolarizations \/ ~ HasCross(s))

\* An entry with nothing left to image has its residual image.
ResidualsRight(s, E, W, set, int, mj) ==
  /\ HoldsTable(set, s)
  /\ IsExamined(s) =>
       \A e \in In(E) : e.polarization # "YX" /\ IsImaged(e, W) =>
         ImageIn(set, e) = ResidualOf(e, IsWhole(e, E, W), int, mj)

\* After a deconvolution every entry has its model image.
ModelsRight(s, E, set, int, mj) ==
  /\ HoldsTable(set, s)
  /\ mj > 0 => \A e \in In(E) : e.polarization # "YX" => ImageIn(set, e) = ModelFor(e, int, mj)

\* An entry that is still to be imaged has its model data, or is still to be predicted.
DataRight(E, W, md, int, mj) ==
  \A e \in In(E) : Call("image", e) \in W =>
    md[Imaged(e)] = ModelFor(e, int, mj) \/ Call("predict", e) \in W

\* The PSF of a channel has been made.
HasPSF(channel, W) == \A c \in W : c.do = "psf" => c.entry.outputChannelIndex # channel

\* A channel with no PSF left to make has its own one.
PSFsRight(s, E, W, set, norm, int) ==
  /\ IsImageSet(set) /\ set.polCount = 1
  /\ set.freqCount = 1 => \A e, f \in In(E) : e.outputChannelIndex = f.outputChannelIndex
  /\ MakesPSF(s) =>
       \A e \in In(E) : HasPSF(e.outputChannelIndex, W) =>
         /\ e.outputChannelIndex \in norm
         /\ Load(set, Head(s.polarizations), e.outputChannelIndex) =
              [channel |-> e.outputChannelIndex, interval |-> int]

IsTaskRecord(p) == p = [kind |-> p.kind, entry |-> p.entry, carries |-> p.carries, result |-> p.result]

\* An outstanding task takes along, and has made, what belongs to its entry.
TaskRight(p, md, int, mj) ==
  /\ IsTaskRecord(p)
  /\ p.kind = "predict" => p.carries = ModelFor(p.entry, int, mj)
  /\ p.result # NothingStored =>
       /\ p.result = ResultFor(p.kind, p.entry, int, mj)
       /\ p.kind = "predict" => md[Imaged(p.entry)] = ModelFor(p.entry, int, mj)

\* One entry is predicted.
PredictionRight(s, e, R, W, set, int, mj) ==
  /\ mj = 0
  /\ \A c \in W : c \in {Call("readModel", e), Call("predict", e), Finish}
  /\ IsImageSet(set) /\ set.polCount = Pols(s) /\ set.freqCount = 1
  /\ \A j \in 1 .. Len(R) : R[j].do = "readModel" => j = 1
  /\ e.polarization = "YX" \/ (\A j \in 1 .. Len(R) : R[j].do # "readModel") =>
       Load(set, ModelPol(e.polarization), e.outputChannelIndex) = ModelFor(e, int, 0)

----
\* Steps that make no result: a call that is not a task is over.
SameTasks(V, W) == V \subseteq W /\ \A c \in W : c.do \in TaskKinds => c \in V

\* A call that is no task leaves the tasks that are left as they were,
LEMMA WithoutOther ==
  ASSUME NEW V, NEW W, NEW c, V \subseteq W, W \subseteq V \cup {c}, c.do \notin TaskKinds
  PROVE  SameTasks(V, W)  BY DEF SameTasks

\* A call has its kind and its entry.
LEMMA CallFacts ==
  /\ \A k, l, e, f : Call(k, e) = Call(l, f) => k = l /\ e = f
  /\ \A k, e : Call(k, e).do = k /\ Call(k, e).entry = e
<1>1. \A k, e : Call(k, e).do = k /\ Call(k, e).entry = e  BY DEF Call
<1> QED BY <1>1

\* and with them what has been imaged,
LEMMA SameTasksSameImages ==
  ASSUME NEW V, NEW W, SameTasks(V, W)
  PROVE  /\ \A e : IsImaged(e, V) <=> IsImaged(e, W)
         /\ \A e, E : IsWhole(e, E, V) = IsWhole(e, E, W)
         /\ \A channel : HasPSF(channel, V) <=> HasPSF(channel, W)
<1>1. \A k \in TaskKinds : \A e : Call(k, e) \in V <=> Call(k, e) \in W  BY CallFacts DEF SameTasks
<1>2. "invert" \in TaskKinds /\ "image" \in TaskKinds /\ "psf" \in TaskKinds  BY DEF TaskKinds
<1>3. \A e : IsImaged(e, V) <=> IsImaged(e, W)  BY <1>1, <1>2 DEF IsImaged
<1>4. \A e, E : IsWhole(e, E, V) <=> IsWhole(e, E, W)  BY <1>3 DEF IsWhole
<1>5. \A e, E : IsWhole(e, E, V) = IsWhole(e, E, W)  BY <1>4 DEF IsWhole
<1>6. \A channel : HasPSF(channel, V) <=> HasPSF(channel, W)  BY <1>2 DEF HasPSF, SameTasks
<1> QED BY <1>3, <1>5, <1>6

\* and with that what is right about the group.
LEMMA SameTasksSameRights ==
  ASSUME NEW V, NEW W, SameTasks(V, W), NEW s, NEW E, NEW mj, NEW int, NEW res, NEW psf, NEW norm, NEW md
  PROVE  /\ KindsRight(s, E, W, mj) => KindsRight(s, E, V, mj)
         /\ Paired(s, E, W) => Paired(s, E, V)
         /\ ResidualsRight(s, E, W, res, int, mj) => ResidualsRight(s, E, V, res, int, mj)
         /\ DataRight(E, W, md, int, mj) => DataRight(E, V, md, int, mj)
         /\ PSFsRight(s, E, W, psf, norm, int) => PSFsRight(s, E, V, psf, norm, int)
<1>1. \A k \in TaskKinds : \A e : Call(k, e) \in V <=> Call(k, e) \in W  BY CallFacts DEF SameTasks
<1>2. "invert" \in TaskKinds /\ "image" \in TaskKinds /\ "predict" \in TaskKinds  BY DEF TaskKinds
<1>3. KindsRight(s, E, W, mj) => KindsRight(s, E, V, mj)  BY DEF KindsRight, SameTasks
<1>4. Paired(s, E, W) => Paired(s, E, V)  BY <1>1, <1>2 DEF Paired
<1>5. ResidualsRight(s, E, W, res, int, mj) => ResidualsRight(s, E, V, res, int, mj)
  BY SameTasksSameImages DEF ResidualsRight
<1>6. DataRight(E, W, md, int, mj) => DataRight(E, V, md, int, mj)  BY <1>1, <1>2 DEF DataRight
<1>7. PSFsRight(s, E, W, psf, norm, int) => PSFsRight(s, E, V, psf, norm, int)  BY SameTasksSameImages DEF PSFsRight
<1> QED BY <1>3, <1>4, <1>5, <1>6, <1>7

----
\* Steps that end a task: its callback has run.
IsOver(V, W, c) ==
  /\ c \in W /\ V \subseteq W /\ W \subseteq V \cup {c}
  /\ IsTask(c)
  /\ IsAdded(c) => c \notin V
  /\ \A d \in W : ~ Needs(d, c)

\* With joined polarizations XY and YX are in the same group.
LEMMA PartnersExist ==
  ASSUME NEW s, Good(s), NEW E, IsEntryGroup(E, s), s.joinPolarizations
  PROVE  /\ \A x \in In(E) : x.polarization = "XY" => \E y \in In(E) : AreTogether(x, y)
         /\ \A y \in In(E) : y.polarization = "YX" => \E x \in In(E) : AreTogether(x, y)
<1>1. In(E) \subseteq TableEntries(s) /\ \A i \in 1 .. Len(E) : E[i] \in In(E)  BY GroupEntries
<1>2. \A i \in 1 .. Len(E), p \in 1 .. Pols(s) : \E j \in 1 .. Len(E) :
        E[j].polarization = s.polarizations[p] /\ E[j].outputChannelIndex = E[i].outputChannelIndex
  BY DEF IsEntryGroup
<1>3. (\E p \in 1 .. Pols(s) : s.polarizations[p] = "XY") <=> (\E p \in 1 .. Pols(s) : s.polarizations[p] = "YX")
  BY GoodFacts
<1>4. ASSUME NEW x \in In(E), NEW pol, \E p \in 1 .. Pols(s) : s.polarizations[p] = pol
      PROVE  \E y \in In(E) : y.polarization = pol /\ y.outputChannelIndex = x.outputChannelIndex
  <2>1. PICK i \in 1 .. Len(E) : x = E[i]  BY DEF In
  <2>2. PICK p \in 1 .. Pols(s) : s.polarizations[p] = pol  BY <1>4
  <2>3. PICK j \in 1 .. Len(E) : E[j].polarization = s.polarizations[p] /\ E[j].outputChannelIndex = E[i].outputChannelIndex
    BY <1>2
  <2> QED BY <1>1, <2>1, <2>2, <2>3
<1>5. ASSUME NEW x \in In(E) PROVE \E p \in 1 .. Pols(s) : s.polarizations[p] = x.polarization  BY <1>1, EntryFacts
<1>6. ASSUME NEW x \in In(E), x.polarization = "XY" PROVE \E y \in In(E) : AreTogether(x, y)
  <2>1. \E p \in 1 .. Pols(s) : s.polarizations[p] = "YX"  BY <1>3, <1>5, <1>6
  <2>2. PICK y \in In(E) : y.polarization = "YX" /\ y.outputChannelIndex = x.outputChannelIndex  BY <1>4, <2>1
  <2> QED BY <1>6, <2>2 DEF AreTogether
<1>7. ASSUME NEW y \in In(E), y.polarization = "YX" PROVE \E x \in In(E) : AreTogether(x, y)
  <2>1. \E p \in 1 .. Pols(s) : s.polarizations[p] = "XY"  BY <1>3, <1>5, <1>7
  <2>2. PICK x \in In(E) : x.polarization = "XY" /\ x.outputChannelIndex = y.outputChannelIndex  BY <1>4, <2>1
  <2> QED BY <1>7, <2>2 DEF AreTogether
<1> QED BY <1>6, <1>7

\* Less work is still of these kinds,
LEMMA KindsAreKept ==
  ASSUME NEW V, NEW W, V \subseteq W, NEW s, NEW E, NEW mj, KindsRight(s, E, W, mj)
  PROVE  KindsRight(s, E, V, mj)  BY DEF KindsRight

\* and XY is still imaged before YX.
LEMMA PairsAreKept ==
  ASSUME NEW V, NEW W, NEW c, IsOver(V, W, c), NEW s, NEW E, Paired(s, E, W)
  PROVE  Paired(s, E, V)
<1> SUFFICES ASSUME s.joinPolarizations, NEW x \in In(E), NEW y \in In(E), AreTogether(x, y),
                    NEW k \in {"invert", "image"}, Call(k, x) \in V
             PROVE  Call(k, y) \in V  BY DEF Paired
<1>1. Call(k, x) \in W  BY DEF IsOver
<1>2. Call(k, y) \in W  BY <1>1 DEF Paired
<1>3. Needs(Call(k, x), Call(k, y))  BY CallFacts DEF Needs, AreTogether
<1>4. Call(k, y) # c  BY <1>1, <1>3 DEF IsOver
<1> QED BY <1>2, <1>4 DEF IsOver

\* A task other than a prediction leaves the model data alone, a prediction makes its own right.
LEMMA DataIsKept ==
  ASSUME NEW V, NEW W, NEW k, NEW z, IsOver(V, W, Call(k, z)), NEW E, NEW md, NEW int, NEW mj, DataRight(E, W, md, int, mj),
         k = "predict" => md[Imaged(z)] = ModelFor(z, int, mj)
  PROVE  DataRight(E, V, md, int, mj)
<1> SUFFICES ASSUME NEW e \in In(E), Call("image", e) \in V, Call("predict", e) \notin V
             PROVE  md[Imaged(e)] = ModelFor(e, int, mj)  BY DEF DataRight
<1>1. Call("image", e) \in W  BY DEF IsOver
<1>2. CASE Call("predict", e) \in W
  <2>1. Call("predict", e) = Call(k, z)  BY <1>2 DEF IsOver
  <2>2. k = "predict" /\ e = z  BY <2>1, CallFacts
  <2> QED BY <2>2
<1>3. CASE Call("predict", e) \notin W  BY <1>1, <1>3 DEF DataRight
<1> QED BY <1>2, <1>3

\* Other tasks leave the PSFs alone.
LEMMA PSFsAreKept ==
  ASSUME NEW V, NEW W, NEW k, NEW z, IsOver(V, W, Call(k, z)), k # "psf",
         NEW s, NEW E, NEW set, NEW norm, NEW int, PSFsRight(s, E, W, set, norm, int)
  PROVE  PSFsRight(s, E, V, set, norm, int)
<1>1. \A c \in W : c.do = "psf" => c \in V
  <2> SUFFICES ASSUME NEW c \in W, c.do = "psf" PROVE c \in V  OBVIOUS
  <2>1. c # Call(k, z)  BY CallFacts
  <2> QED BY <2>1 DEF IsOver
<1>2. \A channel : HasPSF(channel, V) => HasPSF(channel, W)  BY <1>1 DEF HasPSF
<1> QED BY <1>2 DEF PSFsRight

\* A PSF of the channel of an entry.
PSFOf(e, int) == [channel |-> e.outputChannelIndex, interval |-> int]

\* A PSF that is called back is the one of its channel.
LEMMA PSFIsStored ==
  ASSUME NEW V, NEW W, NEW z, IsOver(V, W, Call("psf", z)), NEW s, NEW E, z \in In(E),
         NEW set, NEW norm, NEW int, PSFsRight(s, E, W, set, norm, int)
  PROVE  PSFsRight(s, E, V, Store(set, PSFOf(z, int), Head(s.polarizations), z.outputChannelIndex),
                   norm \cup {z.outputChannelIndex}, int)
<1> DEFINE pol == Head(s.polarizations)
           ch == z.outputChannelIndex
           new == Store(set, PSFOf(z, int), pol, ch)
<1>1. IsImageSet(set) /\ set.polCount = 1  BY DEF PSFsRight
<1>2. IsImageSet(new) /\ new.polCount = 1 /\ new.freqCount = set.freqCount /\ Load(new, pol, ch) = PSFOf(z, int)
  BY <1>1, StoredIsLoaded
<1>3. ASSUME MakesPSF(s), NEW e \in In(E), HasPSF(e.outputChannelIndex, V)
      PROVE  /\ e.outputChannelIndex \in norm \cup {ch}
             /\ Load(new, pol, e.outputChannelIndex) = [channel |-> e.outputChannelIndex, interval |-> int]
  <2>1. CASE e.outputChannelIndex = ch
    <3>1. Load(new, pol, e.outputChannelIndex) = PSFOf(z, int)  BY <1>2, <2>1
    <3> QED BY <2>1, <3>1 DEF PSFOf
  <2>2. CASE e.outputChannelIndex # ch
    <3>1. HasPSF(e.outputChannelIndex, W)
      <4> SUFFICES ASSUME NEW c \in W, c.do = "psf", c.entry.outputChannelIndex = e.outputChannelIndex PROVE FALSE
        BY DEF HasPSF
      <4>1. c # Call("psf", z)  BY <2>2, CallFacts
      <4>2. c \in V  BY <4>1 DEF IsOver
      <4> QED BY <1>3, <4>2 DEF HasPSF
    <3>2. /\ e.outputChannelIndex \in norm
          /\ Load(set, pol, e.outputChannelIndex) = [channel |-> e.outputChannelIndex, interval |-> int]
      BY <1>3, <3>1 DEF PSFsRight
    <3>3. set.freqCount # 1  BY <2>2 DEF PSFsRight
    <3>4. ~ InMemory(set) /\ FileOf(set, pol, ch) # FileOf(set, pol, e.outputChannelIndex)
      BY <2>2, <3>3 DEF InMemory, FileOf
    <3> HIDE DEF pol, ch
    <3>5. Load(new, pol, e.outputChannelIndex) = Load(set, pol, e.outputChannelIndex)  BY <1>1, <3>4, OthersAreKept
    <3> QED BY <3>2, <3>5
  <2> QED BY <2>1, <2>2
<1> HIDE DEF new
<1>4. PSFsRight(s, E, V, new, norm \cup {ch}, int)  BY <1>2, <1>3 DEF PSFsRight
<1> QED BY <1>4 DEF new

\* Storing an image keeps the room.
LEMMA AnyStoreHoldsTable ==
  ASSUME NEW s, NEW set, HoldsTable(set, s), NEW image, NEW pol, NEW f
  PROVE  HoldsTable(Store(set, image, pol, f), s)  BY StoredIsLoaded DEF HoldsTable

\* A callback makes its own entry imaged, and no other.
LEMMA ImagedAfter ==
  ASSUME NEW V, NEW W, NEW k, NEW z, IsOver(V, W, Call(k, z))
  PROVE  /\ \A e : e # z \/ k \notin {"invert", "image"} => (IsImaged(e, V) <=> IsImaged(e, W))
         /\ k \in {"invert", "image"} => ~ IsImaged(z, W)
         /\ \A e : IsImaged(e, W) => IsImaged(e, V)
<1>1. \A l, e : Call(l, e) \in V => Call(l, e) \in W  BY DEF IsOver
<1>2. \A l, e : Call(l, e) \in W /\ ~ (l = k /\ e = z) => Call(l, e) \in V  BY CallFacts DEF IsOver
<1>3. Call(k, z) \in W  BY DEF IsOver
<1> QED BY <1>1, <1>2, <1>3 DEF IsImaged

\* A callback without an image leaves the residuals right.
LEMMA ResidualsAreKept ==
  ASSUME NEW V, NEW W, NEW k, NEW z, IsOver(V, W, Call(k, z)), k \notin {"invert", "image"},
         NEW s, NEW E, NEW set, NEW int, NEW mj, ResidualsRight(s, E, W, set, int, mj)
  PROVE  ResidualsRight(s, E, V, set, int, mj)
<1>1. \A e : IsImaged(e, V) <=> IsImaged(e, W)  BY ImagedAfter
<1>2. \A e : IsWhole(e, E, V) = IsWhole(e, E, W)  BY <1>1 DEF IsWhole
<1> QED BY <1>1, <1>2 DEF ResidualsRight

\* An image other than YX takes the place of the one before.
LEMMA ResidualIsStored ==
  ASSUME NEW s, Good(s), NEW E, IsEntryGroup(E, s),
         NEW V, NEW W, NEW k \in {"invert", "image"}, NEW z \in In(E), IsOver(V, W, Call(k, z)), z.polarization # "YX",
         Paired(s, E, W), NEW set, NEW int, NEW mj, ResidualsRight(s, E, W, set, int, mj)
  PROVE  ResidualsRight(s, E, V, Put(set, [parts |-> <<PartOf(z.polarization, z, int, mj)>>], z), int, mj)
<1> DEFINE image == [parts |-> <<PartOf(z.polarization, z, int, mj)>>]
           new == Put(set, image, z)
<1>1. HoldsTable(set, s) /\ In(E) \subseteq TableEntries(s)  BY GroupEntries DEF ResidualsRight
<1>2. HoldsTable(new, s) /\ ImageIn(new, z) = image  BY <1>1, ImagesOfEntries
<1>3. ASSUME NEW e \in In(E), e # z PROVE ImageIn(new, e) = ImageIn(set, e)  BY <1>1, <1>3, ImagesOfEntries
<1>4. /\ \A e : e # z => (IsImaged(e, V) <=> IsImaged(e, W))
      /\ Call(k, z) \in W  BY ImagedAfter DEF IsOver
<1>5. \A e : IsWhole(e, E, V) = IsWhole(e, E, W)
  <2>1. \A e, y : AreTogether(e, y) => (IsImaged(y, V) <=> IsImaged(y, W))  BY <1>4 DEF AreTogether
  <2> QED BY <2>1 DEF IsWhole
<1>6. ASSUME IsExamined(s), z.polarization = "XY" PROVE ~ IsWhole(z, E, V)
  <2>1. HasCross(s)
    <3>1. z.polarization = "XY" => HasCross(s)  BY <1>1, EntryFacts
    <3> QED BY <1>6, <3>1
  <2>2. s.joinPolarizations  BY <1>6, <2>1 DEF IsExamined
  <2>3. PICK y \in In(E) : AreTogether(z, y)  BY <1>6, <2>2, PartnersExist
  <2>4. Call(k, y) \in W  BY <1>4, <2>2, <2>3 DEF Paired
  <2>5. y # z  BY <2>3 DEF AreTogether
  <2>6. Call(k, y) \in V  BY <2>4, <2>5, CallFacts DEF IsOver
  <2>7. ~ IsImaged(y, V)  BY <2>6 DEF IsImaged
  <2> QED BY <2>3, <2>7 DEF IsWhole
<1>7. ASSUME IsExamined(s), NEW e \in In(E), e.polarization # "YX", IsImaged(e, V)
      PROVE  ImageIn(new, e) = ResidualOf(e, IsWhole(e, E, V), int, mj)
  <2>1. CASE e = z
    <3>1. ResidualOf(z, IsWhole(z, E, V), int, mj) = image  BY <1>6, <1>7 DEF ResidualOf
    <3> HIDE DEF new, image
    <3> QED BY <1>2, <2>1, <3>1
  <2>2. CASE e # z
    <3>1. IsImaged(e, W)  BY <1>4, <1>7, <2>2
    <3>2. ImageIn(set, e) = ResidualOf(e, IsWhole(e, E, W), int, mj)  BY <1>7, <3>1 DEF ResidualsRight
    <3>3. ImageIn(new, e) = ImageIn(set, e)  BY <1>3, <2>2
    <3>4. IsWhole(e, E, V) = IsWhole(e, E, W)  BY <1>5
    <3> HIDE DEF new
    <3> QED BY <3>2, <3>3, <3>4
  <2> QED BY <2>1, <2>2
<1> HIDE DEF new
<1>8. ResidualsRight(s, E, V, new, int, mj)  BY <1>2, <1>7 DEF ResidualsRight
<1> QED BY <1>8 DEF new

\* What storeAndCombineXYandYX adds to.
PartsThere(set, channel) ==
  LET xy == Load(set, "XY", channel) IN IF xy = NothingStored THEN <<>> ELSE xy.parts

\* An image of YX is added to that of XY, which is there and has only its own part.
LEMMA ResidualIsAdded ==
  ASSUME NEW s, Good(s), NEW E, IsEntryGroup(E, s),
         NEW V, NEW W, NEW k \in {"invert", "image"}, NEW z \in In(E), IsOver(V, W, Call(k, z)), z.polarization = "YX",
         NEW mj, KindsRight(s, E, W, mj), NEW set, NEW int, ResidualsRight(s, E, W, set, int, mj)
  PROVE  ResidualsRight(s, E, V,
           Store(set, [parts |-> Append(PartsThere(set, z.outputChannelIndex), PartOf("YX", z, int, mj))],
                 "XY", z.outputChannelIndex), int, mj)
<1> DEFINE image == [parts |-> Append(PartsThere(set, z.outputChannelIndex), PartOf("YX", z, int, mj))]
           new == Store(set, image, "XY", z.outputChannelIndex)
<1>1. HoldsTable(set, s) /\ In(E) \subseteq TableEntries(s)  BY GroupEntries DEF ResidualsRight
<1>2. HoldsTable(new, s)  BY <1>1, AnyStoreHoldsTable
<1>3. ASSUME IsExamined(s)
      PROVE  \A e \in In(E) : e.polarization # "YX" /\ IsImaged(e, V) =>
               ImageIn(new, e) = ResidualOf(e, IsWhole(e, E, V), int, mj)
  <2>1. z.polarization = "YX" => HasCross(s)  BY <1>1, EntryFacts
  <2>2. s.joinPolarizations  BY <1>3, <2>1 DEF IsExamined
  <2>3. PICK x \in In(E) : AreTogether(x, z)  BY <2>2, PartnersExist
  <2>4. x.polarization = "XY" /\ x.outputChannelIndex = z.outputChannelIndex /\ x \in TableEntries(s) /\ x # z
    BY <1>1, <2>3 DEF AreTogether
  <2>5. new = Put(set, image, x)  BY <2>4 DEF Put
  <2>6. ImageIn(new, x) = image  BY <1>1, <2>4, <2>5, ImagesOfEntries
  <2>7. ASSUME NEW e \in In(E), e # x PROVE ImageIn(new, e) = ImageIn(set, e)
    BY <1>1, <2>4, <2>5, <2>7, ImagesOfEntries
  <2>8. /\ \A e : e # z => (IsImaged(e, V) <=> IsImaged(e, W))
        /\ Call(k, z) \in W /\ ~ IsImaged(z, W)  BY ImagedAfter DEF IsOver
  <2> DEFINE other == IF k = "invert" THEN "image" ELSE "invert"
  <2>9. \A e : Call(other, e) \notin W
    <3>1. k = "invert" => mj = 0  BY <2>8, CallFacts DEF KindsRight
    <3>2. k = "image" => mj > 0  BY <2>8, CallFacts DEF KindsRight
    <3>3. \A e : Call("invert", e) \in W => mj = 0  BY CallFacts DEF KindsRight
    <3>4. \A e : Call("image", e) \in W => mj > 0  BY CallFacts DEF KindsRight
    <3>5. ~ (mj = 0 /\ mj > 0)  OBVIOUS
    <3> QED BY <3>1, <3>2, <3>3, <3>4, <3>5
  <2>10. \A e : IsImaged(e, W) <=> Call(k, e) \notin W  BY <2>9 DEF IsImaged
  <2>11. Call(k, z) \notin V  BY CallFacts DEF IsOver, IsAdded
  <2>12. IsImaged(z, V)
    <3>1. Call(other, z) \notin V  BY <2>9 DEF IsOver
    <3> QED BY <2>11, <3>1 DEF IsImaged
  <2>13. IsImaged(x, W)
    <3>1. Needs(Call(k, x), Call(k, z))  BY <2>4, CallFacts DEF Needs
    <3>2. Call(k, x) \notin W  BY <3>1 DEF IsOver
    <3> QED BY <2>10, <3>2
  <2>14. ~ IsWhole(x, E, W)  BY <2>3, <2>8 DEF IsWhole
  <2>15. IsWhole(x, E, V)
    <3> SUFFICES ASSUME NEW y \in In(E), AreTogether(x, y) PROVE IsImaged(y, V)  BY DEF IsWhole
    <3>1. y.polarization = z.polarization /\ y.outputChannelIndex = z.outputChannelIndex  BY <2>3 DEF AreTogether
    <3>2. y = z  BY <1>1, <3>1, EntryFacts
    <3> QED BY <2>12, <3>2
  <2>16. ImageIn(set, x) = [parts |-> <<PartOf("XY", x, int, mj)>>]
    <3>1. ImageIn(set, x) = ResidualOf(x, IsWhole(x, E, W), int, mj)  BY <1>3, <2>4, <2>13 DEF ResidualsRight
    <3> QED BY <2>4, <2>14, <3>1 DEF ResidualOf
  <2>17. PartsThere(set, z.outputChannelIndex) = <<PartOf("XY", x, int, mj)>>
    <3>1. Load(set, "XY", z.outputChannelIndex) = [parts |-> <<PartOf("XY", x, int, mj)>>]  BY <2>4, <2>16 DEF ImageIn
    <3>2. \A p : [parts |-> p] # NothingStored
      <4> SUFFICES ASSUME NEW p, [parts |-> p] = [missing |-> TRUE] PROVE FALSE  BY DEF NothingStored
      <4>1. DOMAIN [parts |-> p] = {"parts"} /\ DOMAIN [missing |-> TRUE] = {"missing"}  OBVIOUS
      <4>2. {"parts"} = {"missing"}  BY <4>1
      <4> QED BY <4>2
    <3> QED BY <3>1, <3>2 DEF PartsThere
  <2>18. PartOf("YX", z, int, mj) = PartOf("YX", x, int, mj)  BY <2>4 DEF PartOf, SubtractedFor, ModelFor, ModelPol
  <2>19. image = ResidualOf(x, TRUE, int, mj)
    <3>1. Append(<<PartOf("XY", x, int, mj)>>, PartOf("YX", x, int, mj)) = <<PartOf("XY", x, int, mj), PartOf("YX", x, int, mj)>>
      BY AppendToOne
    <3> QED BY <2>4, <2>17, <2>18, <3>1 DEF ResidualOf
  <2> HIDE DEF new, image
  <2>20. ASSUME NEW e \in In(E), e.polarization # "YX", IsImaged(e, V)
         PROVE  ImageIn(new, e) = ResidualOf(e, IsWhole(e, E, V), int, mj)
    <3>1. CASE e = x
      <4>1. ResidualOf(x, IsWhole(x, E, V), int, mj) = ResidualOf(x, TRUE, int, mj)  BY <2>15 DEF ResidualOf
      <4> QED BY <2>6, <2>19, <3>1, <4>1
    <3>2. CASE e # x
      <4>1. e # z  BY <2>20
      <4>2. IsImaged(e, W)  BY <2>8, <2>20, <4>1
      <4>3. ImageIn(set, e) = ResidualOf(e, IsWhole(e, E, W), int, mj)  BY <1>3, <2>20, <4>2 DEF ResidualsRight
      <4>4. e.polarization = "XY" => (IsWhole(e, E, V) <=> IsWhole(e, E, W))
        <5> SUFFICES ASSUME e.polarization = "XY" PROVE IsWhole(e, E, V) <=> IsWhole(e, E, W)  OBVIOUS
        <5>1. e.outputChannelIndex # x.outputChannelIndex  BY <1>1, <2>4, <3>2, EntryFacts
        <5>2. \A y \in In(E) : AreTogether(e, y) => y # z  BY <2>4, <5>1 DEF AreTogether
        <5> QED BY <2>8, <5>2 DEF IsWhole
      <4>5. ResidualOf(e, IsWhole(e, E, V), int, mj) = ResidualOf(e, IsWhole(e, E, W), int, mj)
        BY <4>4 DEF ResidualOf
      <4> QED BY <2>7, <3>2, <4>3, <4>5
    <3> QED BY <3>1, <3>2
  <2> QED BY <2>20
<1> HIDE DEF new
<1>4. ResidualsRight(s, E, V, new, int, mj)  BY <1>2, <1>3 DEF ResidualsRight
<1> QED BY <1>4 DEF new

\* What has been made for a group, given the work that is left.
GroupRight(s, E, W, res, mod, psf, norm, md, int, mj) ==
  /\ KindsRight(s, E, W, mj)
  /\ Paired(s, E, W)
  /\ ResidualsRight(s, E, W, res, int, mj)
  /\ ModelsRight(s, E, mod, int, mj)
  /\ DataRight(E, W, md, int, mj)
  /\ PSFsRight(s, E, W, psf, norm, int)

\* At the start of a group, the PSFs of its channels are there or will be made.
PSFsStart(s, E, psf, norm, int) ==
  /\ IsImageSet(psf) /\ psf.polCount = 1
  /\ psf.freqCount = 1 => \A e, f \in In(E) : e.outputChannelIndex = f.outputChannelIndex
  /\ MakesPSF(s) => \A e \in In(E) :
       \/ \E f \in In(E) : f.polarization = Head(s.polarizations) /\ f.outputChannelIndex = e.outputChannelIndex
       \/ /\ e.outputChannelIndex \in norm
          /\ Load(psf, Head(s.polarizations), e.outputChannelIndex) =
               [channel |-> e.outputChannelIndex, interval |-> int]

\* The work on a group when it starts.
FirstWork(E, s) ==
  Of("psf", Started(E, s)) \cup Inverted(E, s) \cup {Finish} \cup Ending(E, s, Restarted(s) = TRUE)

\* The calls of a kind for some entries.
LEMMA OfCalls ==
  ASSUME NEW kind, NEW S
  PROVE  /\ \A e : Call(kind, e) \in Of(kind, S) <=> e \in S
         /\ \A c \in Of(kind, S) : c = Call(kind, c.entry) /\ c.entry \in S /\ c.do = kind
<1>1. ASSUME NEW c \in Of(kind, S) PROVE c = Call(kind, c.entry) /\ c.entry \in S /\ c.do = kind
  <2>1. PICK e \in S : c = Call(kind, e)  BY DEF Of, Call
  <2> QED BY <2>1, CallFacts
<1>2. ASSUME NEW e, e \in S PROVE Call(kind, e) \in Of(kind, S)  BY <1>2 DEF Of, Call
<1>3. ASSUME NEW e, Call(kind, e) \in Of(kind, S) PROVE e \in S  BY <1>1, <1>3, CallFacts
<1> QED BY <1>1, <1>2, <1>3

\* The last calls of the work, one by one.
LEMMA EndingFacts ==
  ASSUME NEW E, NEW s, NEW again
  PROVE  \A c \in Ending(E, s, again) :
           /\ c.do \in {"deconvolve", "save"}
           /\ c.do = "save" => c = Call("save", c.entry) /\ c.entry \in In(E) /\ ~ s.makePSFOnly
           /\ c.do = "deconvolve" => again
<1> SUFFICES ASSUME NEW c \in Ending(E, s, again)
             PROVE  /\ c.do \in {"deconvolve", "save"}
                    /\ c.do = "save" => c = Call("save", c.entry) /\ c.entry \in In(E) /\ ~ s.makePSFOnly
                    /\ c.do = "deconvolve" => again  OBVIOUS
<1>1. CASE again
  <2>1. c = [do |-> "deconvolve"]  BY <1>1 DEF Ending
  <2>2. c.do = "deconvolve"  BY <2>1
  <2> QED BY <1>1, <2>2
<1>2. CASE ~ again
  <2>1. ~ s.makePSFOnly /\ c \in Of("save", In(E))  BY <1>2 DEF Ending
  <2>2. c = Call("save", c.entry) /\ c.entry \in In(E) /\ c.do = "save"  BY <2>1, OfCalls
  <2> QED BY <2>1, <2>2
<1> QED BY <1>1, <1>2

\* The calls of the first work.
IsFirst(c, E, s) ==
  \/ /\ c.do = "psf" /\ c = Call("psf", c.entry) /\ c.entry \in In(E)
     /\ c.entry.polarization = Head(s.polarizations) /\ MakesPSF(s)
  \/ c.do = "invert" /\ c = Call("invert", c.entry) /\ c.entry \in In(E) /\ ~ s.makePSFOnly
  \/ c.do = "finish"
  \/ c.do = "save" /\ c = Call("save", c.entry) /\ c.entry \in In(E) /\ ~ s.makePSFOnly
  \/ c.do = "deconvolve" /\ Restarted(s)

\* A group starts with nothing imaged, whatever the groups before it have left.
LEMMA GroupStartsRight ==
  ASSUME NEW s, NEW E, NEW res, NEW mod, NEW psf, NEW norm, NEW md, NEW int,
         HoldsTable(res, s), HoldsTable(mod, s), PSFsStart(s, E, psf, norm, int)
  PROVE  GroupRight(s, E, FirstWork(E, s), res, mod, psf, norm, md, int, 0)
<1> DEFINE W == FirstWork(E, s)
<1>1. ASSUME NEW c \in W PROVE IsFirst(c, E, s)
  <2>1. CASE c \in Of("psf", Started(E, s))
    <3>1. c.do = "psf" /\ c = Call("psf", c.entry) /\ c.entry \in Started(E, s)  BY <2>1, OfCalls
    <3> QED BY <3>1 DEF Started, MakesPSF, IsFirst
  <2>2. CASE c \in Inverted(E, s)
    <3>1. ~ s.makePSFOnly /\ c \in Of("invert", In(E))  BY <2>2 DEF Inverted
    <3> QED BY <3>1, OfCalls DEF IsFirst
  <2>3. CASE c = Finish  BY <2>3 DEF Finish, IsFirst
  <2>4. CASE c \in Ending(E, s, Restarted(s) = TRUE)
    <3> DEFINE again == Restarted(s) = TRUE
    <3> HIDE DEF again
    <3>1. c \in Ending(E, s, again)  BY <2>4 DEF again
    <3>2. /\ c.do \in {"deconvolve", "save"}
          /\ c.do = "save" => c = Call("save", c.entry) /\ c.entry \in In(E) /\ ~ s.makePSFOnly
          /\ c.do = "deconvolve" => again  BY <3>1, EndingFacts
    <3>3. CASE c.do = "save"  BY <3>2, <3>3 DEF IsFirst
    <3>4. CASE c.do = "deconvolve"
      <4>1. Restarted(s)  BY <3>2, <3>4 DEF again
      <4> QED BY <3>4, <4>1 DEF IsFirst
    <3> QED BY <3>2, <3>3, <3>4
  <2> QED BY <2>1, <2>2, <2>3, <2>4 DEF FirstWork
<1>2. \A e \in In(E) : ~ s.makePSFOnly => Call("invert", e) \in W  BY OfCalls DEF FirstWork, Inverted
<1> HIDE DEF W
<1>3. KindsRight(s, E, W, 0)
  <2>1. \A c \in W : /\ c.do \in TaskKinds \cup {"save"} => c = Call(c.do, c.entry) /\ c.entry \in In(E)
                     /\ c.do # "readModel"
                     /\ c.do = "psf" => c.entry.polarization = Head(s.polarizations) /\ MakesPSF(s)
    BY <1>1 DEF TaskKinds, IsFirst
  <2>2. \A c \in W : /\ c.do = "invert" => ~ s.makePSFOnly
                     /\ c.do \notin {"image", "predict"}
                     /\ c.do = "deconvolve" => Restarted(s)
                     /\ c.do = "save" => ~ s.makePSFOnly  BY <1>1 DEF IsFirst
  <2> QED BY <2>1, <2>2 DEF KindsRight
<1>4. \A e : Call("image", e) \notin W  BY <1>1, CallFacts DEF IsFirst
<1>5. Paired(s, E, W)
  <2> SUFFICES ASSUME NEW x \in In(E), NEW y \in In(E), AreTogether(x, y),
                      NEW k \in {"invert", "image"}, Call(k, x) \in W
               PROVE  Call(k, y) \in W  BY DEF Paired
  <2>1. k = "invert"  BY <1>4
  <2>2. ~ s.makePSFOnly  BY <1>1, <2>1, CallFacts DEF IsFirst
  <2> QED BY <1>2, <2>1, <2>2
<1>6. ResidualsRight(s, E, W, res, int, 0)  BY <1>2 DEF ResidualsRight, IsImaged, IsExamined
<1>7. ModelsRight(s, E, mod, int, 0)  BY DEF ModelsRight
<1>8. DataRight(E, W, md, int, 0)  BY <1>4 DEF DataRight
<1>9. PSFsRight(s, E, W, psf, norm, int)
  <2> SUFFICES ASSUME MakesPSF(s), NEW e \in In(E), HasPSF(e.outputChannelIndex, W)
               PROVE  /\ e.outputChannelIndex \in norm
                      /\ Load(psf, Head(s.polarizations), e.outputChannelIndex) =
                           [channel |-> e.outputChannelIndex, interval |-> int]  BY DEF PSFsRight, PSFsStart
  <2>1. ASSUME NEW f \in In(E), f.polarization = Head(s.polarizations), f.outputChannelIndex = e.outputChannelIndex
        PROVE  FALSE
    <3>1. f \in Started(E, s)  BY <2>1 DEF Started, MakesPSF
    <3>2. Call("psf", f) \in W  BY <3>1, OfCalls DEF W, FirstWork
    <3> QED BY <2>1, <3>2, CallFacts DEF HasPSF
  <2> QED BY <2>1 DEF PSFsStart
<1>10. GroupRight(s, E, W, res, mod, psf, norm, md, int, 0)  BY <1>3, <1>5, <1>6, <1>7, <1>8, <1>9 DEF GroupRight
<1> QED BY <1>10 DEF W

\* A residual of which the model of the n-th deconvolution was subtracted.
Deepened(old, e, int, n) ==
  [parts |-> [p \in DOMAIN old.parts |-> [old.parts[p] EXCEPT !.subtracted = ModelFor(e, int, n)]]]

\* A deconvolution takes its new model from every part of the residual.
LEMMA ResidualIsDeepened ==
  ASSUME NEW e, NEW whole \in BOOLEAN, NEW int, NEW mj \in Nat
  PROVE  Deepened(ResidualOf(e, whole, int, mj), e, int, mj + 1) = ResidualOf(e, whole, int, mj + 1)
<1>1. \A pol : [PartOf(pol, e, int, mj) EXCEPT !.subtracted = ModelFor(e, int, mj + 1)] = PartOf(pol, e, int, mj + 1)
  <2> SUFFICES ASSUME NEW pol
               PROVE  [PartOf(pol, e, int, mj) EXCEPT !.subtracted = ModelFor(e, int, mj + 1)] = PartOf(pol, e, int, mj + 1)
    OBVIOUS
  <2>1. SubtractedFor(e, int, mj + 1) = ModelFor(e, int, mj + 1)  BY DEF SubtractedFor
  <2> DEFINE m == ModelFor(e, int, mj + 1)
             f == [polarization |-> pol, channel |-> e.outputChannelIndex, interval |-> int,
                   subtracted |-> m, normalized |-> TRUE]
  <2>2. PartOf(pol, e, int, mj + 1) = f  BY <2>1 DEF PartOf
  <2> HIDE DEF m
  <2>3. [PartOf(pol, e, int, mj) EXCEPT !.subtracted = m] = f
    <3>1. PICK n : n = TRUE  OBVIOUS
    <3>2. PartOf(pol, e, int, mj) =
            [polarization |-> pol, channel |-> e.outputChannelIndex, interval |-> int,
             subtracted |-> SubtractedFor(e, int, mj), normalized |-> n]  BY <3>1 DEF PartOf
    <3>3. [PartOf(pol, e, int, mj) EXCEPT !.subtracted = m] =
            [polarization |-> pol, channel |-> e.outputChannelIndex, interval |-> int,
             subtracted |-> m, normalized |-> n]  BY <3>2
    <3> QED BY <3>1, <3>3
  <2> QED BY <2>2, <2>3 DEF m
<1>2. ASSUME NEW a, NEW b
      PROVE  [p \in DOMAIN <<a>> |-> [<<a>>[p] EXCEPT !.subtracted = b]] = <<[a EXCEPT !.subtracted = b]>>
  <2> DEFINE c == [a EXCEPT !.subtracted = b]
  <2>1. DOMAIN <<a>> = {1} /\ <<a>>[1] = a  OBVIOUS
  <2>2. DOMAIN <<c>> = {1} /\ <<c>>[1] = c /\ <<c>> = [p \in {1} |-> c]  OBVIOUS
  <2>3. [p \in DOMAIN <<a>> |-> [<<a>>[p] EXCEPT !.subtracted = b]] = [p \in {1} |-> c]  BY <2>1
  <2> QED BY <2>2, <2>3
<1>3. \A a, c, b : [p \in DOMAIN <<a, c>> |-> [<<a, c>>[p] EXCEPT !.subtracted = b]]
                   = <<[a EXCEPT !.subtracted = b], [c EXCEPT !.subtracted = b]>>  OBVIOUS
<1>4. CASE e.polarization = "XY" /\ whole
  <2>1. ResidualOf(e, whole, int, mj).parts = <<PartOf("XY", e, int, mj), PartOf("YX", e, int, mj)>>
    BY <1>4 DEF ResidualOf
  <2>2. ResidualOf(e, whole, int, mj + 1) = [parts |-> <<PartOf("XY", e, int, mj + 1), PartOf("YX", e, int, mj + 1)>>]
    BY <1>4 DEF ResidualOf
  <2> QED BY <1>1, <1>3, <2>1, <2>2 DEF Deepened
<1>5. CASE ~ (e.polarization = "XY" /\ whole)
  <2>1. ResidualOf(e, whole, int, mj).parts = <<PartOf(e.polarization, e, int, mj)>>  BY <1>5 DEF ResidualOf
  <2>2. ResidualOf(e, whole, int, mj + 1) = [parts |-> <<PartOf(e.polarization, e, int, mj + 1)>>]
    BY <1>5 DEF ResidualOf
  <2> QED BY <1>1, <1>2, <2>1, <2>2 DEF Deepened
<1> QED BY <1>4, <1>5

\* The calls of a major iteration.
IsRepeated(c, E, s) ==
  \/ c.do \in {"predict", "image"} /\ c = Call(c.do, c.entry) /\ c.entry \in In(E) /\ ~ s.mgainIsOne
  \/ c.do = "finish"
  \/ c.do = "save" /\ c = Call(c.do, c.entry) /\ c.entry \in In(E) /\ ~ s.makePSFOnly
  \/ c.do = "deconvolve"

\* It predicts and images all entries again, or (mgain 1) none.
LEMMA RepeatedFacts ==
  ASSUME NEW s, NEW E, NEW again, NEW V, V = Repeated(E, s) \cup Ending(E, s, again)
  PROVE  /\ \A c \in V : IsRepeated(c, E, s)
         /\ ~ s.mgainIsOne => \A e \in In(E) : Call("image", e) \in V /\ Call("predict", e) \in V
         /\ s.mgainIsOne => \A e : Call("image", e) \notin V
<1>1. ASSUME NEW c \in V PROVE IsRepeated(c, E, s)
  <2>1. CASE c \in Ending(E, s, again)
    <3>1. /\ c.do \in {"deconvolve", "save"}
          /\ c.do = "save" => c = Call("save", c.entry) /\ c.entry \in In(E) /\ ~ s.makePSFOnly  BY <2>1, EndingFacts
    <3> QED BY <3>1 DEF IsRepeated
  <2>2. CASE c \in Repeated(E, s)
    <3>1. ~ s.mgainIsOne /\ c \in Of("predict", In(E)) \cup Of("image", In(E)) \cup {Finish}  BY <2>2 DEF Repeated
    <3>2. CASE c = Finish  BY <3>2 DEF Finish, IsRepeated
    <3>3. CASE c \in Of("predict", In(E))  BY <3>1, <3>3, OfCalls DEF IsRepeated
    <3>4. CASE c \in Of("image", In(E))  BY <3>1, <3>4, OfCalls DEF IsRepeated
    <3> QED BY <3>1, <3>2, <3>3, <3>4
  <2> QED BY <2>1, <2>2
<1>2. ~ s.mgainIsOne => \A e \in In(E) : Call("image", e) \in V /\ Call("predict", e) \in V  BY OfCalls DEF Repeated
<1>3. s.mgainIsOne => \A e : Call("image", e) \notin V  BY <1>1, CallFacts DEF IsRepeated
<1> QED BY <1>1, <1>2, <1>3

\* After a deconvolution the group has its new models, and is imaged again.
LEMMA AfterDeconvolution ==
  ASSUME NEW s, NEW E, NEW W, \A c \in W : ~ IsTask(c),
         NEW res, NEW mod, NEW psf, NEW norm, NEW md, NEW int, NEW mj \in Nat, Restarted(s),
         GroupRight(s, E, W, res, mod, psf, norm, md, int, mj),
         NEW res2, NEW mod2, HoldsTable(res2, s), HoldsTable(mod2, s),
         \A e \in In(E) : e.polarization # "YX" =>
           ImageIn(mod2, e) = ModelFor(e, int, mj + 1) /\ ImageIn(res2, e) = Deepened(ImageIn(res, e), e, int, mj + 1),
         NEW again, NEW V, V = Repeated(E, s) \cup Ending(E, s, again)
  PROVE  GroupRight(s, E, V, res2, mod2, psf, norm, md, int, mj + 1)
<1>1. /\ \A c \in V : IsRepeated(c, E, s)
      /\ ~ s.mgainIsOne => \A e \in In(E) : Call("image", e) \in V /\ Call("predict", e) \in V
      /\ s.mgainIsOne => \A e : Call("image", e) \notin V  BY RepeatedFacts
<1>2. \A e : Call("invert", e) \notin V  BY <1>1, CallFacts DEF IsRepeated
<1>3. /\ \A e : IsImaged(e, W)
      /\ \A channel : HasPSF(channel, W)  BY CallFacts DEF IsImaged, HasPSF, IsTask, TaskKinds
<1>4. KindsRight(s, E, V, mj + 1)
  <2>1. \A c \in V : /\ c.do \in TaskKinds \cup {"save"} => c = Call(c.do, c.entry) /\ c.entry \in In(E)
                     /\ c.do \notin {"readModel", "psf", "invert"}
                     /\ c.do = "save" => ~ s.makePSFOnly  BY <1>1 DEF TaskKinds, IsRepeated
  <2>2. mj + 1 > 0  OBVIOUS
  <2> QED BY <2>1, <2>2 DEF KindsRight
<1>5. Paired(s, E, V)
  <2> SUFFICES ASSUME NEW x \in In(E), NEW y \in In(E), NEW k \in {"invert", "image"}, Call(k, x) \in V
               PROVE  Call(k, y) \in V  BY DEF Paired
  <2>1. k = "image"  BY <1>2
  <2> QED BY <1>1, <2>1
<1>6. ResidualsRight(s, E, V, res2, int, mj + 1)
  <2> SUFFICES ASSUME IsExamined(s), NEW e \in In(E), e.polarization # "YX", IsImaged(e, V)
               PROVE  ImageIn(res2, e) = ResidualOf(e, IsWhole(e, E, V), int, mj + 1)  BY DEF ResidualsRight
  <2>1. s.mgainIsOne  BY <1>1 DEF IsImaged
  <2>2. \A f : IsImaged(f, V)  BY <1>1, <1>2, <2>1 DEF IsImaged
  <2>3. IsWhole(e, E, V) = TRUE /\ IsWhole(e, E, W) = TRUE  BY <1>3, <2>2 DEF IsWhole
  <2>4. ImageIn(res, e) = ResidualOf(e, TRUE, int, mj)  BY <1>3, <2>3 DEF GroupRight, ResidualsRight
  <2> QED BY <2>3, <2>4, ResidualIsDeepened
<1>7. ModelsRight(s, E, mod2, int, mj + 1)  BY DEF ModelsRight
<1>8. DataRight(E, V, md, int, mj + 1)  BY <1>1 DEF DataRight
<1>9. PSFsRight(s, E, V, psf, norm, int)  BY <1>3 DEF GroupRight, PSFsRight
<1> QED BY <1>4, <1>5, <1>6, <1>7, <1>8, <1>9 DEF GroupRight

\* The calls of the outstanding tasks, what the client has still to call, and what is left.
CallOf(task) == Call(task.kind, task.entry)
PendingCalls(pend) == [t \in DOMAIN pend |-> CallOf(pend[t])]
Rest(cl, td) == IF cl = "run" THEN Tail(td) ELSE td
Left(R, pend) == Work(R, PendingCalls(pend))

\* The groups that are worked on one after the other.
GroupsOf(s) ==
  IF s.mode = "image" THEN IndependentGroups(MakeImagingTable(s)) ELSE SquaredGroups(MakeImagingTable(s))

\* Everything about the work on the g-th group.
Right(s, g, R, pend, mj, int, res, mod, psf, norm, md) ==
  /\ InOrder(R, PendingCalls(pend))
  /\ \A t \in DOMAIN pend : TaskRight(pend[t], md, int, mj)
  /\ g # 0 /\ s.mode = "image" =>
       GroupRight(s, GroupsOf(s)[g], Left(R, pend), res, mod, psf, norm, md, int, mj)
  /\ g # 0 /\ s.mode = "predict" =>
       PredictionRight(s, EntryAt(s, g), R, Left(R, pend), mod, int, mj)

\* A call other than waiting and deconvolving is for an entry.
LEMMA CallOfTask ==
  ASSUME NEW X, NEW c \in Calls(X), IsTask(c) \/ c.do \in {"save", "readModel"}
  PROVE  c = Call(c.do, c.entry) /\ c.entry \in X
<1>1. c \notin {[do |-> "finish"], [do |-> "deconvolve"]}  BY DEF IsTask, TaskKinds
<1>2. c \in [do : {"psf", "invert", "image", "predict", "save", "readModel"}, entry : X]  BY <1>1 DEF Calls
<1> QED BY <1>2 DEF Call

\* What is still to be called, and what is outstanding, is left.
LEMMA HeadIsLeft ==
  ASSUME NEW X, NEW R \in Seq(X), R # <<>>, NEW pend
  PROVE  /\ Head(R) \in Left(R, pend) /\ In(R) \subseteq Left(R, pend)
         /\ \A t \in DOMAIN pend : CallOf(pend[t]) \in Left(R, pend)
<1>1. Head(R) \in In(R)  BY HeadAndTail
<1> QED BY <1>1 DEF Left, Work, PendingCalls

\* An outstanding task is left.
LEMMA PendingIsLeft ==
  ASSUME NEW R, NEW pend, NEW t \in DOMAIN pend
  PROVE  CallOf(pend[t]) \in Left(R, pend) /\ PendingCalls(pend)[t] = CallOf(pend[t]) /\ t \in DOMAIN PendingCalls(pend)
  BY DEF Left, Work, PendingCalls

WithTask(pend, t, task) == [u \in DOMAIN pend \cup {t} |-> IF u = t THEN task ELSE pend[u]]
\* A task that has just been accepted.
TaskOf(c, carries) == [kind |-> c.do, entry |-> c.entry, carries |-> carries, result |-> NothingStored]

\* A task is accepted.
LEMMA AcceptedRight ==
  ASSUME NEW s, NEW X, NEW R \in Seq(Calls(X)), R # <<>>, IsTask(Head(R)),
         NEW g, NEW pend, NEW mj, NEW int, NEW res, NEW mod, NEW psf, NEW norm, NEW md,
         Right(s, g, R, pend, mj, int, res, mod, psf, norm, md),
         s.mode = "image" => g # 0,
         NEW t, t \notin DOMAIN pend, NEW carries, Head(R).do = "predict" => carries = ModelFor(Head(R).entry, int, mj)
  PROVE  Right(s, g, Tail(R), WithTask(pend, t, TaskOf(Head(R), carries)), mj, int, res, mod, psf, norm, md)
<1> DEFINE task == TaskOf(Head(R), carries)
           pend2 == WithTask(pend, t, task)
<1>10. /\ task = [kind |-> Head(R).do, entry |-> Head(R).entry, carries |-> carries, result |-> NothingStored]
       /\ pend2 = [u \in DOMAIN pend \cup {t} |-> IF u = t THEN task ELSE pend[u]]  BY DEF TaskOf, WithTask
<1> HIDE DEF task, pend2
<1>1. Head(R) \in Calls(X) /\ Len(R) \in Nat \ {0} /\ Head(R) = R[1] /\ Len(Tail(R)) = Len(R) - 1
      /\ \A i \in 1 .. Len(R) - 1 : Tail(R)[i] = R[i + 1]  BY HeadAndTail
<1>2. CallOf(task) = Head(R)  BY <1>1, <1>10, CallOfTask DEF CallOf
<1>3. PendingCalls(pend2) = WithCall(PendingCalls(pend), t, Head(R))
  <2>1. DOMAIN pend2 = DOMAIN PendingCalls(pend) \cup {t}  BY <1>10 DEF PendingCalls
  <2>2. \A u \in DOMAIN pend2 : CallOf(pend2[u]) = IF u = t THEN Head(R) ELSE PendingCalls(pend)[u]
    BY <1>2, <1>10 DEF PendingCalls
  <2> QED BY <2>1, <2>2 DEF PendingCalls, WithCall
<1>4. t \notin DOMAIN PendingCalls(pend) /\ InOrder(R, PendingCalls(pend))  BY DEF PendingCalls, Right
<1>5. InOrder(Tail(R), PendingCalls(pend2)) /\ Left(Tail(R), pend2) = Left(R, pend)
  BY <1>3, <1>4, AcceptedInOrder DEF Left
<1>6. ASSUME NEW u \in DOMAIN pend2 PROVE TaskRight(pend2[u], md, int, mj)
  <2>1. CASE u = t
    <3>1. pend2[u] = task  BY <1>10, <2>1
    <3>2. task.kind = Head(R).do /\ task.entry = Head(R).entry /\ task.carries = carries /\ task.result = NothingStored
      BY <1>10
    <3> QED BY <1>10, <3>1, <3>2 DEF TaskRight, IsTaskRecord
  <2>2. CASE u # t  BY <1>10, <2>2 DEF Right
  <2> QED BY <2>1, <2>2
<1>7. ASSUME g # 0, s.mode = "predict" PROVE PredictionRight(s, EntryAt(s, g), Tail(R), Left(Tail(R), pend2), mod, int, mj)
  <2>1. PredictionRight(s, EntryAt(s, g), R, Left(R, pend), mod, int, mj)  BY <1>7 DEF Right
  <2>2. Head(R) \in Left(R, pend)  BY HeadIsLeft
  <2>3. Head(R).do # "readModel"  BY DEF IsTask, TaskKinds
  <2>4. \A j \in 1 .. Len(R) : R[j].do # "readModel"  BY <1>1, <2>1, <2>3 DEF PredictionRight
  <2>5. \A j \in 1 .. Len(Tail(R)) : Tail(R)[j].do # "readModel"  BY <1>1, <2>4
  <2>6. Load(mod, ModelPol(EntryAt(s, g).polarization), EntryAt(s, g).outputChannelIndex) = ModelFor(EntryAt(s, g), int, 0)
    BY <2>1, <2>4 DEF PredictionRight
  <2> QED BY <1>5, <2>1, <2>5, <2>6 DEF PredictionRight
<1>8. ASSUME g # 0, s.mode = "image"
      PROVE  GroupRight(s, GroupsOf(s)[g], Left(Tail(R), pend2), res, mod, psf, norm, md, int, mj)
  BY <1>5, <1>8 DEF Right
<1>9. Right(s, g, Tail(R), pend2, mj, int, res, mod, psf, norm, md)  BY <1>5, <1>6, <1>7, <1>8 DEF Right
<1> QED BY <1>9 DEF pend2, task

\* The groups that are imaged.
LEMMA EntryGroups ==
  ASSUME NEW s, Good(s), s.mode = "image", NEW g, g # 0, g \in 0 .. Len(GroupsOf(s))
  PROVE  IsEntryGroup(GroupsOf(s)[g], s)
<1>1. GroupsOf(s) = IndependentGroups(MakeImagingTable(s))  BY DEF GroupsOf
<1>2. g \in 1 .. Len(IndependentGroups(MakeImagingTable(s)))  BY <1>1
<1> QED BY <1>1, <1>2, IndependentGroupFacts

Carried(x, mod, e, int, mj) == x = Load(mod, ModelOf(e), e.outputChannelIndex) => x = ModelFor(e, int, mj)

\* The model that a prediction takes along.
LEMMA CarriesRight ==
  ASSUME NEW s, Good(s), NEW X, NEW R \in Seq(X), R # <<>>, Head(R).do = "predict",
         NEW g, g # 0, g \in 0 .. Len(GroupsOf(s)), NEW pend, NEW mj \in Nat, NEW int, NEW res, NEW mod, NEW psf, NEW norm, NEW md,
         Right(s, g, R, pend, mj, int, res, mod, psf, norm, md), NEW x
  PROVE  Carried(x, mod, Head(R).entry, int, mj)
<1> SUFFICES Load(mod, ModelOf(Head(R).entry), Head(R).entry.outputChannelIndex) = ModelFor(Head(R).entry, int, mj)
  BY DEF Carried
<1> DEFINE W == Left(R, pend)
           e == Head(R).entry
           E == GroupsOf(s)[g]
<1> HIDE DEF W, E
<1>1. Head(R) \in W /\ Len(R) \in Nat \ {0} /\ Head(R) = R[1]  BY HeadIsLeft, HeadAndTail DEF W
<1>2. ModelOf(e) = ModelPol(e.polarization)  BY DEF ModelOf, ModelPol
<1>3. CASE s.mode = "image"
  <2>1. GroupRight(s, E, W, res, mod, psf, norm, md, int, mj)  BY <1>3 DEF Right, W, E
  <2>2. KindsRight(s, E, W, mj) /\ ModelsRight(s, E, mod, int, mj)  BY <2>1 DEF GroupRight
  <2>3. e \in In(E) /\ mj > 0 /\ Restarted(s)  BY <1>1, <2>2 DEF KindsRight, TaskKinds
  <2>4. \A f \in In(E) : f.polarization # "YX" => ImageIn(mod, f) = ModelFor(f, int, mj)
    BY <2>2, <2>3 DEF ModelsRight
  <2>5. IsEntryGroup(E, s)  BY <1>3, EntryGroups DEF E
  <2>6. CASE e.polarization # "YX"
    <3>1. ModelOf(e) = e.polarization  BY <2>6 DEF ModelOf
    <3>2. ImageIn(mod, e) = ModelFor(e, int, mj)  BY <2>3, <2>4, <2>6
    <3> QED BY <3>1, <3>2 DEF ImageIn
  <2>7. CASE e.polarization = "YX"
    <3>1. HasCross(s)  BY <2>3, <2>5, <2>7, GroupEntries
    <3>2. s.joinPolarizations  BY <2>3, <3>1, GoodFacts DEF Restarted
    <3>3. PICK y \in In(E) : AreTogether(y, e)  BY <2>3, <2>5, <2>7, <3>2, PartnersExist
    <3>4. ImageIn(mod, y) = ModelFor(y, int, mj) /\ y.polarization = "XY" /\ y.outputChannelIndex = e.outputChannelIndex
      BY <2>4, <3>3 DEF AreTogether
    <3>5. ModelFor(y, int, mj) = ModelFor(e, int, mj)  BY <2>7, <3>4 DEF ModelFor, ModelPol
    <3>6. ModelOf(e) = "XY"  BY <2>7 DEF ModelOf
    <3> QED BY <3>4, <3>5, <3>6 DEF ImageIn
  <2> QED BY <2>6, <2>7
<1>4. CASE s.mode = "predict"
  <2>1. PredictionRight(s, EntryAt(s, g), R, W, mod, int, mj)  BY <1>4 DEF Right, W
  <2>2. Head(R) \in {Call("readModel", EntryAt(s, g)), Call("predict", EntryAt(s, g)), Finish}
    BY <1>1, <2>1 DEF PredictionRight
  <2>3. Head(R) = Call("predict", EntryAt(s, g))  BY <2>2, CallFacts DEF Finish
  <2>4. e = EntryAt(s, g)  BY <2>3, CallFacts
  <2>5. \A j \in 1 .. Len(R) : R[j].do # "readModel"  BY <1>1, <2>1 DEF PredictionRight
  <2>6. mj = 0  BY <2>1 DEF PredictionRight
  <2>7. Load(mod, ModelPol(EntryAt(s, g).polarization), EntryAt(s, g).outputChannelIndex) = ModelFor(EntryAt(s, g), int, 0)
    BY <2>1, <2>5 DEF PredictionRight
  <2> QED BY <1>2, <2>4, <2>6, <2>7
<1> QED BY <1>3, <1>4, GoodFacts

\* The tasks that are pending are of the group.
LEMMA PendingEntries ==
  ASSUME NEW s, Good(s), NEW R, NEW g, g # 0, g \in 0 .. Len(GroupsOf(s)), Len(GroupsOf(s)) \in Nat,
         NEW pend, NEW mj, NEW int, NEW res, NEW mod, NEW psf, NEW norm, NEW md,
         Right(s, g, R, pend, mj, int, res, mod, psf, norm, md), NEW t \in DOMAIN pend
  PROVE  /\ pend[t].entry \in TableEntries(s) /\ pend[t].kind \in TaskKinds
         /\ s.mode = "image" => pend[t].entry \in In(GroupsOf(s)[g])
         /\ s.mode = "predict" => pend[t].kind = "predict"
<1> DEFINE W == Left(R, pend)
           c == CallOf(pend[t])
<1>1. c \in W /\ c.do = pend[t].kind /\ c.entry = pend[t].entry /\ IsTask(c)
  BY PendingIsLeft, CallFacts DEF Right, InOrder, Ahead, CallOf
<1> HIDE DEF W, c
<1>2. pend[t].kind \in TaskKinds  BY <1>1 DEF IsTask
<1>3. CASE s.mode = "image"
  <2>1. KindsRight(s, GroupsOf(s)[g], W, mj)  BY <1>3 DEF Right, GroupRight, W
  <2>2. pend[t].entry \in In(GroupsOf(s)[g])  BY <1>1, <1>2, <2>1 DEF KindsRight
  <2>3. IsEntryGroup(GroupsOf(s)[g], s)  BY <1>3, EntryGroups
  <2> QED BY <1>2, <1>3, <2>2, <2>3, GroupEntries
<1>4. CASE s.mode = "predict"
  <2>1. PredictionRight(s, EntryAt(s, g), R, W, mod, int, mj)  BY <1>4 DEF Right, W
  <2>2. c \in {Call("readModel", EntryAt(s, g)), Call("predict", EntryAt(s, g)), Finish}
    BY <1>1, <2>1 DEF PredictionRight
  <2>3. c.do # "readModel" /\ c.do # "finish"  BY <1>1 DEF IsTask, TaskKinds
  <2>4. c = Call("predict", EntryAt(s, g))  BY <2>2, <2>3, CallFacts DEF Finish
  <2>5. pend[t].kind = "predict" /\ pend[t].entry = EntryAt(s, g)  BY <1>1, <2>4, CallFacts
  <2>6. Len(GroupsOf(s)) = Size(s)  BY <1>4, PredictedGroups DEF ArePredicted, GroupsOf
  <2>7. g \in 1 .. Size(s)  BY <2>6, TableFacts
  <2> QED BY <1>2, <1>4, <2>5, <2>7 DEF TableEntries
<1> QED BY <1>3, <1>4, GoodFacts

\* What executing a task gives.
ResultOf(task, int, md) ==
  [polarization |-> task.entry.polarization, channel |-> task.entry.outputChannelIndex, interval |-> int,
   subtracted |-> IF task.kind = "image" THEN md[Imaged(task.entry)] ELSE NothingStored]

\* Its result is all that changes of a task.
LEMMA ExecutedTask ==
  ASSUME NEW p, IsTaskRecord(p), NEW r
  PROVE  /\ [p EXCEPT !.result = r].kind = p.kind /\ [p EXCEPT !.result = r].entry = p.entry
         /\ [p EXCEPT !.result = r].carries = p.carries /\ [p EXCEPT !.result = r].result = r
         /\ IsTaskRecord([p EXCEPT !.result = r])
<1>1. [p EXCEPT !.result = r] = [kind |-> p.kind, entry |-> p.entry, carries |-> p.carries, result |-> r]
  BY DEF IsTaskRecord
<1> QED BY <1>1 DEF IsTaskRecord

\* A prediction leaves the right model in the data.
LEMMA PredictedDataKept ==
  ASSUME NEW md, NEW z, NEW int, NEW mj, NEW x, x = ModelFor(z, int, mj),
         NEW f, Imaged(f) \in DOMAIN md, md[Imaged(f)] = ModelFor(f, int, mj)
  PROVE  [md EXCEPT ![Imaged(z)] = x][Imaged(f)] = ModelFor(f, int, mj)
<1>1. CASE Imaged(z) = Imaged(f)
  <2>1. z.polarization = f.polarization /\ z.outputChannelIndex = f.outputChannelIndex  BY <1>1 DEF Imaged
  <2>2. ModelFor(z, int, mj) = ModelFor(f, int, mj)  BY <2>1 DEF ModelFor
  <2> HIDE DEF Imaged
  <2> QED BY <1>1, <2>2
<1>2. CASE Imaged(z) # Imaged(f)  BY <1>2
<1> QED BY <1>1, <1>2

\* The outstanding tasks, and the model data, after a task was executed.
ExecutedPending(pend, t, int, md) == [pend EXCEPT ![t].result = ResultOf(pend[t], int, md)]
DataAfter(p, md) == IF p.kind = "predict" THEN [md EXCEPT ![Imaged(p.entry)] = p.carries] ELSE md

\* Executing a task, in whatever order, makes the result that the group needs.
LEMMA ExecutedRight ==
  ASSUME NEW s, Good(s), NEW R, NEW g, g # 0, g \in 0 .. Len(GroupsOf(s)), Len(GroupsOf(s)) \in Nat,
         NEW pend, NEW mj \in Nat, NEW int, NEW res, NEW mod, NEW psf, NEW norm, NEW md,
         Right(s, g, R, pend, mj, int, res, mod, psf, norm, md),
         \A e \in TableEntries(s) : Imaged(e) \in DOMAIN md,
         NEW t \in DOMAIN pend, pend[t].result = NothingStored
  PROVE  Right(s, g, R, ExecutedPending(pend, t, int, md), mj, int, res, mod, psf, norm, DataAfter(pend[t], md))
<1> DEFINE pend2 == ExecutedPending(pend, t, int, md)
           md2 == DataAfter(pend[t], md)
<1>16. /\ pend2 = [pend EXCEPT ![t].result = ResultOf(pend[t], int, md)]
       /\ md2 = IF pend[t].kind = "predict" THEN [md EXCEPT ![Imaged(pend[t].entry)] = pend[t].carries] ELSE md
  BY DEF ExecutedPending, DataAfter
<1> HIDE DEF pend2, md2
<1> DEFINE E == GroupsOf(s)[g]
           W == Left(R, pend)
           z == pend[t].entry
           k == pend[t].kind
           r == ResultOf(pend[t], int, md)
<1> HIDE DEF E, W, r
<1>1. \A u \in DOMAIN pend : TaskRight(pend[u], md, int, mj) /\ IsTaskRecord(pend[u])  BY DEF Right, TaskRight
<1>2. DOMAIN pend2 = DOMAIN pend /\ pend2[t] = [pend[t] EXCEPT !.result = r]
      /\ \A u \in DOMAIN pend : u # t => pend2[u] = pend[u]  BY <1>16 DEF r
<1>3. /\ pend2[t].kind = k /\ pend2[t].entry = z /\ pend2[t].carries = pend[t].carries /\ pend2[t].result = r
      /\ IsTaskRecord(pend2[t])
  <2>1. IsTaskRecord(pend[t])  BY <1>1
  <2>2. /\ [pend[t] EXCEPT !.result = r].kind = pend[t].kind /\ [pend[t] EXCEPT !.result = r].entry = pend[t].entry
        /\ [pend[t] EXCEPT !.result = r].carries = pend[t].carries /\ [pend[t] EXCEPT !.result = r].result = r
        /\ IsTaskRecord([pend[t] EXCEPT !.result = r])  BY <2>1, ExecutedTask
  <2> QED BY <1>2, <2>2
<1>4. \A u \in DOMAIN pend : CallOf(pend2[u]) = CallOf(pend[u])  BY <1>2, <1>3 DEF CallOf
<1>5. PendingCalls(pend2) = PendingCalls(pend)  BY <1>2, <1>4 DEF PendingCalls
<1>6. Left(R, pend2) = W  BY <1>5 DEF Left, W
<1>7. k = "predict" => pend[t].carries = ModelFor(z, int, mj)  BY <1>1 DEF TaskRight
<1>8. ASSUME NEW f \in TableEntries(s), md[Imaged(f)] = ModelFor(f, int, mj)
      PROVE  md2[Imaged(f)] = ModelFor(f, int, mj)
  <2>1. CASE k = "predict"
    <3>1. md2 = [md EXCEPT ![Imaged(z)] = pend[t].carries] /\ pend[t].carries = ModelFor(z, int, mj)
      BY <1>7, <1>16, <2>1
    <3>2. Imaged(f) \in DOMAIN md  OBVIOUS
    <3>3. [md EXCEPT ![Imaged(z)] = pend[t].carries][Imaged(f)] = ModelFor(f, int, mj)
      BY <1>8, <3>1, <3>2, PredictedDataKept
    <3> QED BY <3>1, <3>3
  <2>2. CASE k # "predict"  BY <1>8, <1>16, <2>2
  <2> QED BY <2>1, <2>2
<1>9. CallOf(pend[t]) = Call(k, z) /\ Call(k, z) \in W /\ PendingCalls(pend)[t] = Call(k, z)
      /\ t \in DOMAIN PendingCalls(pend) /\ InOrder(R, PendingCalls(pend))  BY PendingIsLeft DEF CallOf, W, Right
<1>10. \A c \in W : ~ Needs(c, Call(k, z))  BY <1>9, CalledBackInOrder DEF W, Left
<1>11. k = "image" => md[Imaged(z)] = ModelFor(z, int, mj)
  <2> SUFFICES ASSUME k = "image" PROVE md[Imaged(z)] = ModelFor(z, int, mj)  OBVIOUS
  <2>1. s.mode = "image" /\ z \in In(E)  BY PendingEntries, GoodFacts DEF E
  <2>2. DataRight(E, W, md, int, mj)  BY <2>1 DEF Right, GroupRight, E, W
  <2>3. Call("predict", z) \notin W  BY <1>10, CallFacts DEF Needs
  <2> QED BY <1>9, <2>1, <2>2, <2>3 DEF DataRight
<1>12. r = ResultFor(k, z, int, mj)  BY <1>11 DEF r, ResultOf, ResultFor
<1>13. k = "predict" => md2[Imaged(z)] = ModelFor(z, int, mj)
  <2> SUFFICES ASSUME k = "predict" PROVE md2[Imaged(z)] = ModelFor(z, int, mj)  OBVIOUS
  <2>1. z \in TableEntries(s)  BY PendingEntries
  <2>2. Imaged(z) \in DOMAIN md  BY <2>1
  <2> QED BY <1>7, <1>16, <2>2
<1>14. ASSUME NEW u \in DOMAIN pend2 PROVE TaskRight(pend2[u], md2, int, mj)
  <2>1. CASE u = t  BY <1>3, <1>7, <1>12, <1>13, <2>1 DEF TaskRight
  <2>2. CASE u # t
    <3>1. pend2[u] = pend[u] /\ TaskRight(pend[u], md, int, mj) /\ u \in DOMAIN pend  BY <1>1, <1>2, <2>2
    <3>2. pend[u].entry \in TableEntries(s)  BY <3>1, PendingEntries
    <3> QED BY <1>8, <3>1, <3>2 DEF TaskRight
  <2> QED BY <2>1, <2>2
<1>15. ASSUME s.mode = "image" PROVE GroupRight(s, E, W, res, mod, psf, norm, md2, int, mj)
  <2>1. GroupRight(s, E, W, res, mod, psf, norm, md, int, mj)  BY <1>15 DEF Right, E, W
  <2>2. In(E) \subseteq TableEntries(s)  BY <1>15, EntryGroups, GroupEntries DEF E
  <2>3. DataRight(E, W, md2, int, mj)  BY <1>8, <2>1, <2>2 DEF GroupRight, DataRight
  <2> QED BY <2>1, <2>3 DEF GroupRight
<1>17. InOrder(R, PendingCalls(pend2))  BY <1>5 DEF Right
<1>18. ASSUME s.mode = "predict" PROVE PredictionRight(s, EntryAt(s, g), R, W, mod, int, mj)  BY <1>18 DEF Right, W
<1> QED BY <1>6, <1>14, <1>15, <1>17, <1>18 DEF Right, E, pend2, md2

\* The outstanding tasks after a callback.
WithoutTask(pend, t) == [u \in DOMAIN pend \ {t} |-> pend[u]]

\* What the callback of a task changes apart from the images.
LEMMA CallbackFrame ==
  ASSUME NEW s, NEW R, NEW g, NEW pend, NEW mj, NEW int, NEW res, NEW mod, NEW psf, NEW norm, NEW md,
         Right(s, g, R, pend, mj, int, res, mod, psf, norm, md),
         NEW t \in DOMAIN pend
  PROVE  /\ InOrder(R, PendingCalls(WithoutTask(pend, t)))
         /\ IsOver(Left(R, WithoutTask(pend, t)), Left(R, pend), Call(pend[t].kind, pend[t].entry))
         /\ \A u \in DOMAIN WithoutTask(pend, t) : TaskRight(WithoutTask(pend, t)[u], md, int, mj)
<1> DEFINE calls == PendingCalls(pend)
           c == Call(pend[t].kind, pend[t].entry)
           pend2 == WithoutTask(pend, t)
<1>1. t \in DOMAIN calls /\ calls[t] = c /\ InOrder(R, calls)  BY DEF PendingCalls, CallOf, Right
<1>2. PendingCalls(pend2) = WithoutCall(calls, t)  BY DEF WithoutCall, PendingCalls, WithoutTask
<1>3. /\ InOrder(R, WithoutCall(calls, t))
      /\ Work(R, WithoutCall(calls, t)) \subseteq Work(R, calls)
      /\ Work(R, calls) \subseteq Work(R, WithoutCall(calls, t)) \cup {calls[t]}
      /\ calls[t] \in Work(R, calls)
      /\ IsTask(calls[t])
      /\ IsAdded(calls[t]) => calls[t] \notin Work(R, WithoutCall(calls, t))
      /\ \A d \in Work(R, calls) : ~ Needs(d, calls[t])  BY <1>1, CalledBackInOrder
<1>4. \A u \in DOMAIN pend2 : TaskRight(pend2[u], md, int, mj)  BY DEF WithoutTask, Right
<1> HIDE DEF calls, c, pend2
<1>5. IsOver(Left(R, pend2), Left(R, pend), c)  BY <1>1, <1>2, <1>3 DEF IsOver, Left, calls
<1> QED BY <1>2, <1>3, <1>4, <1>5 DEF c, pend2

\* A prediction: only the entry of the group is predicted.
LEMMA PredictionCalledBack ==
  ASSUME NEW s, NEW e, NEW R, NEW V, NEW W, NEW c, IsOver(V, W, c), NEW mod, NEW int, NEW mj,
         PredictionRight(s, e, R, W, mod, int, mj)
  PROVE  PredictionRight(s, e, R, V, mod, int, mj)  BY DEF PredictionRight, IsOver

\* The callbacks in an imaging group.
LEMMA PredictedInGroup ==
  ASSUME NEW s, NEW E, NEW V, NEW W, NEW z, IsOver(V, W, Call("predict", z)),
         NEW res, NEW mod, NEW psf, NEW norm, NEW md, NEW int, NEW mj,
         GroupRight(s, E, W, res, mod, psf, norm, md, int, mj), md[Imaged(z)] = ModelFor(z, int, mj)
  PROVE  GroupRight(s, E, V, res, mod, psf, norm, md, int, mj)
<1>1. V \subseteq W  BY DEF IsOver
<1>2. KindsRight(s, E, V, mj) /\ Paired(s, E, V)  BY <1>1, KindsAreKept, PairsAreKept DEF GroupRight
<1>3. ResidualsRight(s, E, V, res, int, mj)  BY ResidualsAreKept DEF GroupRight
<1>4. ModelsRight(s, E, mod, int, mj)  BY DEF GroupRight
<1>5. DataRight(E, V, md, int, mj)  BY DataIsKept DEF GroupRight
<1>6. PSFsRight(s, E, V, psf, norm, int)  BY PSFsAreKept DEF GroupRight
<1> QED BY <1>2, <1>3, <1>4, <1>5, <1>6 DEF GroupRight

\* A PSF is called back.
LEMMA PSFMadeInGroup ==
  ASSUME NEW s, NEW E, NEW V, NEW W, NEW z \in In(E), IsOver(V, W, Call("psf", z)),
         NEW res, NEW mod, NEW psf, NEW norm, NEW md, NEW int, NEW mj,
         GroupRight(s, E, W, res, mod, psf, norm, md, int, mj)
  PROVE  GroupRight(s, E, V, res, mod, Store(psf, PSFOf(z, int), Head(s.polarizations), z.outputChannelIndex),
                    norm \cup {z.outputChannelIndex}, md, int, mj)
<1>1. V \subseteq W  BY DEF IsOver
<1>2. KindsRight(s, E, V, mj) /\ Paired(s, E, V)  BY <1>1, KindsAreKept, PairsAreKept DEF GroupRight
<1>3. ResidualsRight(s, E, V, res, int, mj)  BY ResidualsAreKept DEF GroupRight
<1>4. ModelsRight(s, E, mod, int, mj)  BY DEF GroupRight
<1>5. DataRight(E, V, md, int, mj)  BY DataIsKept DEF GroupRight
<1>6. PSFsRight(s, E, V, Store(psf, PSFOf(z, int), Head(s.polarizations), z.outputChannelIndex),
                norm \cup {z.outputChannelIndex}, int)  BY PSFIsStored DEF GroupRight
<1> QED BY <1>2, <1>3, <1>4, <1>5, <1>6 DEF GroupRight

\* The PSFs of all channels are there when an image is called back.
LEMMA ImageIsNormalized ==
  ASSUME NEW s, NEW E, NEW V, NEW W, NEW k \in {"invert", "image"}, NEW z \in In(E), IsOver(V, W, Call(k, z)),
         NEW psf, NEW norm, NEW int, PSFsRight(s, E, W, psf, norm, int)
  PROVE  (MakesPSF(s) => z.outputChannelIndex \in norm) = TRUE
<1>1. \A c \in W : c.do # "psf"  BY CallFacts DEF IsOver, Needs
<1> QED BY <1>1 DEF PSFsRight, HasPSF

\* The image is stored or (YX) added.
IsCombined(new, set, z, part) ==
  /\ z.polarization # "YX" => new = Put(set, [parts |-> <<part>>], z)
  /\ z.polarization = "YX" =>
       new = Store(set, [parts |-> Append(PartsThere(set, z.outputChannelIndex), part)], "XY", z.outputChannelIndex)
\* The model images may be made anew when an image is inverted.
HasModels(new, set, k, s) == new = set \/ (k = "invert" /\ HoldsTable(new, s))

\* An image is called back.
LEMMA ImagedInGroup ==
  ASSUME NEW s, Good(s), NEW E, IsEntryGroup(E, s),
         NEW V, NEW W, NEW k \in {"invert", "image"}, NEW z \in In(E), IsOver(V, W, Call(k, z)),
         NEW res, NEW mod, NEW psf, NEW norm, NEW md, NEW int, NEW mj,
         GroupRight(s, E, W, res, mod, psf, norm, md, int, mj),
         NEW res2, IsCombined(res2, res, z, PartOf(z.polarization, z, int, mj)),
         NEW mod2, HasModels(mod2, mod, k, s)
  PROVE  GroupRight(s, E, V, res2, mod2, psf, norm, md, int, mj)
<1>1. V \subseteq W /\ Call(k, z) \in W  BY DEF IsOver
<1>2. KindsRight(s, E, V, mj) /\ Paired(s, E, V) /\ KindsRight(s, E, W, mj) /\ Paired(s, E, W)
  BY <1>1, KindsAreKept, PairsAreKept DEF GroupRight
<1>3. ResidualsRight(s, E, V, res2, int, mj)
  <2>1. CASE z.polarization = "YX"  BY <1>2, <2>1, ResidualIsAdded DEF GroupRight, IsCombined
  <2>2. CASE z.polarization # "YX"  BY <1>2, <2>2, ResidualIsStored DEF GroupRight, IsCombined
  <2> QED BY <2>1, <2>2
<1>4. ModelsRight(s, E, mod2, int, mj)
  <2>1. CASE mod2 = mod  BY <2>1 DEF GroupRight
  <2>2. CASE k = "invert" /\ HoldsTable(mod2, s)
    <3>1. mj = 0  BY <1>1, <1>2, <2>2, CallFacts DEF KindsRight
    <3> QED BY <2>2, <3>1 DEF ModelsRight
  <2> QED BY <2>1, <2>2 DEF HasModels
<1>5. DataRight(E, V, md, int, mj)  BY DataIsKept DEF GroupRight
<1>6. PSFsRight(s, E, V, psf, norm, int)  BY PSFsAreKept DEF GroupRight
<1> QED BY <1>2, <1>3, <1>4, <1>5, <1>6 DEF GroupRight

\* A call that is no task is over, when nothing is pending or it is not the end of a batch.
LEMMA SkipInOrder ==
  ASSUME NEW X, NEW R \in Seq(X), R # <<>>, NEW calls, InOrder(R, calls), DOMAIN calls = {} \/ Head(R).do # "finish"
  PROVE  /\ InOrder(Tail(R), calls)
         /\ Work(Tail(R), calls) \subseteq Work(R, calls)
         /\ Work(R, calls) \subseteq Work(Tail(R), calls) \cup {Head(R)}
<1>1. In(R) = {Head(R)} \cup In(Tail(R))  BY HeadAndTail
<1>2. Orderly(Tail(R))  BY TailIsOrderly DEF InOrder
<1>3. ASSUME NEW t \in DOMAIN calls PROVE Ahead(calls[t], Tail(R))
  <2>1. Head(R).do # "finish" /\ Ahead(calls[t], R)  BY DEF InOrder
  <2> QED BY <2>1, StillAhead
<1>4. InOrder(Tail(R), calls)  BY <1>2, <1>3 DEF InOrder
<1> QED BY <1>1, <1>4 DEF Work

\* What a prediction of one entry still has to do.
LEMMA SkippedPrediction ==
  ASSUME NEW s, NEW X, NEW R \in Seq(X), R # <<>>, NEW e, NEW V, NEW W, V \subseteq W, NEW mod, NEW mod2, NEW int, NEW mj,
         PredictionRight(s, e, R, W, mod, int, mj),
         mod2 = mod \/ (IsImageSet(mod2) /\ mod2.polCount = mod.polCount /\ mod2.freqCount = mod.freqCount),
         Head(R).do = "readModel" \/ mod2 # mod =>
           Load(mod2, ModelPol(e.polarization), e.outputChannelIndex) = ModelFor(e, int, 0)
  PROVE  PredictionRight(s, e, Tail(R), V, mod2, int, mj)
<1>1. Len(R) \in Nat \ {0} /\ Head(R) = R[1] /\ Len(Tail(R)) = Len(R) - 1
      /\ \A i \in 1 .. Len(R) - 1 : Tail(R)[i] = R[i + 1]  BY HeadAndTail
<1>2. ASSUME NEW j \in 1 .. Len(Tail(R)) PROVE Tail(R)[j].do # "readModel"
  <2>1. j + 1 \in 1 .. Len(R) /\ Tail(R)[j] = R[j + 1] /\ j + 1 # 1  BY <1>1
  <2> QED BY <2>1 DEF PredictionRight
<1>3. Load(mod2, ModelPol(e.polarization), e.outputChannelIndex) = ModelFor(e, int, 0)
  <2>1. CASE Head(R).do = "readModel" \/ mod2 # mod  BY <2>1
  <2>2. CASE Head(R).do # "readModel" /\ mod2 = mod
    <3>1. \A j \in 1 .. Len(R) : R[j].do # "readModel"  BY <1>1, <2>2 DEF PredictionRight
    <3> QED BY <2>2, <3>1 DEF PredictionRight
  <2> QED BY <2>1, <2>2
<1>4. /\ mj = 0
      /\ \A c \in V : c \in {Call("readModel", e), Call("predict", e), Finish}
      /\ IsImageSet(mod2) /\ mod2.polCount = Pols(s) /\ mod2.freqCount = 1  BY DEF PredictionRight
<1> QED BY <1>2, <1>3, <1>4 DEF PredictionRight

\* A call that is no task is over.
LEMMA SkippedRight ==
  ASSUME NEW s, NEW X, NEW R \in Seq(Calls(X)), R # <<>>, ~ IsTask(Head(R)), Head(R).do # "readModel",
         NEW g, NEW pend, NEW mj, NEW int, NEW res, NEW mod, NEW psf, NEW norm, NEW md,
         Right(s, g, R, pend, mj, int, res, mod, psf, norm, md),
         DOMAIN pend = {} \/ Head(R).do # "finish"
  PROVE  Right(s, g, Tail(R), pend, mj, int, res, mod, psf, norm, md)
<1> DEFINE calls == PendingCalls(pend)
           V == Left(Tail(R), pend)
           W == Left(R, pend)
<1>1. DOMAIN calls = {} \/ Head(R).do # "finish"  BY DEF PendingCalls
<1>2. InOrder(R, calls)  BY DEF Right
<1> HIDE DEF calls, V, W
<1>3. InOrder(Tail(R), calls) /\ V \subseteq W /\ W \subseteq V \cup {Head(R)}
  BY <1>1, <1>2, SkipInOrder DEF V, W, Left, calls
<1>4. SameTasks(V, W)  BY <1>3, WithoutOther DEF IsTask
<1>5. ASSUME g # 0, s.mode = "image" PROVE GroupRight(s, GroupsOf(s)[g], V, res, mod, psf, norm, md, int, mj)
  <2>1. GroupRight(s, GroupsOf(s)[g], W, res, mod, psf, norm, md, int, mj)  BY <1>5 DEF Right, W
  <2> QED BY <1>4, <2>1, SameTasksSameRights DEF GroupRight
<1>6. ASSUME g # 0, s.mode = "predict" PROVE PredictionRight(s, EntryAt(s, g), Tail(R), V, mod, int, mj)
  <2>1. PredictionRight(s, EntryAt(s, g), R, W, mod, int, mj)  BY <1>6 DEF Right, W
  <2> QED BY <1>3, <2>1, SkippedPrediction
<1> QED BY <1>3, <1>5, <1>6 DEF Right, calls, V

\* The image that was made before is read.
LEMMA ReadModelRight ==
  ASSUME NEW s, Good(s), NEW X, NEW R \in Seq(Calls(X)), R # <<>>, Head(R).do = "readModel",
         NEW g, g # 0, g \in 0 .. Len(GroupsOf(s)), NEW pend, NEW mj, NEW int, NEW res, NEW mod, NEW psf, NEW norm, NEW md,
         Right(s, g, R, pend, mj, int, res, mod, psf, norm, md),
         NEW mod2, NEW e, e = Head(R).entry,
         e.polarization = "YX" => mod2 = mod,
         e.polarization # "YX" => mod2 = Store(mod, ModelFor(e, int, 0), e.polarization, e.outputChannelIndex)
  PROVE  Right(s, g, Tail(R), pend, mj, int, res, mod2, psf, norm, md)
<1> DEFINE calls == PendingCalls(pend)
           V == Left(Tail(R), pend)
           W == Left(R, pend)
<1>2. InOrder(R, calls) /\ Head(R) \in W  BY HeadIsLeft DEF Right
<1> HIDE DEF calls, V, W
<1>3. InOrder(Tail(R), calls) /\ V \subseteq W /\ W \subseteq V \cup {Head(R)}
  BY <1>2, SkipInOrder DEF V, W, Left, calls
<1>4. s.mode = "predict"
  <2> SUFFICES ASSUME s.mode = "image" PROVE FALSE  BY GoodFacts
  <2>1. KindsRight(s, GroupsOf(s)[g], W, mj)  BY DEF Right, GroupRight, W
  <2> QED BY <1>2, <2>1 DEF KindsRight
<1>5. PredictionRight(s, EntryAt(s, g), R, W, mod, int, mj)  BY <1>4 DEF Right, W
<1>6. Head(R) \in {Call("readModel", EntryAt(s, g)), Call("predict", EntryAt(s, g)), Finish}
  BY <1>2, <1>5 DEF PredictionRight
<1>7. e = EntryAt(s, g)
  <2>1. Head(R) = Call("readModel", EntryAt(s, g))  BY <1>6, CallFacts DEF Finish
  <2> QED BY <2>1, CallFacts
<1>8. PredictionRight(s, e, Tail(R), V, mod2, int, mj)
  <2>1. CASE e.polarization = "YX"
    <3>1. Load(mod, ModelPol(e.polarization), e.outputChannelIndex) = ModelFor(e, int, 0)
      BY <1>5, <1>7, <2>1 DEF PredictionRight
    <3> QED BY <1>3, <1>5, <1>7, <2>1, <3>1, SkippedPrediction
  <2>2. CASE e.polarization # "YX"
    <3>1. IsImageSet(mod)  BY <1>5 DEF PredictionRight
    <3>2. /\ IsImageSet(mod2) /\ mod2.polCount = mod.polCount /\ mod2.freqCount = mod.freqCount
          /\ Load(mod2, e.polarization, e.outputChannelIndex) = ModelFor(e, int, 0)  BY <2>2, <3>1, StoredIsLoaded
    <3>3. ModelPol(e.polarization) = e.polarization  BY <2>2 DEF ModelPol
    <3> QED BY <1>3, <1>5, <1>7, <3>2, <3>3, SkippedPrediction
  <2> QED BY <2>1, <2>2
<1> QED BY <1>3, <1>4, <1>7, <1>8 DEF Right, calls, V

\* An image set that is made anew keeps its files.
LEMMA Initialized ==
  ASSUME NEW set, IsImageSet(set), NEW n, NEW m
  PROVE  /\ IsImageSet(Initialize(set, n, m))
         /\ Initialize(set, n, m).polCount = n /\ Initialize(set, n, m).freqCount = m
         /\ Initialize(set, n, m).files = set.files
<1>1. Initialize(set, n, m) = [polCount |-> n, freqCount |-> m, image |-> NothingStored, files |-> set.files]
  <2>1. PICK p, f, i, d : set = [polCount |-> p, freqCount |-> f, image |-> i, files |-> d]  BY DEF IsImageSet
  <2>2. PICK o : o = NothingStored  OBVIOUS
  <2>3. [set EXCEPT !.polCount = n, !.freqCount = m, !.image = o]
          = [polCount |-> n, freqCount |-> m, image |-> o, files |-> d]
    <3> DEFINE one == [set EXCEPT !.polCount = n]
               two == [one EXCEPT !.freqCount = m]
    <3>1. one = [polCount |-> n, freqCount |-> f, image |-> i, files |-> d]  BY <2>1
    <3> HIDE DEF one
    <3>2. two = [polCount |-> n, freqCount |-> m, image |-> i, files |-> d]  BY <3>1
    <3> HIDE DEF two
    <3>3. [two EXCEPT !.image = o] = [polCount |-> n, freqCount |-> m, image |-> o, files |-> d]  BY <3>2
    <3>4. [[[set EXCEPT !.polCount = n] EXCEPT !.freqCount = m] EXCEPT !.image = o]
            = [set EXCEPT !.polCount = n, !.freqCount = m, !.image = o]  OBVIOUS
    <3> QED BY <3>3, <3>4 DEF one, two
  <2>4. set.files = d  BY <2>1
  <2> QED BY <2>2, <2>3, <2>4 DEF Initialize
<1> QED BY <1>1 DEF IsImageSet

\* The first polarization.
LEMMA HeadPol ==
  ASSUME NEW s, Good(s)
  PROVE  Head(s.polarizations) = s.polarizations[1] /\ 1 \in 1 .. Pols(s)
<1>1. s.polarizations \in Seq(DOMAIN PolarizationEnum) /\ s.polarizations # <<>>  BY SettingsAssumption DEF Good
<1>2. Pols(s) \in Nat \ {0}  BY GoodFacts
<1> QED BY <1>1, <1>2, HeadAndTail

\* The PSFs of a group that does not make them were made in the group before it.
LEMMA PSFsAtStart ==
  ASSUME NEW s, Good(s), s.mode = "image", NEW g \in Nat, g < Len(GroupsOf(s)),
         NEW psf, NEW norm, NEW int, IsImageSet(psf),
         NEW W, g # 0 => PSFsRight(s, GroupsOf(s)[g], W, psf, norm, int), \A c \in W : ~ IsTask(c),
         NEW E, E = GroupsOf(s)[g + 1],
         NEW psf2, psf2 = IF E[1].polarization = Head(s.polarizations)
                          THEN Initialize(psf, 1, Len(SquaredGroups(E))) ELSE psf
  PROVE  PSFsStart(s, E, psf2, norm, int)
<1>1. AreConsecutive(GroupsOf(s), s)  BY ChannelsOfConsecutiveGroups DEF GroupsOf
<1>2. Len(GroupsOf(s)) \in Nat /\ g + 1 \in 1 .. Len(GroupsOf(s))  BY <1>1 DEF AreConsecutive
<1>3. IsEntryGroup(E, s)  BY <1>1, <1>2 DEF AreConsecutive
<1>4. Len(E) \in Nat \ {0} /\ \A i \in 1 .. Len(E) : E[i] \in In(E)  BY <1>3, GroupEntries
<1>5. CASE E[1].polarization = Head(s.polarizations)
  <2>1. IsImageSet(psf2) /\ psf2.polCount = 1 /\ psf2.freqCount = Len(SquaredGroups(E))  BY <1>5, Initialized
  <2>2. psf2.freqCount = 1 => \A e, f \in In(E) : e.outputChannelIndex = f.outputChannelIndex
    <3>1. AreSquared(SquaredGroups(E), E, TableEntries(s))  BY <1>3, SquaredGroupsOfAGroup
    <3> QED BY <2>1, <3>1 DEF AreSquared
  <2>3. ASSUME NEW e \in In(E)
        PROVE  \E f \in In(E) : f.polarization = Head(s.polarizations) /\ f.outputChannelIndex = e.outputChannelIndex
    <3>1. PICK i \in 1 .. Len(E) : e = E[i]  BY DEF In
    <3>2. CASE s.joinPolarizations
      <4>1. \E j \in 1 .. Len(E) : E[j].polarization = s.polarizations[1] /\ E[j].outputChannelIndex = E[i].outputChannelIndex
        BY <1>3, <3>2, HeadPol DEF IsEntryGroup
      <4> QED BY <1>4, <3>1, <4>1, HeadPol
    <3>3. CASE ~ s.joinPolarizations
      <4>1. E[i].polarization = E[1].polarization  BY <1>3, <1>4, <3>3 DEF IsEntryGroup
      <4> QED BY <1>5, <3>1, <4>1
    <3> QED BY <3>2, <3>3
  <2> QED BY <2>1, <2>2, <2>3 DEF PSFsStart
<1>6. CASE E[1].polarization # Head(s.polarizations)
  <2>1. g # 0  BY <1>1, <1>6, HeadPol DEF AreConsecutive
  <2>2. g \in 1 .. Len(GroupsOf(s)) - 1  BY <1>2, <2>1
  <2>3. PSFsRight(s, GroupsOf(s)[g], W, psf, norm, int) /\ psf2 = psf  BY <1>6, <2>1
  <2>4. \A k \in 1 .. Len(E) : \E l \in 1 .. Len(GroupsOf(s)[g]) :
          GroupsOf(s)[g][l].outputChannelIndex = E[k].outputChannelIndex
    BY <1>1, <1>6, <2>2, HeadPol DEF AreConsecutive
  <2>5. ASSUME NEW e \in In(E) PROVE \E f \in In(GroupsOf(s)[g]) : f.outputChannelIndex = e.outputChannelIndex
    BY <2>4 DEF In
  <2>6. \A channel : HasPSF(channel, W)  BY DEF HasPSF, IsTask, TaskKinds
  <2>7. psf.freqCount = 1 => \A e, f \in In(E) : e.outputChannelIndex = f.outputChannelIndex
    <3> SUFFICES ASSUME psf.freqCount = 1, NEW e \in In(E), NEW f \in In(E)
                 PROVE  e.outputChannelIndex = f.outputChannelIndex  OBVIOUS
    <3>1. PICK x \in In(GroupsOf(s)[g]) : x.outputChannelIndex = e.outputChannelIndex  BY <2>5
    <3>2. PICK y \in In(GroupsOf(s)[g]) : y.outputChannelIndex = f.outputChannelIndex  BY <2>5
    <3> QED BY <2>3, <3>1, <3>2 DEF PSFsRight
  <2>8. ASSUME MakesPSF(s), NEW e \in In(E)
        PROVE  /\ e.outputChannelIndex \in norm
               /\ Load(psf, Head(s.polarizations), e.outputChannelIndex) =
                    [channel |-> e.outputChannelIndex, interval |-> int]
    <3>1. PICK x \in In(GroupsOf(s)[g]) : x.outputChannelIndex = e.outputChannelIndex  BY <2>5
    <3>2. /\ x.outputChannelIndex \in norm
          /\ Load(psf, Head(s.polarizations), x.outputChannelIndex) =
               [channel |-> x.outputChannelIndex, interval |-> int]  BY <2>3, <2>6, <2>8 DEF PSFsRight
    <3> QED BY <3>1, <3>2
  <2> QED BY <2>3, <2>7, <2>8 DEF PSFsStart, PSFsRight
<1> QED BY <1>5, <1>6

\* The model of XY that was read stays in its file when YX is predicted.
LEMMA PredictionAtStart ==
  ASSUME NEW s, Good(s), s.mode = "predict", NEW g \in Nat, g < Len(GroupsOf(s)),
         NEW mod, NEW int, IsImageSet(mod), NEW V, NEW mj,
         g # 0 => PredictionRight(s, EntryAt(s, g), <<>>, V, mod, int, mj),
         NEW e, e = EntryAt(s, g + 1),
         NEW R, R = <<[do |-> "readModel", entry |-> e], [do |-> "predict", entry |-> e], [do |-> "finish"]>>
  PROVE  PredictionRight(s, e, R, In(R), Initialize(mod, Pols(s), 1), int, 0)
<1> DEFINE new == Initialize(mod, Pols(s), 1)
<1>1. IsImageSet(new) /\ new.polCount = Pols(s) /\ new.freqCount = 1 /\ new.files = mod.files  BY Initialized
<1> HIDE DEF new
<1>2. ArePredicted(GroupsOf(s), s)  BY PredictedGroups DEF GroupsOf
<1>3. Len(R) = 3 /\ R[1] = Call("readModel", e) /\ R[2] = Call("predict", e) /\ R[3] = Finish  BY DEF Call, Finish
<1>4. \A c \in In(R) : c \in {Call("readModel", e), Call("predict", e), Finish}
  <2>1. \A i \in 1 .. 3 : i = 1 \/ i = 2 \/ i = 3  OBVIOUS
  <2> QED BY <1>3, <2>1 DEF In
<1>5. \A j \in 1 .. Len(R) : R[j].do = "readModel" => j = 1
  <2>1. \A i \in 1 .. 3 : i = 1 \/ i = 2 \/ i = 3  OBVIOUS
  <2>2. R[2].do # "readModel" /\ R[3].do # "readModel"  BY <1>3, CallFacts DEF Finish
  <2> QED BY <1>3, <2>1, <2>2
<1>6. ~ \A j \in 1 .. Len(R) : R[j].do # "readModel"  BY <1>3, CallFacts
<1>7. ASSUME e.polarization = "YX"
      PROVE  Load(new, ModelPol(e.polarization), e.outputChannelIndex) = ModelFor(e, int, 0)
  <2>1. Size(s) \in Nat /\ g + 1 \in 1 .. Size(s)  BY <1>2, TableFacts DEF ArePredicted
  <2>2. /\ (g + 1) - 1 \in 1 .. Size(s)
        /\ EntryAt(s, (g + 1) - 1).polarization = "XY"
        /\ EntryAt(s, (g + 1) - 1).outputChannelIndex = e.outputChannelIndex  BY <1>2, <1>7, <2>1 DEF ArePredicted
  <2> DEFINE f == EntryAt(s, g)
  <2>3. (g + 1) - 1 = g /\ g # 0 /\ f.polarization = "XY" /\ f.outputChannelIndex = e.outputChannelIndex
    BY <2>1, <2>2
  <2> HIDE DEF f
  <2>4. PredictionRight(s, f, <<>>, V, mod, int, mj)  BY <2>3 DEF f
  <2>5. Load(mod, ModelPol(f.polarization), f.outputChannelIndex) = ModelFor(f, int, 0)
    <3>1. Len(<<>>) = 0  OBVIOUS
    <3>2. \A j \in 1 .. Len(<<>>) : FALSE  BY <3>1
    <3> QED BY <2>4, <3>2 DEF PredictionRight
  <2>6. ModelFor(f, int, 0) = ModelFor(e, int, 0) /\ ModelPol(f.polarization) = "XY" /\ ModelPol(e.polarization) = "XY"
    BY <1>7, <2>3 DEF ModelFor, ModelPol
  <2>7. Pols(s) # 1
    <3>1. EntryAt(s, g) \in TableEntries(s) /\ e \in TableEntries(s)  BY <2>1, <2>2, <2>3 DEF TableEntries
    <3>2. PICK p \in 1 .. Pols(s) : s.polarizations[p] = "XY"  BY <2>3, <3>1, EntryFacts DEF f
    <3>3. PICK q \in 1 .. Pols(s) : s.polarizations[q] = "YX"  BY <1>7, <3>1, EntryFacts
    <3>4. p # q  BY <3>2, <3>3
    <3> QED BY <3>4, GoodFacts
  <2>8. mod.polCount = Pols(s) /\ mod.freqCount = 1  BY <2>4 DEF PredictionRight
  <2>9. Load(new, "XY", e.outputChannelIndex) = Load(mod, "XY", e.outputChannelIndex)
    BY <1>1, <2>7, <2>8 DEF Load, InMemory, FileOf
  <2> QED BY <2>3, <2>5, <2>6, <2>9
<1>8. PredictionRight(s, e, R, In(R), new, int, 0)  BY <1>1, <1>4, <1>5, <1>6, <1>7 DEF PredictionRight
<1> QED BY <1>8 DEF new

\* The calls of a prediction are in order.
LEMMA PredictionIsWork ==
  ASSUME NEW X, NEW e \in X,
         NEW R, R = <<[do |-> "readModel", entry |-> e], [do |-> "predict", entry |-> e], [do |-> "finish"]>>
  PROVE  IsWork(R, In(R), X)
<1>1. Len(R) = 3 /\ R[1] = Call("readModel", e) /\ R[2] = Call("predict", e) /\ R[3] = Finish  BY DEF Call, Finish
<1>2. R \in Seq(Calls(X))
  <2>1. [do |-> "readModel", entry |-> e] \in Calls(X) /\ [do |-> "predict", entry |-> e] \in Calls(X)
        /\ [do |-> "finish"] \in Calls(X)  BY DEF Calls
  <2> QED BY <2>1
<1>3. \A i \in 1 .. 3 : i = 1 \/ i = 2 \/ i = 3  OBVIOUS
<1>4. R[1].do = "readModel" /\ R[2].do = "predict" /\ R[3].do = "finish"  BY <1>1, CallFacts DEF Finish
<1>5. \A i, j \in 1 .. Len(R) : ~ Needs(R[i], R[j])  BY <1>1, <1>3, <1>4 DEF Needs
<1>6. \A i \in 1 .. Len(R) : IsTask(R[i]) => FinishBetween(R, i, Len(R) + 1)
  <2>1. FinishBetween(R, 2, Len(R) + 1)  BY <1>1, <1>4 DEF FinishBetween
  <2> QED BY <1>1, <1>3, <1>4, <2>1 DEF IsTask, TaskKinds
<1>7. \A i \in 1 .. Len(R) : ~ IsAdded(R[i])  BY <1>1, <1>3, <1>4 DEF IsAdded
<1> QED BY <1>2, <1>5, <1>6, <1>7 DEF IsWork, Orderly

\* The calls there are, with these settings.
Table(s) == Calls(TableEntries(s))

\* The types of the run.
RunTyped ==
  /\ Good(settings) /\ imagingTable = MakeImagingTable(settings)
  /\ accepted \in Nat /\ called \subseteq 1 .. accepted /\ DOMAIN pending = Outstanding
  /\ todo \in Seq(Table(settings))
  /\ client \in {"idle", "run", "finish"}
  /\ client = "run" => todo # <<>>
  /\ client = "finish" => todo # <<>> /\ Head(todo).do = "finish"
  /\ Len(GroupsOf(settings)) \in Nat /\ groupIndex \in 0 .. Len(GroupsOf(settings))
  /\ groupIndex = 0 => todo = <<>>
  /\ major \in Nat
  /\ \A e \in TableEntries(settings) : Imaged(e) \in DOMAIN modelData
  /\ IsImageSet(residualImages) /\ IsImageSet(modelImages) /\ IsImageSet(psfImages)

\* What is right at any time, between groups as well.
RunRight ==
  Right(settings, groupIndex, Rest(client, todo), pending, major, interval,
        residualImages, modelImages, psfImages, psfNormalized, modelData)

\* The inductive invariant.
RunInv == RunTyped /\ RunRight

\* Between groups nothing is outstanding.
LEMMA NothingIsRight ==
  ASSUME NEW s, NEW pend, DOMAIN pend = {},
         NEW mj, NEW int, NEW res, NEW mod, NEW psf, NEW norm, NEW md
  PROVE  Right(s, 0, <<>>, pend, mj, int, res, mod, psf, norm, md)
<1>1. Len(<<>>) = 0  OBVIOUS
<1>2. \A i \in 1 .. Len(<<>>) : FALSE  BY <1>1
<1>3. Orderly(<<>>)  BY <1>2 DEF Orderly
<1> QED BY <1>3 DEF Right, InOrder, PendingCalls

\* There is at least one group.
LEMMA GroupCount ==
  ASSUME NEW s, Good(s)
  PROVE  /\ Len(GroupsOf(s)) \in Nat \ {0}
         /\ s.mode = "image" => GroupsOf(s) = IndependentGroups(MakeImagingTable(s))
         /\ s.mode = "predict" => GroupsOf(s) = SquaredGroups(MakeImagingTable(s)) /\ Len(GroupsOf(s)) = Size(s)
<1>1. CASE s.mode = "image"  BY <1>1, ChannelsOfConsecutiveGroups DEF GroupsOf, AreConsecutive
<1>2. CASE s.mode = "predict"  BY <1>2, PredictedGroups, TableFacts DEF GroupsOf, ArePredicted
<1> QED BY <1>1, <1>2, GoodFacts

\* A run starts without any images.
LEMMA InvAtStart == RunInit => RunInv
<1> SUFFICES ASSUME RunInit PROVE RunInv  OBVIOUS
<1>1. Good(settings) /\ imagingTable = MakeImagingTable(settings)  BY DEF RunInit, Good
<1>2. accepted = 0 /\ called = {} /\ DOMAIN pending = {} /\ Outstanding = {}  BY DEF RunInit, Outstanding
<1>3. IsImageSet(NewImageSet)  BY DEF NewImageSet, IsImageSet
<1>4. \A e \in TableEntries(settings) : Imaged(e) \in DOMAIN modelData
  <2> SUFFICES ASSUME NEW e \in TableEntries(settings) PROVE Imaged(e) \in DOMAIN modelData  OBVIOUS
  <2>1. PICK i \in 1 .. Size(settings) : e = EntryAt(settings, i)  BY DEF TableEntries
  <2>2. MakeImagingTable(settings) \in Seq(TableEntries(settings)) /\ Len(MakeImagingTable(settings)) = Size(settings)
    BY <1>1, TableFacts
  <2>3. i \in DOMAIN imagingTable /\ e = imagingTable[i]  BY <1>1, <2>1, <2>2 DEF EntryAt
  <2>4. DOMAIN modelData = {Imaged(imagingTable[j]) : j \in DOMAIN imagingTable}  BY DEF RunInit
  <2> QED BY <2>3, <2>4
<1>5. todo = <<>> /\ todo \in Seq(Table(settings)) /\ client = "idle" /\ groupIndex = 0 /\ major = 0  BY DEF RunInit
<1>6. RunTyped  BY <1>1, <1>2, <1>3, <1>4, <1>5, GroupCount DEF RunTyped, RunInit
<1>7. Rest(client, todo) = <<>>  BY <1>5 DEF Rest
<1>8. RunRight  BY <1>2, <1>5, <1>7, NothingIsRight DEF RunRight
<1> QED BY <1>6, <1>8 DEF RunInv

\* A task is pending only while a group is worked on.
LEMMA PendingInAGroup ==
  ASSUME RunInv, NEW t \in DOMAIN pending
  PROVE  groupIndex # 0
<1> SUFFICES ASSUME groupIndex = 0 PROVE FALSE  OBVIOUS
<1>1. Rest(client, todo) = <<>> /\ <<>> \in Seq(Table(settings))  BY DEF RunInv, RunTyped, Rest
<1>2. InOrder(<<>>, PendingCalls(pending))  BY <1>1 DEF RunInv, RunRight, Right
<1>3. DOMAIN PendingCalls(pending) = {}  BY <1>1, <1>2, NothingIsPending
<1> QED BY <1>3 DEF PendingCalls

\* A task is accepted under a new number.
LEMMA AcceptedAsNext ==
  ASSUME RunInv, NEW task, CallRun, pending' = NewPending(task)
  PROVE  /\ accepted + 1 \notin DOMAIN pending /\ client = "idle" /\ client' = "run"
         /\ accepted' \in Nat /\ called' \subseteq 1 .. accepted' /\ DOMAIN pending' = Outstanding'
<1>1. accepted \in Nat /\ called \subseteq 1 .. accepted /\ DOMAIN pending = (1 .. accepted) \ called
  BY DEF RunInv, RunTyped, Outstanding
<1>2. accepted' = accepted + 1 /\ called' = called /\ client = "idle" /\ client' = "run"  BY DEF CallRun
<1>3. DOMAIN pending' = DOMAIN pending \cup {accepted + 1}  BY DEF NewPending
<1>4. Outstanding' = (1 .. accepted + 1) \ called  BY <1>2 DEF Outstanding
<1>5. 1 .. accepted + 1 = (1 .. accepted) \cup {accepted + 1} /\ accepted + 1 \notin 1 .. accepted  BY <1>1
<1>6. DOMAIN pending' = Outstanding'  BY <1>1, <1>3, <1>4, <1>5
<1> QED BY <1>1, <1>2, <1>5, <1>6

\* A task that is accepted is the next of the work.
LEMMA AcceptedKeepsInv ==
  ASSUME RunInv, CallRun, todo # <<>>, IsTask(Head(todo)),
         NEW carries, Head(todo).do = "predict" => carries = ModelFor(Head(todo).entry, interval, major),
         pending' = NewPending([kind |-> Head(todo).do, entry |-> Head(todo).entry,
                                carries |-> carries, result |-> NothingStored]),
         UNCHANGED <<settings, runVars, dataVars, setVars>>
  PROVE  RunInv'
<1>1. /\ accepted + 1 \notin DOMAIN pending /\ client = "idle" /\ client' = "run"
      /\ accepted' \in Nat /\ called' \subseteq 1 .. accepted' /\ DOMAIN pending' = Outstanding'  BY AcceptedAsNext
<1>2. todo \in Seq(Table(settings)) /\ groupIndex # 0  BY DEF RunInv, RunTyped
<1>3. UNCHANGED <<settings, imagingTable, interval, groupIndex, todo, major, modelData, psfNormalized,
                  residualImages, modelImages, psfImages>>  BY DEF runVars, dataVars, setVars
<1>4. RunTyped'  BY <1>1, <1>2, <1>3 DEF RunInv, RunTyped
<1>5. Rest(client, todo) = todo /\ Rest(client', todo') = Tail(todo)  BY <1>1, <1>3 DEF Rest
<1>6. Right(settings, groupIndex, todo, pending, major, interval,
            residualImages, modelImages, psfImages, psfNormalized, modelData)  BY <1>5 DEF RunInv, RunRight
<1>7. pending' = WithTask(pending, accepted + 1, TaskOf(Head(todo), carries))  BY DEF NewPending, WithTask, TaskOf
<1>8. Right(settings, groupIndex, Tail(todo), pending', major, interval,
            residualImages, modelImages, psfImages, psfNormalized, modelData)
  <2>1. todo \in Seq(Calls(TableEntries(settings)))  BY <1>2 DEF Table
  <2>2. Right(settings, groupIndex, Tail(todo), WithTask(pending, accepted + 1, TaskOf(Head(todo), carries)), major, interval,
            residualImages, modelImages, psfImages, psfNormalized, modelData)
    BY <1>1, <1>2, <1>6, <2>1, AcceptedRight
  <2> QED BY <1>7, <2>2
<1>9. RunRight'  BY <1>3, <1>5, <1>8 DEF RunRight
<1> QED BY <1>4, <1>9 DEF RunInv

\* PSFs, first inversions and images of a major iteration are accepted,
LEMMA InversionKeepsInv == ASSUME RunInv, RunInversion PROVE RunInv'
<1>1. todo # <<>> /\ Head(todo).do \in {"psf", "invert", "image"} /\ CallRun  BY DEF RunInversion, Now
<1>2. IsTask(Head(todo)) /\ Head(todo).do # "predict"  BY <1>1 DEF IsTask, TaskKinds
<1>3. /\ pending' = NewPending([kind |-> Head(todo).do, entry |-> Head(todo).entry,
                                carries |-> NothingStored, result |-> NothingStored])
      /\ UNCHANGED <<settings, runVars, dataVars, setVars>>  BY DEF RunInversion
<1> QED BY <1>1, <1>2, <1>3, AcceptedKeepsInv

\* and predictions, which take the model along.
LEMMA PredictionKeepsInv == ASSUME RunInv, RunPrediction PROVE RunInv'
<1> DEFINE e == Head(todo).entry
           carries == Load(modelImages, ModelOf(e), e.outputChannelIndex)
<1>1. todo # <<>> /\ Head(todo).do = "predict" /\ CallRun /\ client = "idle"  BY DEF RunPrediction, Now
<1>2. IsTask(Head(todo))  BY <1>1 DEF IsTask, TaskKinds
<1>3. /\ pending' = NewPending([kind |-> Head(todo).do, entry |-> e, carries |-> carries, result |-> NothingStored])
      /\ UNCHANGED <<settings, runVars, dataVars, setVars>>  BY <1>1 DEF RunPrediction
<1>4. /\ Right(settings, groupIndex, todo, pending, major, interval,
               residualImages, modelImages, psfImages, psfNormalized, modelData)
      /\ todo \in Seq(Table(settings)) /\ groupIndex # 0 /\ groupIndex \in 0 .. Len(GroupsOf(settings))
      /\ Good(settings) /\ major \in Nat  BY <1>1 DEF RunInv, RunTyped, RunRight, Rest
<1>5. carries = ModelFor(e, interval, major)
  <2>1. todo # <<>> /\ Head(todo).do = "predict"  BY <1>1
  <2>2. Carried(carries, modelImages, Head(todo).entry, interval, major)  BY <1>4, <2>1, CarriesRight
  <2> QED BY <2>2 DEF Carried
<1> HIDE DEF carries
<1>6. Head(todo).do = "predict" => carries = ModelFor(Head(todo).entry, interval, major)  BY <1>5
<1>7. pending' = NewPending([kind |-> Head(todo).do, entry |-> Head(todo).entry, carries |-> carries, result |-> NothingStored])
  BY <1>3
<1> QED BY <1>1, <1>2, <1>3, <1>6, <1>7, AcceptedKeepsInv

\* The client goes on.
LEMMA ReturnKeepsInv == ASSUME RunInv, EndRun PROVE RunInv'
<1>1. /\ client = "run" /\ client' = "idle" /\ todo' = Tail(todo) /\ UNCHANGED <<accepted, called>>
      /\ UNCHANGED <<settings, imagingTable, interval, groupIndex, major, pending, modelData, psfNormalized,
                     residualImages, modelImages, psfImages>>  BY DEF EndRun, ReturnRun, dataVars, setVars
<1>2. todo \in Seq(Table(settings)) /\ todo # <<>> /\ groupIndex # 0  BY <1>1 DEF RunInv, RunTyped
<1>3. todo' \in Seq(Table(settings'))  BY <1>1, <1>2, HeadAndTail
<1>4. Rest(client', todo') = Rest(client, todo)  BY <1>1 DEF Rest
<1>5. Outstanding' = Outstanding  BY <1>1 DEF Outstanding
<1>6. RunTyped'  BY <1>1, <1>2, <1>3, <1>5 DEF RunInv, RunTyped
<1>7. RunRight'  BY <1>1, <1>4 DEF RunInv, RunRight
<1> QED BY <1>6, <1>7 DEF RunInv

\* The client waits for all tasks,
LEMMA FinishingKeepsInv == ASSUME RunInv, BeginFinish PROVE RunInv'
<1>1. /\ client = "idle" /\ client' = "finish" /\ todo # <<>> /\ Head(todo).do = "finish" /\ UNCHANGED <<accepted, called>>
      /\ UNCHANGED <<settings, imagingTable, interval, groupIndex, todo, major, pending, modelData, psfNormalized,
                     residualImages, modelImages, psfImages>>
  BY DEF BeginFinish, CallFinish, Now, runVars, dataVars, setVars
<1>2. Rest(client', todo') = Rest(client, todo)  BY <1>1 DEF Rest
<1>3. Outstanding' = Outstanding  BY <1>1 DEF Outstanding
<1>4. RunTyped'  BY <1>1, <1>3 DEF RunInv, RunTyped
<1>5. RunRight'  BY <1>1, <1>2 DEF RunInv, RunRight
<1> QED BY <1>4, <1>5 DEF RunInv

\* and goes on when all have been called back.
LEMMA FinishedKeepsInv == ASSUME RunInv, EndFinish PROVE RunInv'
<1>1. /\ client = "finish" /\ client' = "idle" /\ todo' = Tail(todo) /\ UNCHANGED <<accepted, called>> /\ Outstanding = {}
      /\ UNCHANGED <<settings, imagingTable, interval, groupIndex, major, pending, modelData, psfNormalized,
                     residualImages, modelImages, psfImages>>  BY DEF EndFinish, ReturnFinish, dataVars, setVars
<1>2. todo \in Seq(Table(settings)) /\ todo # <<>> /\ groupIndex # 0 /\ Head(todo).do = "finish" /\ DOMAIN pending = {}
  BY <1>1 DEF RunInv, RunTyped
<1>3. todo' \in Seq(Table(settings'))  BY <1>1, <1>2, HeadAndTail
<1>4. Rest(client, todo) = todo /\ Rest(client', todo') = Tail(todo)  BY <1>1 DEF Rest
<1>5. Outstanding' = Outstanding  BY <1>1 DEF Outstanding
<1>6. RunTyped'  BY <1>1, <1>2, <1>3, <1>5 DEF RunInv, RunTyped
<1>7. ~ IsTask(Head(todo)) /\ Head(todo).do # "readModel" /\ todo \in Seq(Calls(TableEntries(settings)))
  BY <1>2 DEF IsTask, TaskKinds, Table
<1>8. Right(settings, groupIndex, todo, pending, major, interval,
            residualImages, modelImages, psfImages, psfNormalized, modelData)  BY <1>4 DEF RunInv, RunRight
<1>9. Right(settings, groupIndex, Tail(todo), pending, major, interval,
            residualImages, modelImages, psfImages, psfNormalized, modelData)  BY <1>2, <1>7, <1>8, SkippedRight
<1>10. RunRight'  BY <1>1, <1>4, <1>9 DEF RunRight
<1> QED BY <1>6, <1>10 DEF RunInv

\* An image is saved,
LEMMA SavingKeepsInv == ASSUME RunInv, Save PROVE RunInv'
<1>1. /\ client = "idle" /\ client' = "idle" /\ todo' = Tail(todo) /\ UNCHANGED <<accepted, called>>
      /\ todo # <<>> /\ Head(todo).do = "save"
      /\ UNCHANGED <<settings, imagingTable, interval, groupIndex, major, pending, modelData, psfNormalized,
                     residualImages, modelImages, psfImages>>  BY DEF Save, Now, dataVars, vars
<1>2. todo \in Seq(Table(settings)) /\ groupIndex # 0  BY <1>1 DEF RunInv, RunTyped
<1>3. todo' \in Seq(Table(settings'))  BY <1>1, <1>2, HeadAndTail
<1>4. Rest(client, todo) = todo /\ Rest(client', todo') = Tail(todo)  BY <1>1 DEF Rest
<1>5. Outstanding' = Outstanding  BY <1>1 DEF Outstanding
<1>6. RunTyped'  BY <1>1, <1>2, <1>3, <1>5 DEF RunInv, RunTyped
<1>7. ~ IsTask(Head(todo)) /\ Head(todo).do # "readModel" /\ todo \in Seq(Calls(TableEntries(settings)))
      /\ Head(todo).do # "finish"  BY <1>1, <1>2 DEF IsTask, TaskKinds, Table
<1>8. Right(settings, groupIndex, todo, pending, major, interval,
            residualImages, modelImages, psfImages, psfNormalized, modelData)  BY <1>4 DEF RunInv, RunRight
<1>9. Right(settings, groupIndex, Tail(todo), pending, major, interval,
            residualImages, modelImages, psfImages, psfNormalized, modelData)  BY <1>1, <1>7, <1>8, SkippedRight
<1>10. RunRight'  BY <1>1, <1>4, <1>9 DEF RunRight
<1> QED BY <1>6, <1>10 DEF RunInv

\* or read, to be predicted.
LEMMA ReadingKeepsInv == ASSUME RunInv, ReadModel PROVE RunInv'
<1> DEFINE e == Head(todo).entry
<1>1. /\ client = "idle" /\ client' = "idle" /\ todo' = Tail(todo) /\ UNCHANGED <<accepted, called>>
      /\ todo # <<>> /\ Head(todo).do = "readModel"
      /\ UNCHANGED <<settings, imagingTable, interval, groupIndex, major, pending, modelData, psfNormalized,
                     residualImages, psfImages>>
      /\ modelImages' = IF HasImages(e)
                        THEN Store(modelImages, Model(e.polarization, e.outputChannelIndex, 0), e.polarization, e.outputChannelIndex)
                        ELSE modelImages  BY DEF ReadModel, Now, dataVars, vars
<1>2. todo \in Seq(Table(settings)) /\ groupIndex # 0 /\ Good(settings) /\ groupIndex \in 0 .. Len(GroupsOf(settings))
      /\ IsImageSet(modelImages)  BY <1>1 DEF RunInv, RunTyped
<1>3. todo' \in Seq(Table(settings')) /\ Head(todo) \in Table(settings)  BY <1>1, <1>2, HeadAndTail
<1>4. Rest(client, todo) = todo /\ Rest(client', todo') = Tail(todo)  BY <1>1 DEF Rest
<1>5. Outstanding' = Outstanding  BY <1>1 DEF Outstanding
<1>6. e \in TableEntries(settings)  BY <1>1, <1>3, CallOfTask DEF Table
<1>7. HasImages(e) <=> e.polarization # "YX"
  <2>1. e.imageCount = ImageCount(e.polarization)  BY <1>2, <1>6, EntryFacts
  <2> QED BY <2>1 DEF HasImages, ImageCount
<1>8. Model(e.polarization, e.outputChannelIndex, 0) = ModelFor(e, interval, 0) \/ e.polarization = "YX"
  BY DEF Model, ModelFor, ModelPol
<1>9. /\ e.polarization = "YX" => modelImages' = modelImages
      /\ e.polarization # "YX" =>
           modelImages' = Store(modelImages, ModelFor(e, interval, 0), e.polarization, e.outputChannelIndex)
  BY <1>1, <1>7, <1>8
<1>10. IsImageSet(modelImages')  BY <1>2, <1>9, StoredIsLoaded
<1>11. RunTyped'  BY <1>1, <1>2, <1>3, <1>5, <1>10 DEF RunInv, RunTyped
<1>12. todo \in Seq(Calls(TableEntries(settings)))  BY <1>2 DEF Table
<1>13. Right(settings, groupIndex, todo, pending, major, interval,
             residualImages, modelImages, psfImages, psfNormalized, modelData)  BY <1>4 DEF RunInv, RunRight
<1>14. Right(settings, groupIndex, Tail(todo), pending, major, interval,
             residualImages, modelImages', psfImages, psfNormalized, modelData)
  BY <1>1, <1>2, <1>9, <1>12, <1>13, ReadModelRight
<1>15. RunRight'  BY <1>1, <1>4, <1>14 DEF RunRight
<1> QED BY <1>11, <1>15 DEF RunInv

\* A task is executed.
LEMMA ExecutionKeepsInv ==
  ASSUME RunInv, NEW t \in DOMAIN pending, Execute(t)
  PROVE  RunInv'
<1>1. /\ pending[t].result = NothingStored
      /\ pending' = ExecutedPending(pending, t, interval, modelData)
      /\ modelData' = DataAfter(pending[t], modelData)
      /\ UNCHANGED <<accepted, called, client>>
      /\ UNCHANGED <<settings, imagingTable, interval, groupIndex, todo, major, psfNormalized,
                     residualImages, modelImages, psfImages>>
  BY DEF Execute, vars, runVars, setVars, ExecutedPending, DataAfter, Result, ResultOf
<1>2. DOMAIN pending' = DOMAIN pending /\ DOMAIN modelData' = DOMAIN modelData  BY <1>1 DEF ExecutedPending, DataAfter
<1>3. Outstanding' = Outstanding /\ Rest(client', todo') = Rest(client, todo)  BY <1>1 DEF Outstanding, Rest
<1>4. RunTyped'  BY <1>1, <1>2, <1>3 DEF RunInv, RunTyped
<1>5. /\ Good(settings) /\ groupIndex # 0 /\ groupIndex \in 0 .. Len(GroupsOf(settings)) /\ Len(GroupsOf(settings)) \in Nat
      /\ major \in Nat /\ \A e \in TableEntries(settings) : Imaged(e) \in DOMAIN modelData
  BY PendingInAGroup DEF RunInv, RunTyped
<1>6. Right(settings, groupIndex, Rest(client, todo), pending, major, interval,
            residualImages, modelImages, psfImages, psfNormalized, modelData)  BY DEF RunInv, RunRight
<1>7. Right(settings, groupIndex, Rest(client, todo), ExecutedPending(pending, t, interval, modelData), major, interval,
            residualImages, modelImages, psfImages, psfNormalized, DataAfter(pending[t], modelData))
  BY <1>1, <1>5, <1>6, ExecutedRight
<1>8. RunRight'  BY <1>1, <1>3, <1>7 DEF RunRight
<1> QED BY <1>4, <1>8 DEF RunInv

\* What a callback does to the images.
CalledBackRight(t) ==
  Right(settings, groupIndex, Rest(client, todo), WithoutTask(pending, t), major, interval,
        residualImages', modelImages', psfImages', psfNormalized', modelData)

\* Nothing else changes with a callback.
LEMMA FrameOfCallback ==
  ASSUME RunInv, NEW t \in DOMAIN pending, TaskCallback(t),
         CalledBackRight(t), IsImageSet(residualImages'), IsImageSet(modelImages'), IsImageSet(psfImages')
  PROVE  RunInv'
<1>1. /\ pending' = WithoutTask(pending, t)
      /\ called' = called \cup {t} /\ UNCHANGED <<accepted, client>>
      /\ UNCHANGED <<settings, imagingTable, interval, groupIndex, todo, major, modelData>>
  BY DEF TaskCallback, CallbackOf, runVars, WithoutTask
<1>2. DOMAIN pending = Outstanding /\ called \subseteq 1 .. accepted  BY DEF RunInv, RunTyped
<1>3. DOMAIN pending' = Outstanding' /\ called' \subseteq 1 .. accepted'  BY <1>1, <1>2 DEF Outstanding, WithoutTask
<1>4. RunTyped'  BY <1>1, <1>3 DEF RunInv, RunTyped
<1>5. Rest(client', todo') = Rest(client, todo)  BY <1>1 DEF Rest
<1>6. RunRight'  BY <1>1, <1>5 DEF RunRight, CalledBackRight
<1> QED BY <1>4, <1>6 DEF RunInv

\* What is known when a task is called back.
LEMMA CallbackFacts ==
  ASSUME RunInv, NEW t \in DOMAIN pending, TaskCallback(t)
  PROVE  LET R == Rest(client, todo)
             W == Left(R, pending)
             V == Left(R, WithoutTask(pending, t))
             z == pending[t].entry
             k == pending[t].kind
         IN  /\ InOrder(R, PendingCalls(WithoutTask(pending, t)))
             /\ IsOver(V, W, Call(k, z))
             /\ \A u \in DOMAIN WithoutTask(pending, t) : TaskRight(WithoutTask(pending, t)[u], modelData, interval, major)
             /\ k \in TaskKinds /\ z \in TableEntries(settings)
             /\ pending[t].result = ResultFor(k, z, interval, major)
             /\ k = "predict" => modelData[Imaged(z)] = ModelFor(z, interval, major)
             /\ settings.mode = "image" => z \in In(GroupsOf(settings)[groupIndex])
             /\ settings.mode = "predict" => k = "predict"
<1> DEFINE R == Rest(client, todo)
           W == Left(R, pending)
           V == Left(R, WithoutTask(pending, t))
           z == pending[t].entry
           k == pending[t].kind
<1>1. Right(settings, groupIndex, R, pending, major, interval,
            residualImages, modelImages, psfImages, psfNormalized, modelData)  BY DEF RunInv, RunRight
<1>2. /\ Good(settings) /\ groupIndex # 0 /\ groupIndex \in 0 .. Len(GroupsOf(settings)) /\ Len(GroupsOf(settings)) \in Nat
  BY PendingInAGroup DEF RunInv, RunTyped
<1> HIDE DEF R
<1>3. /\ InOrder(R, PendingCalls(WithoutTask(pending, t)))
      /\ IsOver(V, W, Call(k, z))
      /\ \A u \in DOMAIN WithoutTask(pending, t) : TaskRight(WithoutTask(pending, t)[u], modelData, interval, major)
  BY <1>1, CallbackFrame
<1>4. /\ k \in TaskKinds /\ z \in TableEntries(settings)
      /\ settings.mode = "image" => z \in In(GroupsOf(settings)[groupIndex])
      /\ settings.mode = "predict" => k = "predict"  BY <1>1, <1>2, PendingEntries
<1>5. TaskRight(pending[t], modelData, interval, major) /\ pending[t].result # NothingStored
  BY <1>1 DEF Right, TaskCallback
<1>6. pending[t].result = ResultFor(k, z, interval, major)
      /\ (k = "predict" => modelData[Imaged(z)] = ModelFor(z, interval, major))  BY <1>5 DEF TaskRight
<1> QED BY <1>3, <1>4, <1>6 DEF R

\* The group is right after a callback.
GroupCalledBack(t) ==
  GroupRight(settings, GroupsOf(settings)[groupIndex], Left(Rest(client, todo), WithoutTask(pending, t)),
             residualImages', modelImages', psfImages', psfNormalized', modelData, interval, major)

\* and before the callback.
GroupNow ==
  GroupRight(settings, GroupsOf(settings)[groupIndex], Left(Rest(client, todo), pending),
             residualImages, modelImages, psfImages, psfNormalized, modelData, interval, major)

\* What the invariant says of the group that is imaged.
LEMMA GroupIsRightNow ==
  ASSUME RunInv, settings.mode = "image", groupIndex # 0
  PROVE  GroupNow /\ IsEntryGroup(GroupsOf(settings)[groupIndex], settings)
<1>1. GroupNow  BY DEF RunInv, RunRight, Right, GroupNow
<1>2. Good(settings) /\ groupIndex \in 0 .. Len(GroupsOf(settings))  BY DEF RunInv, RunTyped
<1> QED BY <1>1, <1>2, EntryGroups

\* Images that are right for the group are right for the run.
LEMMA ImagingCalledBack ==
  ASSUME RunInv, NEW t \in DOMAIN pending, TaskCallback(t), settings.mode = "image", GroupCalledBack(t)
  PROVE  CalledBackRight(t)
<1>1. /\ InOrder(Rest(client, todo), PendingCalls(WithoutTask(pending, t)))
      /\ \A u \in DOMAIN WithoutTask(pending, t) : TaskRight(WithoutTask(pending, t)[u], modelData, interval, major)
  BY CallbackFacts
<1> QED BY <1>1 DEF CalledBackRight, Right, GroupCalledBack

\* A PSF is called back,
LEMMA PSFCallbackKeepsInv ==
  ASSUME RunInv, NEW t \in DOMAIN pending, TaskCallback(t), pending[t].kind = "psf"
  PROVE  RunInv'
<1> DEFINE z == pending[t].entry
           E == GroupsOf(settings)[groupIndex]
           W == Left(Rest(client, todo), pending)
           V == Left(Rest(client, todo), WithoutTask(pending, t))
<1>1. settings.mode = "image" /\ IsOver(V, W, Call("psf", z)) /\ z \in In(E)
  <2>1. settings.mode # "predict"  BY CallbackFacts
  <2>2. settings.mode = "image"  BY <2>1, GoodFacts DEF RunInv, RunTyped
  <2> QED BY <2>2, CallbackFacts
<1>2. PSFCallback(pending[t])  BY DEF TaskCallback
<1>3. /\ psfNormalized' = psfNormalized \cup {z.outputChannelIndex}
      /\ psfImages' = Store(psfImages, PSFOf(z, interval), Head(settings.polarizations), z.outputChannelIndex)
      /\ residualImages' = residualImages /\ modelImages' = modelImages  BY <1>2 DEF PSFCallback, PSFOf, FirstPol
<1>4. GroupNow /\ groupIndex # 0  BY <1>1, PendingInAGroup, GroupIsRightNow
<1> HIDE DEF E, V, W, z
<1>5. GroupRight(settings, E, W, residualImages, modelImages, psfImages, psfNormalized, modelData, interval, major)
  BY <1>4 DEF GroupNow, E, W
<1>6. GroupRight(settings, E, V, residualImages, modelImages,
                 Store(psfImages, PSFOf(z, interval), Head(settings.polarizations), z.outputChannelIndex),
                 psfNormalized \cup {z.outputChannelIndex}, modelData, interval, major)  BY <1>1, <1>5, PSFMadeInGroup
<1>7. GroupCalledBack(t)  BY <1>3, <1>6 DEF GroupCalledBack, E, V
<1>8. IsImageSet(residualImages') /\ IsImageSet(modelImages') /\ IsImageSet(psfImages')
  BY <1>3, StoredIsLoaded DEF RunInv, RunTyped
<1> QED BY <1>1, <1>7, <1>8, ImagingCalledBack, FrameOfCallback

\* a prediction,
LEMMA PredictCallbackKeepsInv ==
  ASSUME RunInv, NEW t \in DOMAIN pending, TaskCallback(t), pending[t].kind = "predict"
  PROVE  RunInv'
<1> DEFINE z == pending[t].entry
           E == GroupsOf(settings)[groupIndex]
           R == Rest(client, todo)
           W == Left(R, pending)
           V == Left(R, WithoutTask(pending, t))
<1>1. /\ IsOver(V, W, Call("predict", z)) /\ modelData[Imaged(z)] = ModelFor(z, interval, major)
      /\ InOrder(R, PendingCalls(WithoutTask(pending, t)))
      /\ \A u \in DOMAIN WithoutTask(pending, t) : TaskRight(WithoutTask(pending, t)[u], modelData, interval, major)
  BY CallbackFacts
<1>2. UNCHANGED <<psfNormalized, residualImages, modelImages, psfImages>>  BY DEF TaskCallback, setVars
<1> HIDE DEF E, R, V, W, z
<1>3. groupIndex # 0  BY PendingInAGroup
<1>4. IsImageSet(residualImages') /\ IsImageSet(modelImages') /\ IsImageSet(psfImages')  BY <1>2 DEF RunInv, RunTyped
<1>5. CASE settings.mode = "image"
  <2>1. GroupRight(settings, E, W, residualImages, modelImages, psfImages, psfNormalized, modelData, interval, major)
    BY <1>3, <1>5, GroupIsRightNow DEF GroupNow, E, W, R
  <2>2. GroupRight(settings, E, V, residualImages, modelImages, psfImages, psfNormalized, modelData, interval, major)
    BY <1>1, <2>1, PredictedInGroup
  <2>3. GroupCalledBack(t)  BY <1>2, <2>2 DEF GroupCalledBack, E, V, R
  <2> QED BY <1>4, <1>5, <2>3, ImagingCalledBack, FrameOfCallback
<1>6. CASE settings.mode = "predict"
  <2>1. PredictionRight(settings, EntryAt(settings, groupIndex), R, W, modelImages, interval, major)
    BY <1>3, <1>6 DEF RunInv, RunRight, Right, R, W
  <2>2. PredictionRight(settings, EntryAt(settings, groupIndex), R, V, modelImages, interval, major)
    BY <1>1, <2>1, PredictionCalledBack
  <2>3. CalledBackRight(t)  BY <1>1, <1>2, <1>6, <2>2 DEF CalledBackRight, Right, R, V
  <2> QED BY <1>4, <2>3, FrameOfCallback
<1> QED BY <1>5, <1>6, GoodFacts DEF RunInv, RunTyped

\* an image,
LEMMA ImageCallbackKeepsInv ==
  ASSUME RunInv, NEW t \in DOMAIN pending, TaskCallback(t), pending[t].kind \in {"invert", "image"}
  PROVE  RunInv'
<1> DEFINE z == pending[t].entry
           k == pending[t].kind
           ch == z.outputChannelIndex
           E == GroupsOf(settings)[groupIndex]
           W == Left(Rest(client, todo), pending)
           V == Left(Rest(client, todo), WithoutTask(pending, t))
           part == [polarization |-> pending[t].result.polarization, channel |-> pending[t].result.channel,
                    interval |-> pending[t].result.interval, subtracted |-> pending[t].result.subtracted,
                    normalized |-> DoMakePSF => ch \in psfNormalized]
<1>1. /\ settings.mode = "image" /\ IsOver(V, W, Call(k, z)) /\ z \in In(E) /\ z \in TableEntries(settings)
      /\ pending[t].result = ResultFor(k, z, interval, major) /\ k \in {"invert", "image"}
  <2>1. settings.mode # "predict"  BY CallbackFacts
  <2>2. settings.mode = "image"  BY <2>1, GoodFacts DEF RunInv, RunTyped
  <2> QED BY <2>2, CallbackFacts
<1>2. ImageCallback(pending[t])  BY DEF TaskCallback
<1>3. /\ residualImages' = Combined(residualImages, part)
      /\ modelImages' =
           IF k = "invert" /\ ~ (z.polarization = "YX" /\ Has(settings, "XY"))
           THEN Store(modelImages, Model(z.polarization, ch, 0), z.polarization, ch) ELSE modelImages
      /\ UNCHANGED <<psfNormalized, psfImages>>  BY <1>2 DEF ImageCallback
<1>4. GroupNow /\ groupIndex # 0 /\ IsEntryGroup(E, settings) /\ Good(settings)
  BY <1>1, PendingInAGroup, GroupIsRightNow DEF RunInv, RunTyped
<1> HIDE DEF E, V, W
<1>5. GroupRight(settings, E, W, residualImages, modelImages, psfImages, psfNormalized, modelData, interval, major)
  BY <1>4 DEF GroupNow, E, W
<1>6. part = PartOf(z.polarization, z, interval, major)
  <2>1. (MakesPSF(settings) => ch \in psfNormalized) = TRUE  BY <1>1, <1>5, ImageIsNormalized DEF GroupRight
  <2>2. DoMakePSF <=> MakesPSF(settings)  BY DEF DoMakePSF, MakesPSF
  <2>3. (DoMakePSF => ch \in psfNormalized) = TRUE  BY <2>1, <2>2
  <2>4. KindsRight(settings, E, W, major) /\ Call(k, z) \in W  BY <1>1, <1>5 DEF GroupRight, IsOver
  <2>5. (k = "invert" => major = 0) /\ (k = "image" => major > 0)  BY <2>4, CallFacts DEF KindsRight
  <2>6. major \in Nat  BY DEF RunInv, RunTyped
  <2>7. ResultFor(k, z, interval, major).subtracted = SubtractedFor(z, interval, major)
    BY <1>1, <2>5, <2>6 DEF ResultFor, SubtractedFor
  <2>8. /\ ResultFor(k, z, interval, major).polarization = z.polarization
        /\ ResultFor(k, z, interval, major).channel = ch /\ ResultFor(k, z, interval, major).interval = interval
    BY DEF ResultFor
  <2> QED BY <1>1, <2>3, <2>7, <2>8 DEF PartOf
<1>7. part.polarization = z.polarization /\ part.channel = ch  BY <1>6 DEF PartOf
<1> HIDE DEF part
<1>8. z.polarization = "YX" => Has(settings, "XY")
  <2>1. \E p \in 1 .. Pols(settings) : z.polarization = settings.polarizations[p]  BY <1>1, <1>4, EntryFacts
  <2> QED BY <1>4, <2>1, GoodFacts
<1>9. /\ z.polarization # "YX" => residualImages' = Put(residualImages, [parts |-> <<part>>], z)
      /\ z.polarization = "YX" =>
           residualImages' = Store(residualImages, [parts |-> Append(PartsThere(residualImages, ch), part)], "XY", ch)
  <2>1. CASE z.polarization = "YX"  BY <1>3, <1>7, <1>8, <2>1 DEF Combined, PartsThere
  <2>2. CASE z.polarization # "YX"  BY <1>3, <1>7, <2>2 DEF Combined, Put
  <2> QED BY <2>1, <2>2
<1>10. HoldsTable(modelImages, settings)  BY <1>5 DEF GroupRight, ModelsRight
<1>11. modelImages' = modelImages \/ (k = "invert" /\ HoldsTable(modelImages', settings))
  BY <1>3, <1>10, AnyStoreHoldsTable
<1>12. GroupRight(settings, E, V, residualImages', modelImages', psfImages, psfNormalized, modelData, interval, major)
  <2>1. IsCombined(residualImages', residualImages, z, PartOf(z.polarization, z, interval, major))
    BY <1>6, <1>9 DEF IsCombined
  <2>2. HasModels(modelImages', modelImages, k, settings)  BY <1>11 DEF HasModels
  <2> HIDE DEF z, k, ch
  <2> QED BY <1>1, <1>4, <1>5, <2>1, <2>2, ImagedInGroup
<1>13. GroupCalledBack(t)  BY <1>3, <1>12 DEF GroupCalledBack, E, V
<1>14. IsImageSet(residualImages') /\ IsImageSet(modelImages') /\ IsImageSet(psfImages')
  BY <1>3, <1>12 DEF GroupRight, ResidualsRight, ModelsRight, HoldsTable, RunInv, RunTyped
<1> QED BY <1>1, <1>13, <1>14, ImagingCalledBack, FrameOfCallback

\* and so any task.
LEMMA CallbackKeepsInv ==
  ASSUME RunInv, NEW t \in DOMAIN pending, TaskCallback(t)
  PROVE  RunInv'
<1>1. pending[t].kind \in TaskKinds  BY CallbackFacts
<1> QED BY <1>1, PSFCallbackKeepsInv, PredictCallbackKeepsInv, ImageCallbackKeepsInv DEF TaskKinds

\* Between two groups nothing is pending, and all work of the first one is done.
LEMMA BetweenGroups ==
  ASSUME RunInv, client = "idle", todo = <<>> \/ Head(todo).do \in {"deconvolve", "save"}
  PROVE  DOMAIN pending = {} /\ Rest(client, todo) = todo /\ \A c \in Left(todo, pending) : ~ IsTask(c)
<1>1. Rest(client, todo) = todo  BY DEF Rest
<1>2. InOrder(todo, PendingCalls(pending)) /\ todo \in Seq(Table(settings))
  BY <1>1 DEF RunInv, RunTyped, RunRight, Right
<1>3. DOMAIN PendingCalls(pending) = {} /\ \A c \in Work(todo, PendingCalls(pending)) : ~ IsTask(c)
  BY <1>2, NothingIsPending
<1> QED BY <1>1, <1>3 DEF PendingCalls, Left

\* The groups of this run.
LEMMA GroupsAreGroupsOf ==
  ASSUME RunInv
  PROVE  Groups = GroupsOf(settings)  BY DEF RunInv, RunTyped, Groups, GroupsOf

\* The next group is imaged,
LEMMA ImageGroupKeepsInv == ASSUME RunInv, StartImageGroup PROVE RunInv'
<1> DEFINE E == GroupsOf(settings)[groupIndex + 1]
           W == Left(todo, pending)
<1>1. /\ settings.mode = "image" /\ client = "idle" /\ todo = <<>> /\ groupIndex < Len(GroupsOf(settings))
      /\ groupIndex' = groupIndex + 1 /\ major' = 0
      /\ UNCHANGED <<accepted, called, client, settings, imagingTable, interval, pending, modelData, psfNormalized>>
      /\ modelImages' = Initialize(modelImages, Pols(settings), settings.channelsOut)
      /\ residualImages' = Initialize(residualImages, Pols(settings), settings.channelsOut)
      /\ psfImages' = IF E[1].polarization = Head(settings.polarizations)
                      THEN Initialize(psfImages, 1, Len(SquaredGroups(E))) ELSE psfImages
      /\ todo' = ImageGroup(E)
  BY GroupsAreGroupsOf DEF StartImageGroup, NextGroup, vars, dataVars, PolCount, Pols, StartsPSFs, FirstPol
<1>2. /\ Good(settings) /\ groupIndex \in Nat /\ Len(GroupsOf(settings)) \in Nat
      /\ IsImageSet(residualImages) /\ IsImageSet(modelImages) /\ IsImageSet(psfImages)  BY DEF RunInv, RunTyped
<1>3. DOMAIN pending = {} /\ \A c \in W : ~ IsTask(c)  BY <1>1, BetweenGroups
<1>4. groupIndex # 0 => PSFsRight(settings, GroupsOf(settings)[groupIndex], W, psfImages, psfNormalized, interval)
  BY <1>1, BetweenGroups, GroupIsRightNow DEF GroupNow, GroupRight
<1>5. groupIndex + 1 \in 0 .. Len(GroupsOf(settings)) /\ groupIndex + 1 # 0  BY <1>1, <1>2
<1>6. IsEntryGroup(E, settings)  BY <1>1, <1>2, <1>5, EntryGroups
<1> HIDE DEF E, W
<1>7. PSFsStart(settings, E, psfImages', psfNormalized, interval)  BY <1>1, <1>2, <1>3, <1>4, PSFsAtStart DEF E
<1>8. HoldsTable(residualImages', settings) /\ HoldsTable(modelImages', settings)
  BY <1>1, <1>2, Initialized DEF HoldsTable
<1>9. GroupRight(settings, E, FirstWork(E, settings), residualImages', modelImages', psfImages', psfNormalized, modelData, interval, 0)
  BY <1>7, <1>8, GroupStartsRight
<1>10. IsWork(todo', FirstWork(E, settings), TableEntries(settings))
  BY <1>1, <1>2, <1>6, ImageGroupIsWork DEF FirstWork
<1>11. InOrder(todo', PendingCalls(pending)) /\ Left(todo', pending) = FirstWork(E, settings)
  BY <1>3, <1>10, WorkInOrder DEF PendingCalls, Left
<1>12. Outstanding' = Outstanding  BY <1>1 DEF Outstanding
<1>13. IsImageSet(psfImages')  BY <1>7 DEF PSFsStart
<1>14. todo' \in Seq(Table(settings'))  BY <1>1, <1>10 DEF IsWork, Table
<1>15. RunTyped'  BY <1>1, <1>2, <1>5, <1>8, <1>12, <1>13, <1>14 DEF RunInv, RunTyped, HoldsTable
<1>16. Rest(client', todo') = todo'  BY <1>1 DEF Rest
<1>17. GroupRight(settings, GroupsOf(settings)[groupIndex'], Left(todo', pending),
                  residualImages', modelImages', psfImages', psfNormalized, modelData, interval, major')
  BY <1>1, <1>9, <1>11 DEF E
<1>18. Right(settings, groupIndex', todo', pending, major', interval,
             residualImages', modelImages', psfImages', psfNormalized, modelData)
  BY <1>1, <1>3, <1>11, <1>17 DEF Right
<1>19. RunRight'  BY <1>1, <1>16, <1>18 DEF RunRight
<1> QED BY <1>15, <1>19 DEF RunInv

\* or predicted,
LEMMA PredictGroupKeepsInv == ASSUME RunInv, StartPredictGroup PROVE RunInv'
<1> DEFINE e == EntryAt(settings, groupIndex + 1)
           R == <<[do |-> "readModel", entry |-> e], [do |-> "predict", entry |-> e], [do |-> "finish"]>>
           V == Left(todo, pending)
<1>1. /\ settings.mode = "predict" /\ client = "idle" /\ todo = <<>> /\ groupIndex < Len(GroupsOf(settings))
      /\ groupIndex' = groupIndex + 1 /\ major' = 0
      /\ UNCHANGED <<accepted, called, client, settings, imagingTable, interval, pending, modelData, psfNormalized,
                     residualImages, psfImages>>
      /\ modelImages' = Initialize(modelImages, Pols(settings), 1)
      /\ todo' = PredictGroup(GroupsOf(settings)[groupIndex + 1])
  BY GroupsAreGroupsOf DEF StartPredictGroup, NextGroup, vars, dataVars, PolCount, Pols
<1>2. /\ Good(settings) /\ groupIndex \in Nat /\ Len(GroupsOf(settings)) \in Nat
      /\ IsImageSet(residualImages) /\ IsImageSet(modelImages) /\ IsImageSet(psfImages)  BY DEF RunInv, RunTyped
<1>3. DOMAIN pending = {} /\ Rest(client, todo) = <<>>  BY <1>1, BetweenGroups
<1>4. groupIndex # 0 =>
        PredictionRight(settings, EntryAt(settings, groupIndex), <<>>, V, modelImages, interval, major)
  BY <1>1, <1>3 DEF RunInv, RunRight, Right
<1>5. groupIndex + 1 \in 1 .. Len(GroupsOf(settings)) /\ groupIndex + 1 # 0  BY <1>1, <1>2
<1>6. ArePredicted(GroupsOf(settings), settings)  BY <1>1, <1>2, GroupCount, PredictedGroups
<1>7. e \in TableEntries(settings) /\ GroupsOf(settings)[groupIndex + 1] = <<e>>
  BY <1>5, <1>6 DEF ArePredicted, TableEntries
<1> HIDE DEF e, R, V
<1>8. todo' = R  BY <1>1, <1>7, PredictGroupOfOne DEF R
<1>9. PredictionRight(settings, e, R, In(R), modelImages', interval, 0)
  BY <1>1, <1>2, <1>4, PredictionAtStart DEF e, R
<1>10. IsWork(R, In(R), TableEntries(settings))  BY <1>7, PredictionIsWork DEF R
<1>11. InOrder(todo', PendingCalls(pending)) /\ Left(todo', pending) = In(R)
  BY <1>3, <1>8, <1>10, WorkInOrder DEF PendingCalls, Left
<1>12. Outstanding' = Outstanding  BY <1>1 DEF Outstanding
<1>13. IsImageSet(modelImages')  BY <1>9 DEF PredictionRight
<1>14. todo' \in Seq(Table(settings'))  BY <1>1, <1>8, <1>10 DEF IsWork, Table
<1>15. RunTyped'  BY <1>1, <1>2, <1>5, <1>12, <1>13, <1>14 DEF RunInv, RunTyped
<1>16. Rest(client', todo') = todo'  BY <1>1 DEF Rest
<1>17. PredictionRight(settings, EntryAt(settings, groupIndex'), todo', Left(todo', pending), modelImages', interval, major')
  BY <1>1, <1>8, <1>9, <1>11 DEF e
<1>18. Right(settings, groupIndex', todo', pending, major', interval,
             residualImages', modelImages', psfImages', psfNormalized, modelData)
  BY <1>1, <1>3, <1>11, <1>17 DEF Right
<1>19. RunRight'  BY <1>1, <1>16, <1>18 DEF RunRight
<1> QED BY <1>15, <1>19 DEF RunInv

\* or the next interval starts.
LEMMA IntervalKeepsInv == ASSUME RunInv, NextInterval PROVE RunInv'
<1>1. /\ client = "idle" /\ todo = <<>> /\ groupIndex' = 0 /\ imagingTable' = MakeImagingTable(settings)
      /\ UNCHANGED <<accepted, called, client, settings, todo, major, pending, modelData,
                     residualImages, modelImages, psfImages>>  BY DEF NextInterval, vars, setVars
<1>2. DOMAIN pending = {}  BY <1>1, BetweenGroups
<1>3. Outstanding' = Outstanding  BY <1>1 DEF Outstanding
<1>4. RunTyped'  BY <1>1, <1>3 DEF RunInv, RunTyped
<1>5. Rest(client', todo') = <<>>  BY <1>1 DEF Rest
<1>6. RunRight'  BY <1>1, <1>2, <1>5, NothingIsRight DEF RunRight
<1> QED BY <1>4, <1>6 DEF RunInv

\* A group that is about to be deconvolved or saved.
LEMMA GroupIsDone ==
  ASSUME RunInv, NEW k \in {"deconvolve", "save"}, Now(k)
  PROVE  /\ settings.mode = "image" /\ groupIndex # 0 /\ GroupTable = GroupsOf(settings)[groupIndex]
         /\ IsEntryGroup(GroupTable, settings) /\ Good(settings) /\ major \in Nat
         /\ DOMAIN pending = {} /\ \A c \in Left(todo, pending) : ~ IsTask(c)
         /\ GroupRight(settings, GroupTable, Left(todo, pending),
                       residualImages, modelImages, psfImages, psfNormalized, modelData, interval, major)
         /\ k = "deconvolve" => Restarted(settings)
         /\ ~ settings.makePSFOnly
<1> DEFINE W == Left(todo, pending)
<1>1. client = "idle" /\ todo # <<>> /\ Head(todo).do = k  BY DEF Now
<1>2. DOMAIN pending = {} /\ Rest(client, todo) = todo /\ \A c \in W : ~ IsTask(c)  BY <1>1, BetweenGroups
<1>3. todo \in Seq(Table(settings)) /\ groupIndex # 0 /\ Good(settings) /\ major \in Nat  BY <1>1 DEF RunInv, RunTyped
<1>4. Head(todo) \in W  BY <1>1, <1>3, HeadIsLeft
<1> HIDE DEF W
<1>5. settings.mode = "image"
  <2> SUFFICES ASSUME settings.mode = "predict" PROVE FALSE  BY <1>3, GoodFacts
  <2>1. PredictionRight(settings, EntryAt(settings, groupIndex), todo, W, modelImages, interval, major)
    BY <1>2, <1>3 DEF RunInv, RunRight, Right, W
  <2>2. Head(todo) \in {Call("readModel", EntryAt(settings, groupIndex)), Call("predict", EntryAt(settings, groupIndex)), Finish}
    BY <1>4, <2>1 DEF PredictionRight
  <2> QED BY <1>1, <2>2, CallFacts DEF Finish
<1>6. GroupTable = GroupsOf(settings)[groupIndex]  BY GroupsAreGroupsOf DEF GroupTable
<1>7. IsEntryGroup(GroupTable, settings)  BY <1>3, <1>5, <1>6, GroupIsRightNow
<1>8. GroupRight(settings, GroupTable, W, residualImages, modelImages, psfImages, psfNormalized, modelData, interval, major)
  BY <1>2, <1>3, <1>5, <1>6, GroupIsRightNow DEF GroupNow, W
<1>9. KindsRight(settings, GroupTable, W, major)  BY <1>8 DEF GroupRight
<1>10. (k = "deconvolve" => Restarted(settings)) /\ (k = "save" => ~ settings.makePSFOnly)
  BY <1>1, <1>4, <1>9 DEF KindsRight
<1> QED BY <1>2, <1>3, <1>5, <1>6, <1>7, <1>8, <1>10 DEF W, Restarted

\* The entries that are deconvolved are those that have images.
LEMMA DeconvolvedEntries ==
  ASSUME Good(settings), IsEntryGroup(GroupTable, settings)
  PROVE  /\ Len(GroupTable) \in Nat /\ \A i \in 1 .. Len(GroupTable) : GroupTable[i] \in TableEntries(settings)
         /\ \A e \in In(GroupTable) : HasImages(e) <=> e.polarization # "YX"
         /\ \A e : e \in Deconvolved <=> e \in In(GroupTable) /\ e.polarization # "YX"
<1>1. GroupTable \in Seq(TableEntries(settings)) /\ Len(GroupTable) \in Nat /\ In(GroupTable) \subseteq TableEntries(settings)
  BY GroupEntries
<1>2. ASSUME NEW e \in In(GroupTable) PROVE HasImages(e) <=> e.polarization # "YX"
  <2>1. e.imageCount = ImageCount(e.polarization)  BY <1>1, EntryFacts
  <2> QED BY <2>1 DEF HasImages, ImageCount
<1>3. DOMAIN GroupTable = 1 .. Len(GroupTable)  BY <1>1
<1>4. Deconvolved = {e \in In(GroupTable) : HasImages(e)}  BY <1>3 DEF Deconvolved, In
<1>5. \A i \in 1 .. Len(GroupTable) : GroupTable[i] \in TableEntries(settings)  BY <1>1
<1> QED BY <1>1, <1>2, <1>4, <1>5

\* All of their images are stored.
LEMMA StoredForAll ==
  ASSUME Good(settings), IsEntryGroup(GroupTable, settings), NEW set, HoldsTable(set, settings), NEW images
  PROVE  /\ HoldsTable(StoreAll(set, images), settings)
         /\ \A e \in In(GroupTable) : HasImages(e) => ImageIn(StoreAll(set, images), e) = images[e]
<1>1. Len(GroupTable) \in Nat /\ \A i \in 1 .. Len(GroupTable) : GroupTable[i] \in TableEntries(settings)
  BY DeconvolvedEntries
<1>2. CanStore(StoreAll(set, images), set, images, GroupTable)  BY <1>1, StoreAllIsStepwise
<1> QED BY <1>1, <1>2, AllAreStored

\* A deconvolution, after which the group is imaged again or saved.
LEMMA DeconvolutionKeepsInv == ASSUME RunInv, Deconvolve PROVE RunInv'
<1> DEFINE E == GroupTable
           W == Left(todo, pending)
           models == [entry \in Deconvolved |-> Model(entry.polarization, entry.outputChannelIndex, major + 1)]
           residuals == [entry \in Deconvolved |->
             LET old == Load(residualImages, entry.polarization, entry.outputChannelIndex)
             IN  [parts |-> [p \in DOMAIN old.parts |->
                    [old.parts[p] EXCEPT !.subtracted =
                       Model(ModelOf(entry), entry.outputChannelIndex, major + 1)]]]]
<1>1. /\ Now("deconvolve") /\ major' = major + 1
      /\ modelImages' = StoreAll(modelImages, models)
      /\ residualImages' = StoreAll(residualImages, residuals)
      /\ UNCHANGED <<accepted, called, client, settings, imagingTable, interval, groupIndex, pending,
                     modelData, psfNormalized, psfImages>>  BY DEF Deconvolve, vars, dataVars
<1>2. PICK wantsMore \in BOOLEAN :
        todo' = (IF settings.mgainIsOne THEN <<>> ELSE PredictAndImage(E))
                  \o (IF wantsMore /\ MayIterateAgain(major + 1) THEN Just("deconvolve") ELSE Saving(E))
  BY DEF Deconvolve
<1>3. PICK again \in BOOLEAN : again <=> wantsMore /\ MayIterateAgain(major + 1)  OBVIOUS
<1>4. todo' = (IF settings.mgainIsOne THEN <<>> ELSE PredictAndImage(E)) \o (IF again THEN Just("deconvolve") ELSE Saving(E))
  BY <1>2, <1>3
<1>5. /\ settings.mode = "image" /\ groupIndex # 0 /\ E = GroupsOf(settings)[groupIndex]
      /\ IsEntryGroup(E, settings) /\ Good(settings) /\ major \in Nat
      /\ DOMAIN pending = {} /\ \A c \in W : ~ IsTask(c)
      /\ GroupRight(settings, E, W, residualImages, modelImages, psfImages, psfNormalized, modelData, interval, major)
      /\ Restarted(settings)  BY <1>1, GroupIsDone
<1>6. HoldsTable(residualImages, settings) /\ HoldsTable(modelImages, settings)
  BY <1>5 DEF GroupRight, ResidualsRight, ModelsRight
<1>7. /\ \A e \in In(E) : HasImages(e) <=> e.polarization # "YX"
      /\ \A e : e \in Deconvolved <=> e \in In(E) /\ e.polarization # "YX"  BY <1>5, DeconvolvedEntries
<1>8. ASSUME NEW e \in In(E), e.polarization # "YX"
      PROVE  models[e] = ModelFor(e, interval, major + 1) /\ residuals[e] = Deepened(ImageIn(residualImages, e), e, interval, major + 1)
  <2>1. e \in Deconvolved /\ ModelOf(e) = e.polarization /\ ModelPol(e.polarization) = e.polarization
    BY <1>7, <1>8 DEF ModelOf, ModelPol
  <2>2. models[e] = Model(e.polarization, e.outputChannelIndex, major + 1)  BY <2>1
  <2>3. Model(e.polarization, e.outputChannelIndex, major + 1) = ModelFor(e, interval, major + 1)
    BY <2>1 DEF Model, ModelFor
  <2>4. residuals[e] =
          [parts |-> [p \in DOMAIN ImageIn(residualImages, e).parts |->
             [ImageIn(residualImages, e).parts[p] EXCEPT !.subtracted =
                Model(ModelOf(e), e.outputChannelIndex, major + 1)]]]  BY <2>1 DEF ImageIn
  <2> HIDE DEF models, residuals
  <2>5. residuals[e] = Deepened(ImageIn(residualImages, e), e, interval, major + 1)  BY <2>1, <2>3, <2>4 DEF Deepened
  <2> QED BY <2>2, <2>3, <2>5
<1> HIDE DEF E, W, models, residuals
<1>9. /\ HoldsTable(modelImages', settings)
      /\ \A e \in In(E) : HasImages(e) => ImageIn(modelImages', e) = models[e]
  BY <1>1, <1>5, <1>6, StoredForAll DEF E
<1>10. /\ HoldsTable(residualImages', settings)
       /\ \A e \in In(E) : HasImages(e) => ImageIn(residualImages', e) = residuals[e]
  BY <1>1, <1>5, <1>6, StoredForAll DEF E
<1>11. \A e \in In(E) : e.polarization # "YX" =>
         /\ ImageIn(modelImages', e) = ModelFor(e, interval, major + 1)
         /\ ImageIn(residualImages', e) = Deepened(ImageIn(residualImages, e), e, interval, major + 1)
  BY <1>7, <1>8, <1>9, <1>10
<1> DEFINE V == Repeated(E, settings) \cup Ending(E, settings, again)
<1> HIDE DEF V
<1>12. GroupRight(settings, E, V, residualImages', modelImages', psfImages, psfNormalized, modelData, interval, major + 1)
  BY <1>5, <1>9, <1>10, <1>11, AfterDeconvolution DEF V
<1>13. IsWork(todo', V, TableEntries(settings))  BY <1>4, <1>5, MajorIterationIsWork DEF V
<1>14. InOrder(todo', PendingCalls(pending)) /\ Left(todo', pending) = V
  BY <1>5, <1>13, WorkInOrder DEF PendingCalls, Left
<1>15. Outstanding' = Outstanding  BY <1>1 DEF Outstanding
<1>16. todo' \in Seq(Table(settings'))  BY <1>1, <1>13 DEF IsWork, Table
<1>17. RunTyped'
  <2>1. client' = "idle"  BY <1>1 DEF Now
  <2>2. major' \in Nat  BY <1>1, <1>5
  <2>3. IsImageSet(residualImages') /\ IsImageSet(modelImages')  BY <1>9, <1>10 DEF HoldsTable
  <2> QED BY <1>1, <1>5, <1>15, <1>16, <2>1, <2>2, <2>3 DEF RunInv, RunTyped
<1>18. Rest(client', todo') = todo'  BY <1>1 DEF Rest, Now
<1>19. Right(settings, groupIndex, todo', pending, major + 1, interval,
             residualImages', modelImages', psfImages, psfNormalized, modelData)  BY <1>5, <1>12, <1>14 DEF Right
<1>20. RunRight'  BY <1>1, <1>18, <1>19 DEF RunRight
<1> QED BY <1>17, <1>20 DEF RunInv

\* Every step keeps the invariant,
LEMMA StepKeepsInv == RunInv /\ [RunNext]_allVars => RunInv'
<1> SUFFICES ASSUME RunInv, [RunNext]_allVars PROVE RunInv'  OBVIOUS
<1>1. CASE UNCHANGED allVars
  <2>1. UNCHANGED <<accepted, called, client, settings, imagingTable, interval, groupIndex, todo, major, pending,
                    modelData, psfNormalized, residualImages, modelImages, psfImages>>
    BY <1>1 DEF allVars, vars, runVars, dataVars, setVars
  <2>2. Outstanding' = Outstanding /\ Rest(client', todo') = Rest(client, todo)  BY <2>1 DEF Outstanding, Rest
  <2>3. RunTyped'  BY <2>1, <2>2 DEF RunInv, RunTyped
  <2>4. RunRight'  BY <2>1, <2>2 DEF RunInv, RunRight
  <2> QED BY <2>3, <2>4 DEF RunInv
<1>2. CASE \E t \in DOMAIN pending : Execute(t) \/ TaskCallback(t)  BY <1>2, ExecutionKeepsInv, CallbackKeepsInv
<1>3. CASE StartImageGroup \/ StartPredictGroup \/ NextInterval
  BY <1>3, ImageGroupKeepsInv, PredictGroupKeepsInv, IntervalKeepsInv
<1>4. CASE RunInversion \/ RunPrediction \/ EndRun \/ BeginFinish \/ EndFinish
  BY <1>4, InversionKeepsInv, PredictionKeepsInv, ReturnKeepsInv, FinishingKeepsInv, FinishedKeepsInv
<1>5. CASE Deconvolve \/ Save \/ ReadModel  BY <1>5, DeconvolutionKeepsInv, SavingKeepsInv, ReadingKeepsInv
<1> QED BY <1>1, <1>2, <1>3, <1>4, <1>5 DEF RunNext, Over

\* which so holds at any time.
LEMMA AlwaysRunInv == RunSpec => []RunInv
<1> QED BY InvAtStart, StepKeepsInv, PTL DEF RunSpec

\* An image that is deconvolved or saved has all its parts.
LEMMA ResidualIsComplete ==
  ASSUME RunInv, NEW k \in {"deconvolve", "save"}, Now(k), NEW e \in Deconvolved,
         settings.joinPolarizations \/ ~ HasCross(settings)
  PROVE  IsComplete(e, Load(residualImages, e.polarization, e.outputChannelIndex))
<1> DEFINE E == GroupTable
           W == Left(todo, pending)
           image == Load(residualImages, e.polarization, e.outputChannelIndex)
<1> SUFFICES IsComplete(e, image)  OBVIOUS
<1>1. /\ IsEntryGroup(E, settings) /\ Good(settings) /\ \A c \in W : ~ IsTask(c)
      /\ GroupRight(settings, E, W, residualImages, modelImages, psfImages, psfNormalized, modelData, interval, major)
      /\ ~ settings.makePSFOnly  BY GroupIsDone
<1>2. e \in In(E) /\ e.polarization # "YX"  BY <1>1, DeconvolvedEntries
<1> HIDE DEF E, W
<1>3. \A f : IsImaged(f, W)  BY <1>1, CallFacts DEF IsImaged, IsTask, TaskKinds
<1>4. IsWhole(e, E, W) = TRUE  BY <1>3 DEF IsWhole
<1>5. image = ResidualOf(e, TRUE, interval, major)
  BY <1>1, <1>2, <1>3, <1>4 DEF GroupRight, ResidualsRight, IsExamined, ImageIn
<1> HIDE DEF image
<1>6. image = [parts |-> image.parts]  BY <1>5 DEF ResidualOf
<1>7. image # NothingStored
  <2>1. "parts" \in DOMAIN image  BY <1>6
  <2>2. "parts" \notin DOMAIN NothingStored  BY DEF NothingStored
  <2> QED BY <2>1, <2>2
<1>8. ASSUME NEW pol, ModelPol(pol) = e.polarization
      PROVE  SubtractedFor(e, interval, major) = Subtracted(pol, e.outputChannelIndex)
  <2>1. ModelPol(e.polarization) = e.polarization  BY <1>2 DEF ModelPol
  <2> QED BY <1>8, <2>1 DEF SubtractedFor, Subtracted, ModelFor, Model, ModelPol
<1>9. ASSUME NEW pol, ModelPol(pol) = e.polarization, NEW part, part = PartOf(pol, e, interval, major)
      PROVE  /\ part.polarization = pol /\ part.channel = e.outputChannelIndex /\ part.interval = interval
             /\ part.normalized /\ part.subtracted = Subtracted(pol, e.outputChannelIndex)  BY <1>8, <1>9 DEF PartOf
<1>12. ASSUME NEW p, image.parts[p] = PartOf(PolsOf(e)[p], e, interval, major), ModelPol(PolsOf(e)[p]) = e.polarization
       PROVE  /\ image.parts[p].polarization = PolsOf(e)[p] /\ image.parts[p].channel = e.outputChannelIndex
              /\ image.parts[p].interval = interval /\ image.parts[p].normalized
              /\ image.parts[p].subtracted = Subtracted(PolsOf(e)[p], e.outputChannelIndex)  BY <1>9, <1>12
<1>10. CASE e.polarization = "XY"
  <2>1. image.parts = <<PartOf("XY", e, interval, major), PartOf("YX", e, interval, major)>>
    BY <1>5, <1>10 DEF ResidualOf
  <2>2. PolsOf(e) = <<"XY", "YX">>  BY <1>10 DEF PolsOf
  <2>3. ModelPol("XY") = e.polarization /\ ModelPol("YX") = e.polarization  BY <1>10 DEF ModelPol
  <2>4. Len(image.parts) = 2 /\ Len(PolsOf(e)) = 2 /\ DOMAIN image.parts = {1, 2}  BY <2>1, <2>2
  <2>5. /\ image.parts[1] = PartOf("XY", e, interval, major) /\ image.parts[2] = PartOf("YX", e, interval, major)
        /\ PolsOf(e)[1] = "XY" /\ PolsOf(e)[2] = "YX"  BY <2>1, <2>2
  <2>6. ASSUME NEW p \in DOMAIN image.parts
        PROVE  image.parts[p] = PartOf(PolsOf(e)[p], e, interval, major) /\ ModelPol(PolsOf(e)[p]) = e.polarization
    BY <2>3, <2>4, <2>5
  <2> QED BY <1>7, <1>12, <2>4, <2>6 DEF IsComplete
<1>11. CASE e.polarization # "XY"
  <2>1. image.parts = <<PartOf(e.polarization, e, interval, major)>>  BY <1>5, <1>11 DEF ResidualOf
  <2>2. PolsOf(e) = <<e.polarization>>  BY <1>11 DEF PolsOf
  <2>3. ModelPol(e.polarization) = e.polarization  BY <1>2 DEF ModelPol
  <2>4. Len(image.parts) = 1 /\ Len(PolsOf(e)) = 1 /\ DOMAIN image.parts = {1}  BY <2>1, <2>2
  <2>5. image.parts[1] = PartOf(e.polarization, e, interval, major) /\ PolsOf(e)[1] = e.polarization  BY <2>1, <2>2
  <2>6. ASSUME NEW p \in DOMAIN image.parts
        PROVE  image.parts[p] = PartOf(PolsOf(e)[p], e, interval, major) /\ ModelPol(PolsOf(e)[p]) = e.polarization
    BY <2>3, <2>4, <2>5
  <2> QED BY <1>7, <1>12, <2>4, <2>6 DEF IsComplete
<1> QED BY <1>10, <1>11

\* Whatever the order in which tasks are executed and called back, every residual image that is
\* deconvolved or saved was made from the data of its own interval, channel and polarization (XY:
\* from XY and YX, once each), with the last model subtracted, and is normalized (wsclean.cpp,
\* runIndependentGroup and imageMainCallback).
THEOREM ResidualsAreOfTheModel == RunSpec => []ResidualsMatchModel
<1>1. RunInv => ResidualsMatchModel
  <2> SUFFICES ASSUME RunInv, settings.joinPolarizations \/ ~ HasCross(settings), NEW e \in ReadNow
               PROVE  IsComplete(e, Load(residualImages, e.polarization, e.outputChannelIndex))
    BY DEF ResidualsMatchModel
  <2>1. CASE Now("deconvolve")
    <3>1. e \in Deconvolved  BY <2>1 DEF ReadNow
    <3> QED BY <2>1, <3>1, ResidualIsComplete
  <2>2. CASE ~ Now("deconvolve") /\ Now("save")
    <3>1. e \in Deconvolved  BY <2>2 DEF ReadNow
    <3> QED BY <2>2, <3>1, ResidualIsComplete
  <2>3. CASE ~ Now("deconvolve") /\ ~ Now("save")  BY <2>3 DEF ReadNow
  <2> QED BY <2>1, <2>2, <2>3
<1> QED BY <1>1, AlwaysRunInv, PTL

\* The PSF of every channel that is deconvolved was made for that channel in the interval, also when
\* another group made it, and every prediction takes along the latest model of its own channel and
\* polarization (wsclean.cpp, imagePSFCallback, predict and predictGroup).
THEOREM PSFAndModelAreOwn == RunSpec => []OwnPSFAndModel
<1>1. ASSUME RunInv, Now("deconvolve"), NEW e \in Deconvolved
      PROVE  Load(psfImages, FirstPol, e.outputChannelIndex) = [channel |-> e.outputChannelIndex, interval |-> interval]
  <2> DEFINE W == Left(todo, pending)
  <2>1. /\ IsEntryGroup(GroupTable, settings) /\ Good(settings) /\ \A c \in W : ~ IsTask(c)
        /\ GroupRight(settings, GroupTable, W, residualImages, modelImages, psfImages, psfNormalized, modelData, interval, major)
        /\ Restarted(settings)  BY <1>1, GroupIsDone
  <2>2. e \in In(GroupTable)  BY <1>1, <2>1, DeconvolvedEntries
  <2> HIDE DEF W
  <2>3. HasPSF(e.outputChannelIndex, W)  BY <2>1 DEF HasPSF, IsTask, TaskKinds
  <2>4. MakesPSF(settings)  BY <2>1 DEF Restarted, MakesPSF
  <2>5. PSFsRight(settings, GroupTable, W, psfImages, psfNormalized, interval)  BY <2>1 DEF GroupRight
  <2> QED BY <2>2, <2>3, <2>4, <2>5 DEF PSFsRight, FirstPol
<1>2. ASSUME RunInv, NEW t \in DOMAIN pending, pending[t].kind = "predict" PROVE LET entry == pending[t].entry
             IN  pending[t].carries =
                   Model(IF entry.polarization = "YX" THEN "XY" ELSE entry.polarization,
                         entry.outputChannelIndex, major)
  <2>1. pending[t].carries = ModelFor(pending[t].entry, interval, major)
    BY <1>2 DEF RunInv, RunRight, Right, TaskRight
  <2> QED BY <2>1 DEF ModelFor, ModelPol, Model
<1>3. RunInv => OwnPSFAndModel  BY <1>1, <1>2 DEF OwnPSFAndModel
<1> QED BY <1>3, AlwaysRunInv, PTL
=============================================================================
