------------------------------ MODULE MCImaging ------------------------------
(***************************************************************************)
(* The run over groups and intervals, the deconvolution of one group, its  *)
(* set of images, and the correction for the primary beam, in one run of   *)
(* TLC: in every behaviour one of them is run, and the others do not start. *)
(***************************************************************************)
EXTENDS ImagingRun, ParallelDeconvolution

CONSTANTS
  Running,   \* which of them: "run", "deconvolution", "images", "beam"
  MaxRuns    \* see PrimaryBeam

VARIABLES
  running,
  setSettings, setGroup, held, changed, storedImages, setStage,
  observation, beamFiles, pbImages, pbList, pbRuns, pbStage

imageSetVars == <<setSettings, setGroup, held, changed, storedImages, setStage>>
beamVars == <<observation, beamFiles, pbImages, pbList, pbRuns, pbStage>>

-----------------------------------------------------------------------------
(* Settings of a run *)

Modes == [mode : {"image"}, polarizations : {<<"I">>, <<"XX", "YY">>, <<"XY", "YX">>},
          channelsOut : {1, 2}, joinPolarizations : BOOLEAN, joinChannels : BOOLEAN,
          clean : BOOLEAN, mgainIsOne : BOOLEAN, makePSF : {FALSE}, makePSFOnly : {FALSE},
          parallel : BOOLEAN, useIDG : {FALSE}]

One == [mode |-> "image", polarizations |-> <<"I", "Q", "U", "V">>, channelsOut |-> 1,
        joinPolarizations |-> TRUE, joinChannels |-> FALSE, clean |-> TRUE,
        mgainIsOne |-> FALSE, makePSF |-> FALSE, makePSFOnly |-> FALSE, parallel |-> FALSE,
        useIDG |-> TRUE]

\* What is imaged, joined, cleaned and gridded in parallel, in most combinations,
\* IDG with two channels, and a run that only makes PSFs.
ImageSettings ==
  Modes
  \cup {[One EXCEPT !.channelsOut = 2, !.joinChannels = j] : j \in BOOLEAN}
  \cup {[One EXCEPT !.useIDG = FALSE, !.polarizations = ps, !.makePSFOnly = TRUE,
                    !.parallel = TRUE, !.channelsOut = 2] :
          ps \in {<<"XX", "YY">>, <<"XX", "XY", "YX", "YY">>}}

PredictSettings ==
  {[One EXCEPT !.mode = "predict", !.useIDG = FALSE, !.joinPolarizations = FALSE, !.clean = FALSE,
               !.polarizations = ps, !.channelsOut = n, !.parallel = p] :
     ps \in {<<"I">>, <<"XX", "XY", "YX", "YY">>}, n \in {1, 2}, p \in BOOLEAN}

AllSettings == ImageSettings \cup PredictSettings

\* XY and YX, not joined and not cleaned.
CrossSettings ==
  {[One EXCEPT !.useIDG = FALSE, !.joinPolarizations = FALSE, !.clean = FALSE,
               !.polarizations = ps, !.parallel = p] :
     ps \in {<<"XY", "YX">>, <<"XX", "XY", "YX", "YY">>}, p \in BOOLEAN}

-----------------------------------------------------------------------------
(* Two subimages of a row of three pixels.  Their boxes overlap in one way to divide it, *)
(* and in the other they have another size                                             *)

Divided(mask1, box1, mask2, box2) == <<[mask |-> mask1, box |-> box1], [mask |-> mask2, box |-> box2]>>

MCSubdivisions == {Divided({1}, {1, 2}, {2, 3}, {1, 2, 3}), Divided({1, 2}, {1, 2}, {3}, {3})}

-----------------------------------------------------------------------------
(* Sets of images: output channels that are divided evenly and not, also into as many    *)
(* deconvolution channels; joined and linked polarizations                                *)

SetSetting(polarizations, n, joinPolarizations, joinChannels, channels, linked, fitting) ==
  [One EXCEPT !.polarizations = polarizations, !.channelsOut = n, !.joinPolarizations = joinPolarizations,
              !.joinChannels = joinChannels, !.useIDG = FALSE]
  @@ [deconvolutionChannels |-> channels, linked |-> linked, fitting |-> fitting]

MCImageSetSettings ==
  {SetSetting(ps, n, FALSE, TRUE, d, {}, TRUE) : ps \in {<<"I">>, <<"XX", "YY">>}, n \in {2, 4}, d \in 0 .. 2}
  \cup {SetSetting(<<"I">>, n, FALSE, TRUE, 3, {}, TRUE) : n \in {3, 4}}
  \cup {SetSetting(ps, n, TRUE, n > 1, 0, {ps[1], ps[2]}, FALSE) :
           ps \in {<<"XX", "YY">>, <<"XX", "XY", "YX", "YY">>, <<"I", "Q">>}, n \in {1, 2}}
  \cup {SetSetting(ps, 2, TRUE, FALSE, 0, {ps[1]}, FALSE) : ps \in {<<"XX", "YY">>, <<"I", "Q", "U", "V">>}}

Sets == INSTANCE ImageSet WITH ImageSetSettings <- MCImageSetSettings, ImageWidth <- 3, ImageHeight <- 2

-----------------------------------------------------------------------------
(* Beams of two pixels, of a sky with polarized and unpolarized flux: dishes that mix,    *)
(* exchange and lose polarizations; pairs of stations that scale and mix them, in one and *)
(* two intervals; and the power of IDG                                                     *)

JonesOf(a, b, c, d) == 0 :> a @@ 1 :> b @@ 2 :> c @@ 3 :> d
Scalar(c) == JonesOf(c, <<0, 0>>, <<0, 0>>, c)
Mixed == JonesOf(<<2, 0>>, <<0, 1>>, <<1, 0>>, <<1, 1>>)
Exchanged == JonesOf(<<0, 0>>, <<0, 2>>, <<2, 0>>, <<0, 0>>)
Singular == JonesOf(<<1, 0>>, <<1, 0>>, <<1, 0>>, <<1, 0>>)
Leaking == JonesOf(<<2, 0>>, <<0, 1>>, <<0, -1>>, <<1, 0>>)

BeamRow(time, antenna1, antenna2, weight) ==
  [time |-> time, antenna1 |-> antenna1, antenna2 |-> antenna2, weight |-> weight]
OneTime == <<BeamRow(5, 1, 2, 2)>>
FourTimes == <<BeamRow(0, 1, 2, 1), BeamRow(1, 1, 2, 2), BeamRow(2, 1, 1, 1), BeamRow(4, 1, 2, 0)>>

Observation(telescope, polarizations, response, rows, size, reuse) ==
  [telescope |-> telescope, polarizations |-> polarizations, sky |-> <<<<4, 2, -2, 2>>, <<2, 0, 0, 0>>>>,
   response |-> response, rows |-> rows, updateTime |-> 2, size |-> size, reuse |-> reuse]
StokesIOrAll == {<<"I">>, <<"I", "Q", "U", "V">>}

\* For every channel and pixel; stations have a response in each of two intervals.
Stations == {<<<<Scalar(<<2, 0>>), Scalar(<<1, 1>>)>>, <<Scalar(<<1, 0>>), Scalar(<<1, 0>>)>>>>,
             <<<<Leaking, Scalar(<<1, 0>>)>>, <<Leaking, Leaking>>>>,
             <<<<Mixed, Exchanged>>, <<Mixed, Mixed>>>>}
MCObservations ==
  {Observation("voltage", ps, <<<<r, Scalar(<<1, 1>>)>>, <<Scalar(<<1, 1>>), r>>>>, << >>, size, reuse) :
     ps \in StokesIOrAll \cup {<<"XX", "YY">>}, r \in {Mixed, Exchanged, Singular}, size \in {1, 2}, reuse \in BOOLEAN}
  \cup {Observation("IDG", ps, <<<<4, 1>>>>, << >>, 1, FALSE) : ps \in StokesIOrAll}
  \cup {Observation("LOFAR", <<"I">>, <<<<r, <<<<Scalar(<<1, 0>>), Scalar(<<2, 0>>)>>,
                                             <<Scalar(<<0, 1>>), Scalar(<<1, 0>>)>>>>>>>>, rows, 1, reuse) :
           r \in Stations, rows \in {OneTime, FourTimes}, reuse \in BOOLEAN}
  \cup {Observation("LOFAR", <<"I", "Q", "U", "V">>, <<<<r, r>>>>, FourTimes, 1, FALSE) :
           r \in {<<<<Scalar(<<1, 0>>), Scalar(<<2, 0>>)>>, <<Leaking, Scalar(<<1, 0>>)>>>>}}

Beams == INSTANCE PrimaryBeam WITH Observations <- MCObservations

-----------------------------------------------------------------------------

SetIdle ==
  setSettings = 0 /\ setGroup = 0 /\ held = 0 /\ changed = 0 /\ storedImages = 0 /\ setStage = 0
BeamIdle ==
  observation = 0 /\ beamFiles = 0 /\ pbImages = 0 /\ pbList = 0 /\ pbRuns = 0 /\ pbStage = 0

ImagingInit ==
  /\ running \in Running
  /\ RunInit
  /\ DeconvolutionInit
  /\ running # "run" => settings = CHOOSE s \in SettingsSet : ValidSettings(s)
  /\ running # "deconvolution" => subdivision = CHOOSE d \in Subdivisions : TRUE
  /\ IF running = "images" THEN Sets!SetInit ELSE SetIdle
  /\ IF running = "beam" THEN Beams!PrimaryBeamInit ELSE BeamIdle

RunStep == running = "run" /\ RunNext /\ UNCHANGED <<running, deconvolutionVars, imageSetVars, beamVars>>
DeconvolutionStep ==
  running = "deconvolution" /\ DeconvolutionNext /\ UNCHANGED <<running, allVars, imageSetVars, beamVars>>
SetStep == running = "images" /\ Sets!SetNext /\ UNCHANGED <<running, allVars, deconvolutionVars, beamVars>>
BeamStep == running = "beam" /\ Beams!PrimaryBeamNext /\ UNCHANGED <<running, allVars, deconvolutionVars, imageSetVars>>

ImagingNext == RunStep \/ DeconvolutionStep \/ SetStep \/ BeamStep

ImagingSpec ==
  ImagingInit /\ [][ImagingNext]_<<running, allVars, deconvolutionVars, imageSetVars, beamVars>>

\* The images of a set are those of their polarization and channels (ImageSet).
ImagesKeepTheirPlace == running = "images" => Sets!ImagesKeepTheirPlace

\* What is corrected for the beam is the sky (PrimaryBeam).
CorrectedForBeam == running = "beam" => Beams!CorrectedForBeam
=============================================================================
