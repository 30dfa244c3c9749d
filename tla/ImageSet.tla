------------------------------ MODULE ImageSet ------------------------------
(***************************************************************************)
(* ImageSet (deconvolution/imageset.h and .cpp): the images that one        *)
(* deconvolution works on.  The images of neighbouring output channels are *)
(* averaged into one deconvolution channel when they are loaded, and       *)
(* spread over the output channels again when they are stored.             *)
(*                                                                         *)
(* Which image is which is never kept: loading, storing, the index of a    *)
(* table entry and the PSF of an image are five loops that count along the *)
(* table, each with a counter of its own.                                  *)
(*                                                                         *)
(* A pixel is known by what was added to it and by what it was divided: its *)
(* terms name the polarization, output channel and part (0 real, 1          *)
(* imaginary) they were loaded from.  Images are numbered from 0.          *)
(***************************************************************************)
EXTENDS Integers, FiniteSets, ImagingTable

CONSTANTS
  ImageSetSettings,   \* the settings a set may be made for
  ImageWidth, ImageHeight

VARIABLES
  setSettings, setGroup,   \* the settings, and the group of the imaging table
  held,                    \* _images: image -> pixel -> value
  changed,                 \* history: the pixels cleaned in the last call
  storedImages,            \* what the cached image set holds: id -> pixel -> value
  setStage                 \* "constructed", "loaded", "cleaned" or "stored"
setVars == <<setSettings, setGroup, held, changed, storedImages, setStage>>

-----------------------------------------------------------------------------
(* Channels and images *)

SquaredGroupCount(group) == Len(SquaredGroups(group))
ChannelsInDeconvolution(settings, group) ==
  IF settings.deconvolutionChannels = 0 THEN SquaredGroupCount(group) ELSE settings.deconvolutionChannels

\* The deconvolution channel of a squared group.
ChannelOf(sqIndex, channels, group) == (sqIndex * channels) \div SquaredGroupCount(group)

\* channelToSqIndex: the search does not end when no group falls in the channel.
ChannelToSqIndex(channel, channels, group) ==
  LET fromFloor == (channel * SquaredGroupCount(group)) \div channels
  IN  CHOOSE s \in fromFloor .. SquaredGroupCount(group) :
        /\ ChannelOf(s, channels, group) = channel
        /\ \A t \in fromFloor .. s - 1 : ChannelOf(t, channels, group) # channel

ImageTotal(settings, group) ==
  Len(SquaredGroups(group)[1]) * ChannelsInDeconvolution(settings, group)

\* initializeIndices: the image of every table entry.
InitializeIndices(settings, group) ==
  LET channels == ChannelsInDeconvolution(settings, group)
      After[i \in 0 .. Len(group)] ==
        IF i = 0 THEN [next |-> 0, start |-> 0, out |-> 0, channel |-> 0, index |-> << >>]
        ELSE LET s == After[i - 1]
                 out == group[i].outputChannelIndex - 1
                 channel == ChannelOf(out, channels, group)
                 image == IF out # s.out /\ channel = s.channel THEN s.start ELSE s.next
             IN  [next |-> image + 1, start |-> IF channel # s.channel THEN image ELSE s.start,
                  out |-> out, channel |-> channel, index |-> Append(s.index, image)]
  IN  After[Len(group)].index

\* The same for _imageIndexToPSFIndex: through the first squared group of the channel.
PSFIndex(image, settings, group) ==
  LET channels == ChannelsInDeconvolution(settings, group)
  IN  CHOOSE c \in 0 .. channels - 1 :
        \E i \in DOMAIN group :
          /\ InitializeIndices(settings, group)[i] = image
          /\ SelectInSeq(SquaredGroups(group)[ChannelToSqIndex(c, channels, group) + 1],
                         LAMBDA e : e = group[i]) # 0

\* Whether the group after group s - 1 belongs to the same deconvolution channel.
\* Mutant: whether the group before does.
SharesBefore(s, channels, group) ==
  s > 1 /\ ChannelOf(s - 2, channels, group) = ChannelOf(s - 1, channels, group)
Shares(s, channels, group) == ChannelOf(s - 1, channels, group) = ChannelOf(s, channels, group)

\* The walk of LoadAndAverage and AssignAndStore: for every squared group, entry and part
\* the image it belongs to.  The counter goes back when the next group shares the channel.
Parts(e, first) ==
  [k \in 1 .. e.imageCount |->
     [id |-> <<e.polarization, e.outputChannelIndex, k - 1>>, image |-> first + k - 1]]
PartsOf(entries, first) == FoldLeft(LAMBDA w, e : w \o Parts(e, first + Len(w)), << >>, entries)

Walk(settings, group) ==
  LET channels == ChannelsInDeconvolution(settings, group)
      squared == SquaredGroups(group)
      After[s \in 0 .. Len(squared)] ==
        IF s = 0 THEN [next |-> 0, steps |-> << >>]
        ELSE LET w == After[s - 1]
                 here == PartsOf(squared[s], w.next)
             IN  [next |-> IF Shares(s, channels, group) THEN w.next ELSE w.next + Len(here),
                  steps |-> w.steps \o here]
  IN  After[Len(squared)].steps

\* directStore walks the entries without groups or channels.
DirectWalk(group) == PartsOf(group, 0)

Images(settings, group) == 0 .. ImageTotal(settings, group) - 1

-----------------------------------------------------------------------------
(* Pixels: row after row *)

Pixel(x, y, width) == x + y * width

\* Trim, through copySmallerPart, and CopyMasked, through copyToLarger.
\* A box is [x1, y1, x2, y2], without its last column and row.
BoxWidth(box) == box.x2 - box.x1
Trim(image, box) ==
  [k \in 0 .. BoxWidth(box) * (box.y2 - box.y1) - 1 |->
     image[Pixel(box.x1 + (k % BoxWidth(box)), box.y1 + (k \div BoxWidth(box)), ImageWidth)]]

CopyMasked(to, from, box, mask) ==
  [k \in DOMAIN to |->
     LET x == k % ImageWidth
         y == k \div ImageWidth
         j == Pixel(x - box.x1, y - box.y1, BoxWidth(box))
     IN  IF x \in box.x1 .. box.x2 - 1 /\ y \in box.y1 .. box.y2 - 1 /\ j \in mask
         THEN from[j] ELSE to[k]]

Boxes == {b \in [x1 : 0 .. ImageWidth - 1, y1 : 0 .. ImageHeight - 1, x2 : 1 .. ImageWidth, y2 : 1 .. ImageHeight] :
            b.x1 < b.x2 /\ b.y1 < b.y2}

-----------------------------------------------------------------------------
(* The operations, in the order of Deconvolution::Perform *)

Nothing == << >>

SetInit ==
  /\ setSettings \in ImageSetSettings
  /\ \E g \in DOMAIN IndependentGroups(MakeImagingTable(setSettings)) :
       setGroup = IndependentGroups(MakeImagingTable(setSettings))[g]
  /\ held = Nothing
  /\ changed = {}
  /\ storedImages = Nothing
  /\ setStage = "constructed"

\* LoadAndAverage: the terms of every image and their number.
Loaded(image, k) ==
  LET steps == SelectSeq(Walk(setSettings, setGroup), LAMBDA s : s.image = image)
  IN  [terms |-> [n \in DOMAIN steps |-> steps[n].id], dividedBy |-> Len(steps), pixel |-> k, psf |-> {}]

LoadAndAverage ==
  /\ setStage = "constructed"
  /\ setStage' = "loaded"
  /\ held' = [i \in Images(setSettings, setGroup) |->
                [k \in 0 .. ImageWidth * ImageHeight - 1 |-> Loaded(i, k)]]
  /\ UNCHANGED <<setSettings, setGroup, changed, storedImages>>

\* LoadAndAveragePSFs and CalculateDeconvolutionFrequencies: the output channels whose PSF
\* and frequency are averaged for a channel, by the first entry of each squared group.
OutputChannelsOf(channel) ==
  LET squared == SquaredGroups(setGroup)
  IN  {squared[s][1].outputChannelIndex :
         s \in {t \in DOMAIN squared :
                  ChannelOf(t - 1, ChannelsInDeconvolution(setSettings, setGroup), setGroup) = channel}}

\* A subimage is cut out, every image of it is cleaned with its PSF, and what its mask
\* holds is put back.
CleanSubImage(box, mask) ==
  /\ setStage = "loaded"
  /\ setStage' = "cleaned"
  /\ held' = [i \in DOMAIN held |->
                LET cut == Trim(held[i], box)
                    cleaned == [j \in DOMAIN cut |->
                                  [cut[j] EXCEPT !.psf = OutputChannelsOf(PSFIndex(i, setSettings, setGroup))]]
                IN  CopyMasked(held[i], cleaned, box, mask)]
  /\ changed' = {Pixel(box.x1 + (j % BoxWidth(box)), box.y1 + (j \div BoxWidth(box)), ImageWidth) : j \in mask}
  /\ UNCHANGED <<setSettings, setGroup, storedImages>>

\* The images that are integrated to search for a peak: those of the linked polarizations in
\* the first squared group of each channel, with the weight of the channel.
Linked(e) == setSettings.linked = {} \/ e.polarization \in setSettings.linked
IntegratedImages ==
  LET channels == ChannelsInDeconvolution(setSettings, setGroup)
      first == [c \in 0 .. channels - 1 |-> SquaredGroups(setGroup)[ChannelToSqIndex(c, channels, setGroup) + 1]]
  IN  UNION {{<<InitializeIndices(setSettings, setGroup)[i], c>> :
                i \in {n \in DOMAIN setGroup : /\ \E m \in DOMAIN first[c] : first[c][m] = setGroup[n]
                                              /\ (Len(first[c]) = 1 \/ Linked(setGroup[n]))}} :
             c \in 0 .. channels - 1}

\* initializePolFactor, doubled: two or four polarizations that together make up Stokes I.
PolarizationFactor ==
  LET pols == {e.polarization : e \in {g \in Range(SquaredGroups(setGroup)[1]) : Linked(g)}}
  IN  IF pols \in {{"XX", "YY"}, {"RR", "LL"}, {"XX", "XY", "YX", "YY"}, {"RR", "RL", "LR", "LL"}}
      THEN 1 ELSE 2

\* AssignAndStore writes every image to all channels it was averaged from.
Reduced == ChannelsInDeconvolution(setSettings, setGroup) # SquaredGroupCount(setGroup)

StoreAll(steps) ==
  [id \in {s.id : s \in Range(steps)} |->
     LET last == CHOOSE n \in DOMAIN steps :
                   steps[n].id = id /\ \A m \in n + 1 .. Len(steps) : steps[m].id # id
     IN  held[steps[last].image]]

AssignAndStore ==
  /\ setStage = "cleaned"
  /\ setStage' = "stored"
  /\ storedImages' = StoreAll(IF Reduced THEN Walk(setSettings, setGroup) ELSE DirectWalk(setGroup))
  /\ UNCHANGED <<setSettings, setGroup, held, changed>>

\* InterpolateAndStore of a model with fewer channels: a fit through the images of every
\* pixel, evaluated at the frequency of each entry.  Spectral fitting is refused together
\* with joined polarizations.
InterpolateAndStore ==
  /\ setStage = "cleaned" /\ Reduced /\ setSettings.fitting
  /\ setStage' = "interpolated"
  /\ storedImages' = [id \in {<<e.polarization, e.outputChannelIndex, 0>> : e \in Range(setGroup)} |->
                        [k \in 0 .. ImageWidth * ImageHeight - 1 |->
                           [fit |-> [i \in DOMAIN held |-> held[i][k]], at |-> id[2]]]]
  /\ UNCHANGED <<setSettings, setGroup, held, changed>>

Masks(box) ==
  LET all == 0 .. BoxWidth(box) * (box.y2 - box.y1) - 1
  IN  {all, all \cap {0, BoxWidth(box)}}

SetOver == setStage \in {"stored", "interpolated"} /\ UNCHANGED setVars

SetNext ==
  \/ LoadAndAverage
  \/ \E box \in Boxes : \E mask \in Masks(box) : CleanSubImage(box, mask)
  \/ AssignAndStore
  \/ InterpolateAndStore
  \/ SetOver

-----------------------------------------------------------------------------
(* Properties *)

SquaredIndexOf(e) ==
  (CHOOSE s \in DOMAIN SquaredGroups(setGroup) : e \in Range(SquaredGroups(setGroup)[s])) - 1
DeconvolutionChannel(e) ==
  ChannelOf(SquaredIndexOf(e), ChannelsInDeconvolution(setSettings, setGroup), setGroup)

\* The entries that are deconvolved as one image with an entry.
Together(e) ==
  {f \in Range(setGroup) :
     f.polarization = e.polarization /\ DeconvolutionChannel(f) = DeconvolutionChannel(e)}

\* A pixel is the average of that pixel in the images of one polarization and part in all
\* output channels of the deconvolution channel, and cleaned with their PSF.
IsAverageOf(value, e, part, k) ==
  /\ Range(value.terms) = {<<f.polarization, f.outputChannelIndex, part>> : f \in Together(e)}
  /\ Len(value.terms) = Cardinality(Together(e)) /\ value.dividedBy = Len(value.terms)
  /\ value.pixel = k
  /\ value.psf = IF k \in changed THEN {f.outputChannelIndex : f \in Together(e)} ELSE {}

ImagesAreAverages ==
  LET indices == InitializeIndices(setSettings, setGroup)
  IN  \A i \in DOMAIN setGroup : LET e == setGroup[i] IN
        \A part \in 0 .. e.imageCount - 1, k \in 0 .. ImageWidth * ImageHeight - 1 :
           /\ IsAverageOf(held[indices[i] + part][k], e, part, k)
           /\ setStage = "stored" =>
                IsAverageOf(storedImages[<<e.polarization, e.outputChannelIndex, part>>][k], e, part, k)
           /\ setStage = "interpolated" =>
                LET value == storedImages[<<e.polarization, e.outputChannelIndex, part>>][k]
                    c == DeconvolutionChannel(e)
                IN  /\ value.at = e.outputChannelIndex
                    /\ IsAverageOf(value.fit[c], e, part, k)
                    /\ OutputChannelsOf(c) = {f.outputChannelIndex : f \in Together(e)}

\* A source of flux one in I, XX, YY, RR and LL keeps it when the linked images are added.
IntegratedOnce ==
  LET indices == InitializeIndices(setSettings, setGroup)
      ofSource == {e \in Range(SquaredGroups(setGroup)[1]) :
                     Linked(e) /\ e.polarization \in {"I", "XX", "YY", "RR", "LL"}}
  IN  /\ \A i \in DOMAIN setGroup :
           LET linked == Linked(setGroup[i])
           IN  {nc \in IntegratedImages : nc[1] = indices[i]}
                 = IF linked THEN {<<indices[i], DeconvolutionChannel(setGroup[i])>>} ELSE {}
      /\ PolarizationFactor * Cardinality(ofSource) = 2

\* ImageSet::initializeIndices, LoadAndAverage, LoadAndAveragePSFs, InterpolateAndStore and
\* AssignAndStore agree: every image is the average of its own polarization, part and
\* channels, cleaned with the PSF of these channels where the mask of the subimage is, and
\* stored for the channels it came from; a fitted spectrum has at every frequency the image
\* of the channels with that mean frequency; the search for a peak sees every image of the
\* linked polarizations once, with the weight of its channel.
ImagesKeepTheirPlace ==
  setStage # "constructed" => ImagesAreAverages /\ (setStage = "loaded" => IntegratedOnce)
=============================================================================
