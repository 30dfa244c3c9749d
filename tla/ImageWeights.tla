---------------------------- MODULE ImageWeights ----------------------------
(***************************************************************************)
(* Imaging weights (imageweights.cpp, imageweights.h) and the cache that   *)
(* calculates them when an image needs them (imageweightcache.h), for one  *)
(* measurement set with one spectral window, as WSClean calls them.        *)
(*                                                                         *)
(* u, v and distances are in units of which `width' * `height' make one    *)
(* over the size of a pixel, so that cells are GridHeight wide and GridWidth high. *)
(* Weights are fractions; the Gaussian and Tukey windows are replaced by   *)
(* fractions that fall off in the same place.                              *)
(***************************************************************************)
EXTENDS Integers, Sequences, FiniteSets, SequencesExt, FiniteSetsExt, Functions, ImagingTable

CONSTANT WeightJobs

VARIABLES
  weightJob,
  gridded,     \* the weights that are being calculated: grid, totalSum
  providers,   \* what must still be added to them: channel ranges of a polarization
  cachedWeights,
  currentWeightChannel,   \* the key of the cache; 0 for none
  requests,    \* entries of the imaging table that are to be gridded
  given        \* the entry that has just been given its weights, in a sequence, if there is one

weightVars == <<weightJob, gridded, providers, cachedWeights, currentWeightChannel, requests, given>>

-----------------------------------------------------------------------------
(* Fractions *)

Fraction(n) == <<n, 1>>
Times(a, b) == <<a[1] * b[1], a[2] * b[2]>>
Plus(a, b) == IF a[2] = b[2] THEN <<a[1] + b[1], a[2]>> ELSE <<a[1] * b[2] + b[1] * a[2], a[2] * b[2]>>
Less(a, b) == a[1] * b[2] < b[1] * a[2]
Equal(a, b) == a[1] * b[2] = b[1] * a[2]

-----------------------------------------------------------------------------
(* The grid: the half of the uv plane with positive v *)

EvenSize(n) ==
  LET rounded == ((2 * n) \div weightJob.superWeight + 1) \div 2 IN rounded + (rounded % 2)
GridWidth == EvenSize(weightJob.width)
GridHeight == EvenSize(weightJob.height)
Cells == (0 .. GridWidth - 1) \X (0 .. GridHeight \div 2 - 1)

UvToXY(u, v) ==
  LET sign == IF v < 0 THEN -1 ELSE 1
  IN  <<(sign * u) \div GridHeight + GridWidth \div 2, (sign * v) \div GridWidth>>
XyToUV(cell) == <<(cell[1] - GridWidth \div 2) * GridHeight, cell[2] * GridWidth>>

MakeEmptyWeights == [grid |-> [cell \in Cells |-> Fraction(0)], totalSum |-> 0]

GridSample(weights, u, v, weight) ==
  LET cell == UvToXY(u, v)
  IN  IF cell \notin Cells THEN weights
      ELSE [grid |-> [weights.grid EXCEPT ![cell] = Plus(@, Fraction(weight))],
            totalSum |-> weights.totalSum + weight]

\* The weight that a sample has in a polarization; flagged samples weigh nothing.
VisibilityWeight(row, pol, ch) ==
  LET w == weightJob.rows[row].weights[pol][ch]
  IN  IF weightJob.weightsAsTaper /\ w # 0 THEN 1 ELSE w

\* Grid(MSProvider&): v is made positive before the division by the wavelength.
GridProvider(weights, provider) ==
  LET SampleOf(i) ==
        LET n == provider.last - provider.first + 1
            row == weightJob.rows[(i - 1) \div n + 1]
            ch == provider.first + ((i - 1) % n)
            sign == IF row.v < 0 THEN -1 ELSE 1
        IN  [u |-> sign * row.u * weightJob.freqs[ch], v |-> sign * row.v * weightJob.freqs[ch],
             w |-> VisibilityWeight((i - 1) \div n + 1, provider.polarization, ch)]
  IN  FoldLeft(LAMBDA g, i : LET s == SampleOf(i) IN GridSample(g, s.u, s.v, s.w), weights,
               [i \in 1 .. Len(weightJob.rows) * (provider.last - provider.first + 1) |-> i])

\* robustness is the square of 5 * 10^-R.
FinishGridding(weights) ==
  LET squares == FoldFunction(LAMBDA g, total : total + g[1] * g[1], 0, weights.grid)
      Weight(g) ==
        CASE weightJob.mode = "briggs" ->
               <<squares, squares + g[1] * weightJob.robustness * weights.totalSum>>
          [] weightJob.mode = "uniform" -> IF g[1] # 0 THEN <<1, g[1]>> ELSE Fraction(0)
          [] weightJob.mode = "natural" -> IF g[1] # 0 THEN Fraction(1) ELSE Fraction(0)
  IN  [weights EXCEPT !.grid = [cell \in Cells |-> Weight(weights.grid[cell])]]

-----------------------------------------------------------------------------
(* The filter and the tapers *)

\* windowMean: the window has no last row and column, unless it ends with the grid.
Window(cell) ==
  LET d == weightJob.rankSize \div 2
      Span(at, n) == (IF at <= d THEN 0 ELSE at - d) .. (IF at + d >= n THEN n ELSE at + d) - 1
  IN  Span(cell[1], GridWidth) \X Span(cell[2], GridHeight \div 2)
RankLimit(grid, cell) ==
  LET used == {c \in Window(cell) : grid[c][1] # 0}
      sum == FoldSet(LAMBDA c, total : Plus(total, grid[c]), Fraction(0), used)
  IN  Times(sum, <<weightJob.rankLevel, Cardinality(used)>>)

\* The mean of nothing is not a number, which no weight is larger than.
RankFilter(grid) ==
  [cell \in Cells |->
     IF \E c \in Window(cell) : grid[c][1] # 0 /\ Less(RankLimit(grid, cell), grid[cell])
     THEN RankLimit(grid, cell) ELSE grid[cell]]

DistSq(cell) == XyToUV(cell)[1] * XyToUV(cell)[1] + XyToUV(cell)[2] * XyToUV(cell)[2]
Scaled(grid, Factor(_)) == [cell \in Cells |-> Times(grid[cell], Factor(cell))]
Kept(condition) == IF condition THEN Fraction(1) ELSE Fraction(0)
\* 0 at 0 and 1 at n.
Tukey(x, n) == IF x >= n THEN Fraction(1) ELSE <<x, n>>

SetGaussianTaper(grid) == Scaled(grid, LAMBDA cell : <<weightJob.gaussian, weightJob.gaussian + DistSq(cell)>>)

\* With a Tukey window of no size only the limit itself is applied.
SetInnerTaper(grid) ==
  LET min == weightJob.minUV
      end == min + weightJob.innerTukey
  IN  Scaled(grid, LAMBDA cell :
        IF DistSq(cell) < min * min THEN Fraction(0)
        ELSE IF DistSq(cell) < end * end THEN Tukey(DistSq(cell) - min * min, end * end - min * min)
        ELSE Fraction(1))
SetOuterTaper(grid) ==
  LET max == weightJob.maxUV
      begin == max - weightJob.tukey
  IN  Scaled(grid, LAMBDA cell :
        IF DistSq(cell) > max * max THEN Fraction(0)
        ELSE IF DistSq(cell) > begin * begin THEN Tukey(max * max - DistSq(cell), max * max - begin * begin)
        ELSE Fraction(1))
SetEdgeTaper(grid) ==
  LET Distances(cell) == {(GridWidth * GridHeight) \div 2 - Max({XyToUV(cell)[i], -XyToUV(cell)[i]}) : i \in {1, 2}}
      Nearest(cell) == Min(Distances(cell)) - weightJob.edge
  IN  Scaled(grid, LAMBDA cell :
        IF Nearest(cell) < 0 THEN Fraction(0)
        ELSE IF weightJob.edgeTukey = 0 THEN Fraction(1)
        ELSE Times(Tukey(Min(Distances(cell)) - weightJob.edge, weightJob.edgeTukey),
                   Tukey(Max(Distances(cell)) - weightJob.edge, weightJob.edgeTukey)))

InitializeWeightTapers(weights) ==
  LET filtered == IF weightJob.rankLevel >= 1 THEN RankFilter(weights.grid) ELSE weights.grid
      gaussian == IF weightJob.gaussian # 0 THEN SetGaussianTaper(filtered) ELSE filtered
      inner == IF weightJob.innerTukey # 0 \/ weightJob.minUV # 0 THEN SetInnerTaper(gaussian) ELSE gaussian
      outer == IF weightJob.tukey # 0 \/ weightJob.maxUV # 0 THEN SetOuterTaper(inner) ELSE inner
  IN  [weights EXCEPT !.grid =
         IF weightJob.edgeTukey # 0 \/ weightJob.edge # 0 THEN SetEdgeTaper(outer) ELSE outer]

GetWeight(weights, u, v) ==
  LET cell == UvToXY(u, v) IN IF cell \in Cells THEN weights.grid[cell] ELSE Fraction(0)

\* GetGrid: the saved image, with the other half of the plane.
GetGrid(weights) ==
  [pixel \in (0 .. GridWidth - 1) \X (0 .. GridHeight - 1) |->
     IF pixel[2] >= GridHeight \div 2 THEN weights.grid[<<pixel[1], pixel[2] - GridHeight \div 2>>]
     ELSE weights.grid[<<GridWidth - pixel[1] - 1, GridHeight \div 2 - 1 - pixel[2]>>]]

-----------------------------------------------------------------------------
(* The cache, and what is weighted *)

Table == MakeImagingTable(weightJob)
ProviderOf(entry) ==
  [polarization |-> entry.polarization, first |-> weightJob.ranges[entry.outputChannelIndex][1],
   last |-> weightJob.ranges[entry.outputChannelIndex][2]]

\* initializeMFSImageWeights: the first entry of every squared group, or the whole set.
MFProviders ==
  IF weightJob.reorder THEN [g \in DOMAIN SquaredGroups(Table) |-> ProviderOf(SquaredGroups(Table)[g][1])]
  ELSE <<[polarization |-> weightJob.polarizations[1], first |-> 1, last |-> Len(weightJob.freqs)]>>

\* A group makes its PSFs, and its images in every major iteration.
RequestsOf(group) ==
  SelectSeq(group, LAMBDA e : e.polarization = weightJob.polarizations[1]) \o group \o group

NoEntry == <<>>
WeightsInit ==
  /\ weightJob \in WeightJobs
  /\ gridded = MakeEmptyWeights
  /\ providers = IF weightJob.mfWeighting THEN MFProviders ELSE <<>>
  /\ cachedWeights = [grid |-> <<>>, totalSum |-> 0] /\ currentWeightChannel = 0
  /\ requests = FlattenSeq([g \in DOMAIN IndependentGroups(Table) |-> RequestsOf(IndependentGroups(Table)[g])])
  /\ given = NoEntry

GridNext ==
  /\ providers # <<>>
  /\ gridded' = GridProvider(gridded, Head(providers))
  /\ providers' = Tail(providers)
  /\ IF Len(providers) > 1 THEN UNCHANGED <<cachedWeights, currentWeightChannel>>
     ELSE /\ cachedWeights' = InitializeWeightTapers(FinishGridding(gridded'))
          /\ currentWeightChannel' = IF weightJob.mfWeighting THEN 0 ELSE Head(requests).outputChannelIndex
  /\ UNCHANGED <<weightJob, requests, given>>

\* The cache knows the channel of its weights, not their polarization.
IsCachedAnyChannel(entry) == currentWeightChannel # 0   \* mutant
IsCached(entry) == currentWeightChannel = entry.outputChannelIndex

\* Get: when it has to calculate, the entry is given its weights after that.
RequestWeights ==
  /\ providers = <<>> /\ requests # <<>>
  /\ IF weightJob.mfWeighting \/ IsCached(Head(requests))
       THEN given' = <<Head(requests)>> /\ requests' = Tail(requests) /\ UNCHANGED <<gridded, providers>>
       ELSE /\ providers' = <<ProviderOf(Head(requests))>> /\ gridded' = MakeEmptyWeights
            /\ given' = NoEntry /\ UNCHANGED requests
  /\ UNCHANGED <<weightJob, cachedWeights, currentWeightChannel>>

WeightsNext == GridNext \/ RequestWeights

-----------------------------------------------------------------------------
(* Properties *)

Density(pols, channels, cell) ==
  MapThenSumSet(LAMBDA s : VisibilityWeight(s[1], s[2], s[3]),
    {s \in (1 .. Len(weightJob.rows)) \X pols \X channels :
       UvToXY(weightJob.rows[s[1]].u * weightJob.freqs[s[3]], weightJob.rows[s[1]].v * weightJob.freqs[s[3]]) = cell})

ChannelsWeighted(entry) ==
  UNION {ProviderOf(e).first .. ProviderOf(e).last :
           e \in IF weightJob.mfWeighting THEN Range(Table) ELSE {entry}}

\* What the mode makes of a density, compared with that of other cells.
Suits(weight, density, other, otherDensity) ==
  LET Excess(w) == <<w[2] - w[1], w[1]>>
  IN  CASE weightJob.mode = "uniform" -> density = 0 \/ Equal(Times(weight, Fraction(density)), Fraction(1))
        [] weightJob.mode = "natural" -> Equal(weight, Fraction(IF density = 0 THEN 0 ELSE 1))
        [] weightJob.mode = "briggs" ->
             Equal(Times(Excess(weight), Fraction(otherDensity)), Times(Excess(other), Fraction(density)))

IsTapered ==
  \/ weightJob.rankLevel >= 1 \/ weightJob.gaussian # 0 \/ weightJob.minUV # 0 \/ weightJob.innerTukey # 0
  \/ weightJob.maxUV # 0 \/ weightJob.tukey # 0 \/ weightJob.edge # 0 \/ weightJob.edgeTukey # 0

\* The weights with which an entry is gridded are what the mode makes of the weight that
\* the samples of its own channels (all channels, with MF weights) put in every cell, in
\* one or more of the polarizations, and no more than that with a taper; a visibility and
\* its conjugate weigh the same, when they are looked up and in the saved image.
WeightsFitTheirImages ==
  given # <<>> /\ providers = <<>> =>
    /\ \E pols \in SUBSET Range(weightJob.polarizations) \ {{}} :
         \A cell \in Cells :
           LET density(c) == Density(pols, ChannelsWeighted(given[1]), c)
           IN  IF IsTapered THEN gridded.grid[cell] = Fraction(density(cell))
               ELSE \A other \in Cells :
                      Suits(cachedWeights.grid[cell], density(cell), cachedWeights.grid[other], density(other))
    /\ \A cell \in Cells : ~Less(FinishGridding(gridded).grid[cell], cachedWeights.grid[cell])
    /\ \A row \in 1 .. Len(weightJob.rows), ch \in 1 .. Len(weightJob.freqs) :
         LET u == weightJob.rows[row].u * weightJob.freqs[ch]
             v == weightJob.rows[row].v * weightJob.freqs[ch]
             pixel == <<u \div GridHeight + GridWidth \div 2, v \div GridWidth + GridHeight \div 2>>
         IN  /\ GetWeight(cachedWeights, u, v) = GetWeight(cachedWeights, -u, -v)
             /\ pixel \in DOMAIN GetGrid(cachedWeights) /\ u % GridHeight # 0 /\ v % GridWidth # 0 =>
                  GetGrid(cachedWeights)[pixel] = GetWeight(cachedWeights, u, v)
=============================================================================
