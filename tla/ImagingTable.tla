---------------------------- MODULE ImagingTable ----------------------------
(***************************************************************************)
(* The imaging table: one entry for every output channel and polarization, *)
(* put in groups by WSClean::makeImagingTable (wsclean/wsclean.cpp) and     *)
(* looked up by group by class ImagingTable (wsclean/imagingtable.cpp).    *)
(*                                                                         *)
(* Entries of an independent group (joinedGroupIndex) are deconvolved      *)
(* together, those of a squared group (squaredDeconvolutionIndex) by       *)
(* adding their powers.  Polarizations are in the order of the enum, which *)
(* is the order of std::set<PolarizationEnum>.                             *)
(***************************************************************************)
EXTENDS Integers, FiniteSets, Sequences, SequencesExt

PolarizationEnum ==
  [I |-> 0, Q |-> 1, U |-> 2, V |-> 3, RR |-> 4, RL |-> 5, LR |-> 6, LL |-> 7,
   XX |-> 8, XY |-> 9, YX |-> 10, YY |-> 11]

ImageCount(pol) == CASE pol = "XY" -> 2 [] pol = "YX" -> 0 [] OTHER -> 1

\* squaredGroupIndex counts on over the whole table: per channel when the
\* polarizations are joined, otherwise per entry.
SquaredGroupIndex(settings, channel, p) ==
  IF settings.joinPolarizations THEN channel - 1
  ELSE (channel - 1) * Len(settings.polarizations) + p - 1

\* joinedGroupIndex counts the same, but with joined channels it starts again
\* for every channel.
JoinedGroupIndex(settings, channel, p) ==
  SquaredGroupIndex(settings, IF settings.joinChannels THEN 1 ELSE channel, p)

MakeImagingTable(settings) ==
  LET nPol == Len(settings.polarizations)
      Entry(channel, p) ==
        [polarization |-> settings.polarizations[p], outputChannelIndex |-> channel,
         joinedGroupIndex |-> JoinedGroupIndex(settings, channel, p),
         squaredDeconvolutionIndex |-> SquaredGroupIndex(settings, channel, p),
         imageCount |-> ImageCount(settings.polarizations[p])]
  IN  [i \in 1 .. nPol * settings.channelsOut |-> Entry(((i - 1) \div nPol) + 1, ((i - 1) % nPol) + 1)]

(***************************************************************************)
(* The lookup tables: groups in the order in which their first entry comes.*)
(***************************************************************************)
Ascending(S) ==
  [i \in 1 .. Cardinality(S) |-> CHOOSE x \in S : Cardinality({y \in S : y < x}) = i - 1]

\* The part of a sequence that is at some places, in the same order.
AtPlaces(seq, places) ==
  LET order == Ascending(places)
  IN  [k \in DOMAIN order |-> seq[order[k]]]

\* The first entry of every group.
Firsts(keys) == Ascending({i \in DOMAIN keys : \A j \in 1 .. i - 1 : keys[j] # keys[i]})

GroupsBy(table, keys) ==
  LET firsts == Firsts(keys)
  IN  [g \in DOMAIN firsts |-> AtPlaces(table, {i \in DOMAIN keys : keys[i] = keys[firsts[g]]})]

IndependentGroups(table) == GroupsBy(table, [i \in DOMAIN table |-> table[i].joinedGroupIndex])
SquaredGroups(table) == GroupsBy(table, [i \in DOMAIN table |-> table[i].squaredDeconvolutionIndex])
=============================================================================
