--------------------------- MODULE ChannelDivision ---------------------------
(***************************************************************************)
(* Which channels of a measurement set are imaged in which output channel, *)
(* and in which part of the reordered set they are stored: the frequency   *)
(* range of an entry of the imaging table (WSClean::makeImagingTableEntry), *)
(* the channels of a spectral window in that range                         *)
(* (WSClean::selectChannels), and the numbering of the parts               *)
(* (WSClean::performReordering).                                           *)
(*                                                                         *)
(* A band is the sequence of the frequencies of its channels, one for each *)
(* data description id.  Channels of a range are counted from 0 and end    *)
(* before "end".  Channel widths are left out.                             *)
(***************************************************************************)
EXTENDS ImagingTable, Integers, FiniteSets, FiniteSetsExt

CONSTANT Observations   \* records [bands, settings]

VARIABLES
  observation,
  place,       \* the entry and the data description id that come next
  channels,    \* the parts, as in PartitionedMS::ChannelRange
  nextIndex,   \* per polarization the number of its next part
  partIndex    \* per entry and data description id its part, or NoPart

divisionVars == <<observation, place, channels, nextIndex, partIndex>>

NoPart == -1
Bands == observation.bands
Settings == observation.settings

-----------------------------------------------------------------------------
(* The frequency ranges of the output channels *)

\* channelSet: the frequencies of the selected spectral windows, once each, in order.
InputFrequencies(bands, settings) ==
  Ascending(UNION {ToSet(bands[d]) : d \in {e \in DOMAIN bands :
                     settings.spectralWindows # {} => e - 1 \in settings.spectralWindows}})

ChannelSelection(bands, settings) ==
  LET all == InputFrequencies(bands, settings)
  IN  IF settings.endChannel # 0 THEN SubSeq(all, settings.startChannel + 1, settings.endChannel) ELSE all

\* Channel index ranges, from 1: an even division, or one at the nOut - 1 largest gaps (of
\* equal gaps the later).
RangeEvenly(freqs, nOut, out) ==
  [first |-> ((out * Len(freqs)) \div nOut) + 1, last |-> ((out + 1) * Len(freqs)) \div nOut]

RangeByGaps(freqs, nOut, out) ==
  LET Gap(i) == freqs[i] - freqs[i - 1]
      Before(i, j) == Gap(i) > Gap(j) \/ (Gap(i) = Gap(j) /\ i > j)
      splits == {i \in 2 .. Len(freqs) :
                   Cardinality({j \in 2 .. Len(freqs) : Before(j, i)}) < nOut - 1}
      starts == Ascending({1} \cup splits)
  IN  [first |-> starts[out + 1],
       last |-> IF out + 1 = nOut THEN Len(freqs) ELSE starts[out + 2] - 1]

EntryRange(freqs, nOut, out, settings) ==
  LET range == IF settings.divideByGaps THEN RangeByGaps(freqs, nOut, out) ELSE RangeEvenly(freqs, nOut, out)
  IN  [lowest |-> freqs[range.first], highest |-> freqs[range.last]]

\* With divideChannelFrequencies the output channels are shared out over the pieces of the
\* frequency axis, and each piece is divided by itself.
FrequencyRange(bands, settings, out) ==
  LET freqs == ChannelSelection(bands, settings)
      splits == settings.divideFrequencies
      n == Len(splits) + 1
      Start(i) == (settings.channelsOut * i) \div n
      piece == CHOOSE i \in 0 .. n - 1 : Start(i) <= out /\ out < Start(i + 1)
      inPiece == SelectSeq(freqs, LAMBDA f : (piece > 0 => f >= splits[piece])
                                             /\ (piece < n - 1 => f < splits[piece + 1]))
  IN  IF splits = <<>> THEN EntryRange(freqs, settings.channelsOut, out, settings)
      ELSE EntryRange(inPiece, Start(piece + 1) - Start(piece), out - Start(piece), settings)

-----------------------------------------------------------------------------
(* selectChannels *)

\* std::lower_bound on an increasing sequence: the elements before the first one that is
\* not lower.
LowerBound(seq, value) == Cardinality({i \in DOMAIN seq : seq[i] < value})

IsReversed(band) == band[1] > band[Len(band)]
Increasing(band) == IF IsReversed(band) THEN Reverse(band) ELSE band

HasChannels(band, range) ==
  LET freqs == Increasing(band)
  IN  range.lowest <= freqs[Len(freqs)] /\ range.highest >= freqs[1]

\* Mutant: a reversed band is treated as an increasing one.
SelectChannelsUnreversed(band, range) ==
  LET freqs == Increasing(band)
      low == LowerBound(freqs, range.lowest)
      bound == LowerBound(freqs, range.highest)
      high == IF bound = Len(freqs) THEN bound - 1 ELSE bound
  IN  [start |-> low, end |-> high + 1]

SelectChannels(band, range) ==
  LET freqs == Increasing(band)
      low == LowerBound(freqs, range.lowest)
      bound == LowerBound(freqs, range.highest)
      high == IF bound = Len(freqs) THEN bound - 1 ELSE bound
  IN  IF IsReversed(band) THEN [start |-> Len(band) - 1 - high, end |-> Len(band) - low]
      ELSE [start |-> low, end |-> high + 1]

-----------------------------------------------------------------------------
(* performReordering: over the squared groups, their entries and the bands *)

Entries == FlattenSeq(SquaredGroups(MakeImagingTable(Settings)))

\* outputChannelIndex counts from 1 in the table, out from 0.
RangeOf(entry) == FrequencyRange(Bands, Settings, entry.outputChannelIndex - 1)

\* Checked where the table is made; the program ends otherwise.
IsValid(o) ==
  /\ Len(InputFrequencies(o.bands, o.settings)) >= o.settings.channelsOut
  /\ o.settings.endChannel <= Len(InputFrequencies(o.bands, o.settings))

DivisionInit ==
  /\ observation \in {o \in Observations : IsValid(o)}
  /\ place = <<1, 1>>
  /\ channels = <<>>
  /\ nextIndex = [p \in ToSet(Settings.polarizations) |-> 0]
  /\ partIndex = [i \in 1 .. Len(Entries), d \in DOMAIN Bands |-> NoPart]

NextPlace ==
  IF place[2] < Len(Bands) THEN <<place[1], place[2] + 1>> ELSE <<place[1] + 1, 1>>

\* A part is added for the first polarization only, each polarization numbers its own.
AssignPart ==
  /\ place[1] <= Len(Entries)
  /\ LET entry == Entries[place[1]]
         band == Bands[place[2]]
         range == SelectChannels(band, RangeOf(entry))
     IN  IF ~HasChannels(band, RangeOf(entry)) THEN UNCHANGED <<channels, nextIndex, partIndex>>
         ELSE /\ channels' = IF entry.polarization = Settings.polarizations[1]
                   THEN Append(channels, [dd |-> place[2] - 1, start |-> range.start, end |-> range.end])
                   ELSE channels
              /\ partIndex' = [partIndex EXCEPT ![place] = nextIndex[entry.polarization]]
              /\ nextIndex' = [nextIndex EXCEPT ![entry.polarization] = @ + 1]
  /\ place' = NextPlace
  /\ UNCHANGED observation

DivisionDone == place[1] > Len(Entries)

DivisionSpec == DivisionInit /\ [][AssignPart]_divisionVars

-----------------------------------------------------------------------------
(* Properties *)

\* Where the frequencies of spectral windows do not interleave and all windows are selected,
\* every selected channel of every window is stored in exactly one part, and all others in
\* none: no data are imaged twice or left out when the channels are divided.
EveryChannelImagedOnce ==
  DivisionDone =>
    \A d \in DOMAIN Bands : \A ch \in DOMAIN Bands[d] :
      Cardinality({k \in DOMAIN channels : channels[k].dd = d - 1 /\ ch - 1 \in channels[k].start .. channels[k].end - 1})
        = IF Bands[d][ch] \in ToSet(ChannelSelection(Bands, Settings)) THEN 1 ELSE 0

\* The part that an entry opens for a spectral window holds the channels of that window in
\* the range of the entry: the entries of all polarizations find the parts that were made
\* for the first one.
EntriesFindTheirParts ==
  DivisionDone =>
    \A i \in 1 .. Len(Entries), d \in DOMAIN Bands :
      LET range == RangeOf(Entries[i])
          part == partIndex[i, d] + 1
          own == SelectChannels(Bands[d], range)
      IN  IF HasChannels(Bands[d], range)
            THEN part \in DOMAIN channels
                 /\ channels[part] = [dd |-> d - 1, start |-> own.start, end |-> own.end]
            ELSE partIndex[i, d] = NoPart
=============================================================================
