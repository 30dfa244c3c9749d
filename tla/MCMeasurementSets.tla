-------------------------- MODULE MCMeasurementSets --------------------------
(***************************************************************************)
(* The ways to read and write a measurement set, for TLC: one of the       *)
(* components is run in every behaviour, the others do not start.          *)
(***************************************************************************)
EXTENDS ReorderedMS, TimestepBuffer, SequencesExt

CONSTANTS
  Running,        \* the components of a run
  SetupsToTake    \* which measurement sets are reordered or averaged

VARIABLES
  which,
  observation, divisionPlace, channels, nextIndex, partIndex,
  averaging, baseCursor, averageBuffers, current, flushPosition, handedOut,
  set, place, cached, modelArray, column, result

divisionVars == <<observation, divisionPlace, channels, nextIndex, partIndex>>
averagingVars == <<averaging, baseCursor, averageBuffers, current, flushPosition, handedOut>>
contiguousVars == <<set, place, cached, modelArray, column, result>>

-----------------------------------------------------------------------------
(* The sets *)

PolarizationNumber(q) == CHOOSE k \in 1 .. 12 : AllPolarizations[k] = q

\* A row in field 0; all rows have different uvws.
Row(t, dd, a1, a2) ==
  [time |-> t, dd |-> dd, field |-> 0, a1 |-> a1, a2 |-> a2, uvw |-> 10 * t + 3 * dd + a2]

\* Values that are all different; the second row has a value that is not finite and the
\* first one that is flagged.
Values(n, nChannels, have, scale) ==
  [r \in 1 .. n |-> [ch \in 0 .. nChannels - 1 |-> [q \in have |->
     <<scale * (100 * r + 20 * ch + PolarizationNumber(q)), 2 * scale>>]]]

Blanked(values, have) ==
  [r \in DOMAIN values |-> [ch \in DOMAIN values[r] |-> [q \in have |->
     IF r = 2 /\ q = "YY" THEN NotFinite ELSE values[r][ch][q]]]]

SetupOf(ms, nChannels, have, want, parts, selection, initial) ==
  [ms |-> ms, selection |-> selection, have |-> have, want |-> want, channels |-> parts,
   data |-> Blanked(Values(Len(ms), nChannels, have, 4), have),
   weights |-> [r \in 1 .. Len(ms) |-> [ch \in 0 .. nChannels - 1 |-> [q \in have |->
                  100 * r + 20 * ch + PolarizationNumber(q)]]],
   flags |-> [r \in 1 .. Len(ms) |-> [ch \in 0 .. nChannels - 1 |-> [q \in have |-> r = 1 /\ q = "XX"]]],
   model |-> Values(Len(ms), nChannels, have, 8),
   includeModel |-> TRUE, initialModelRequired |-> initial, modelUpdateRequired |-> TRUE]

TwoWindows == <<Row(1, 0, 0, 1), Row(1, 1, 0, 1), Row(1, 0, 0, 0), Row(2, 0, 0, 1), Row(2, 1, 0, 1)>>
OneWindow == <<Row(1, 0, 0, 1), Row(1, 0, 1, 1), Row(2, 0, 0, 1), Row(2, 0, 0, 2)>>
AllLinear == {"XX", "XY", "YX", "YY"}
OnePart == <<[dd |-> 0, start |-> 0, end |-> 1]>>
SecondTimestep == [Everything EXCEPT !.intervalStart = 1, !.intervalEnd = 2]

\* Two windows in three parts, Stokes I and Q of one window, U and V on top of an earlier
\* model, circular feeds with an interval.
WindowsInOrder ==
  {SetupOf(TwoWindows, 2, {"XX", "YY"}, {"I"},
     <<[dd |-> 0, start |-> 0, end |-> 1], [dd |-> 1, start |-> 0, end |-> 1], [dd |-> 0, start |-> 1, end |-> 2]>>,
     Everything, FALSE),
   SetupOf(OneWindow, 1, {"XX", "YY"}, {"I", "Q"}, OnePart, Everything, FALSE),
   SetupOf(OneWindow, 1, AllLinear, {"U", "V"}, OnePart, Everything, TRUE),
   SetupOf(OneWindow, 2, {"RR", "LL"}, {"I", "V"}, OnePart, SecondTimestep, FALSE)}

\* Only the second of two windows is imaged.
SecondWindowOnly ==
  {SetupOf(TwoWindows, 2, {"XX", "YY"}, {"I"}, <<[dd |-> 1, start |-> 0, end |-> 1]>>, Everything, FALSE)}

MCSetups == IF SetupsToTake = "second window" THEN SecondWindowOnly ELSE WindowsInOrder

-----------------------------------------------------------------------------
(* The observations whose channels are divided *)

DivisionSettings(n, pols, joinPols, joinChannels, byGaps, splits, first, end) ==
  [channelsOut |-> n, polarizations |-> pols, joinPolarizations |-> joinPols,
   joinChannels |-> joinChannels, divideByGaps |-> byGaps, divideFrequencies |-> splits,
   startChannel |-> first, endChannel |-> end, spectralWindows |-> {}]

\* Bands that go up or down, that are apart, or that cover the same frequencies.
Observations ==
  [bands : {<<<<1, 2, 3, 5, 6>>>>, <<<<6, 5, 3, 2, 1>>>>, <<<<4, 5, 6>>, <<1, 2>>>>,
            <<<<1, 2, 3, 7>>, <<1, 2, 3, 7>>>>, <<<<8, 7>>, <<1, 2, 3>>>>},
   settings : {DivisionSettings(n, pols, jp, jc, gaps, <<>>, range[1], range[2]) :
                 n \in 1 .. 3, pols \in {<<"I">>, <<"XX", "YY">>}, jp \in BOOLEAN, jc \in BOOLEAN,
                 gaps \in BOOLEAN, range \in {<<0, 0>>, <<1, 4>>}}
              \cup {DivisionSettings(n, pols, jp, FALSE, FALSE, <<3>>, 0, 0) :
                 n \in 2 .. 3, pols \in {<<"I">>, <<"XX", "YY">>}, jp \in BOOLEAN}]

Division == INSTANCE ChannelDivision WITH place <- divisionPlace

-----------------------------------------------------------------------------
(* The sets that are averaged: three antennas, two windows, factors 1 to 4 *)

AveragedRows ==
  <<Row(6, 0, 0, 1), Row(6, 1, 0, 1), Row(6, 0, 1, 2), Row(12, 0, 0, 1), Row(12, 1, 0, 1),
    Row(12, 0, 1, 2), Row(18, 0, 0, 1), Row(18, 0, 1, 2)>>

AveragingOf(flagged, factor, selection) ==
  [ms |-> AveragedRows, selection |-> selection, nAntennae |-> 3,
   weights |-> [r \in DOMAIN AveragedRows |-> 1],
   flags |-> [r \in DOMAIN AveragedRows |-> r \in flagged],
   spwIndexes |-> (0 :> 0 @@ 1 :> 1),
   factors |-> [b \in (0 .. 2) \X (0 .. 2) \X (0 .. 1) |->
                  IF b = <<0, 1, 0>> THEN factor ELSE IF b[2] = 1 THEN 3 ELSE 2]]

Averagings ==
  IF SetupsToTake = "interval"
    THEN {AveragingOf({}, f, [Everything EXCEPT !.intervalEnd = 3]) : f \in 1 .. 4}
    ELSE {AveragingOf(flagged, f, Everything) : flagged \in SUBSET {1, 3, 4, 7, 8}, f \in 1 .. 4}

Averaging == INSTANCE AveragingRows WITH buffers <- averageBuffers

-----------------------------------------------------------------------------
(* The sets that are read without reordering *)

ContiguousRows ==
  <<Row(1, 0, 0, 0), Row(1, 0, 0, 1), Row(2, 0, 0, 1), Row(3, 0, 1, 1), Row(3, 0, 0, 2), Row(3, 0, 0, 3)>>

ContiguousSets ==
  {[ms |-> ContiguousRows, selection |-> selection, dd |-> 0, polOut |-> pol,
    have |-> {"XX", "YY"}, predicting |-> predicting,
    data |-> [r \in 1 .. 6 |-> Values(6, 1, {"XX", "YY"}, 4)[r][0]],
    model |-> [r \in 1 .. 6 |-> Values(6, 1, {"XX", "YY"}, 8)[r][0]]] :
     pol \in {"XX", "I", "Q"}, predicting \in BOOLEAN,
     selection \in {Everything, [Everything EXCEPT !.evenOdd = "odd"], [Everything EXCEPT !.evenOdd = "even"],
                    [Everything EXCEPT !.intervalStart = 1, !.intervalEnd = 3], [Everything EXCEPT !.minUVW = 20]}}

Contiguous == INSTANCE ContiguousMS

-----------------------------------------------------------------------------
(* The rows that are read per timestep *)

Baseline(t, a1, a2) == [time |-> t, a1 |-> a1, a2 |-> a2]

\* All baselines of eight antennas, more than there are values in their uvws, and of three.
BaselinesOfEight(t) ==
  FlattenSeq([k \in 1 .. 7 |-> [l \in 1 .. 8 - k |-> Baseline(t, k - 1, k - 1 + l)]])
EightAntennas == BaselinesOfEight(1) \o BaselinesOfEight(2)
ThreeAntennas ==
  <<Baseline(1, 0, 1), Baseline(1, 0, 2), Baseline(1, 1, 2), Baseline(2, 0, 1), Baseline(2, 1, 2)>>

MCProviderRows == {EightAntennas, ThreeAntennas, <<>>}
MCWithATerms == IF SetupsToTake = "few antennas" THEN {ThreeAntennas} ELSE {EightAntennas}

-----------------------------------------------------------------------------
(* One component at a time *)

\* The variables of a component that is not run.
ReorderedIdle ==
  /\ setup = CHOOSE s \in WindowsInOrder : TRUE
  /\ phase = "idle" /\ cursor = 0 /\ partFiles = 0 /\ metaFiles = 0 /\ modelColumn = 0
  /\ reader = NoReader /\ lastRead = NothingRead /\ predicted = {}

DivisionIdle ==
  observation = 0 /\ divisionPlace = 0 /\ channels = 0 /\ nextIndex = 0 /\ partIndex = 0
AveragingIdle ==
  averaging = 0 /\ baseCursor = 0 /\ averageBuffers = 0 /\ current = 0 /\ flushPosition = 0 /\ handedOut = 0
ContiguousIdle ==
  set = 0 /\ place = 0 /\ cached = 0 /\ modelArray = 0 /\ column = 0 /\ result = 0
TimestepIdle == rows = <<>>

MSInit ==
  /\ which \in Running
  /\ IF which = "reordered" THEN ReorderedInit ELSE ReorderedIdle
  /\ IF which = "division" THEN Division!DivisionInit ELSE DivisionIdle
  /\ IF which = "averaging" THEN Averaging!AveragingInit ELSE AveragingIdle
  /\ IF which = "contiguous" THEN Contiguous!ContiguousInit ELSE ContiguousIdle
  /\ TimestepInit /\ (which # "timestep" => TimestepIdle)

ReorderedStep ==
  which = "reordered" /\ ReorderedNext
  /\ UNCHANGED <<which, divisionVars, averagingVars, contiguousVars, timestepVars>>
DivisionStep ==
  which = "division" /\ Division!AssignPart
  /\ UNCHANGED <<which, reorderedVars, averagingVars, contiguousVars, timestepVars>>
AveragingStep ==
  which = "averaging" /\ Averaging!AveragingNext
  /\ UNCHANGED <<which, reorderedVars, divisionVars, contiguousVars, timestepVars>>
ContiguousStep ==
  which = "contiguous" /\ Contiguous!ContiguousNext
  /\ UNCHANGED <<which, reorderedVars, divisionVars, averagingVars, timestepVars>>
TimestepStep ==
  which = "timestep" /\ TimestepNext
  /\ UNCHANGED <<which, reorderedVars, divisionVars, averagingVars, contiguousVars>>

MSNext == ReorderedStep \/ DivisionStep \/ AveragingStep \/ ContiguousStep \/ TimestepStep

msVars == <<which, reorderedVars, divisionVars, averagingVars, contiguousVars, timestepVars>>

MSSpec == MSInit /\ [][MSNext]_msVars

-----------------------------------------------------------------------------
(* The properties of the components that are run *)

\* Every selected channel is in one part, and the entries of all polarizations open the
\* parts of their channels (ChannelDivision).
EveryChannelImagedOnce ==
  which = "division" => Division!EveryChannelImagedOnce /\ Division!EntriesFindTheirParts

\* Every selected row is in one average of its own baseline (AveragingRows).
AveragesCoverSelection == which = "averaging" => Averaging!AveragesCoverSelection

\* A provider of files reads the data, weights and model of its own row, and one without files
\* has a place that agrees with its map of row ids (ReorderedMS, ContiguousMS).
RowsReadAsStored ==
  /\ which = "reordered" => ReadsMatchRow
  /\ which = "contiguous" => Contiguous!RowIdMatchesRow
=============================================================================
