---------------------------- MODULE PhaseCentre ----------------------------
(***************************************************************************)
(* chgcentre (chgcentre/main.cpp), which moves the phase centre of a       *)
(* measurement set, called several times on the same set.                  *)
(*                                                                         *)
(* Directions are pairs of integers; the coordinates of one direction as   *)
(* seen from another are their difference.  The phase of a visibility is   *)
(* what has been added to it in turns, for a wavelength of one over the    *)
(* frequency of its channel.  What casacore calculates is in the set: the  *)
(* uvw of an antenna for a direction and a time, the zenith of a time, and *)
(* the direction with the least w.                                         *)
(***************************************************************************)
EXTENDS Integers, Sequences, FiniteSets, SequencesExt, Functions

CONSTANTS
  MeasurementSets,   \* with what casacore calculates and the calls that are made
  MaxCalls

\* Coordinates on the sky, and uvws.
IsPoint(p) == p[1] \in Int /\ p[2] \in Int
IsPlace(p) == p[1] \in Int /\ p[2] \in Int /\ p[3] \in Int

\* What is known of the rows, directions and calls of a set.
IsSet(m) ==
  /\ m.rows \in Seq(Range(m.rows)) /\ m.rows # <<>>
  /\ m.phaseDir \in Seq(DOMAIN m.uvws) /\ m.phaseDir # <<>>
  /\ \A r \in DOMAIN m.rows :
       /\ m.rows[r].field \in DOMAIN m.phaseDir
       /\ \A ch \in DOMAIN m.bands[m.rows[r].dataDescId] : m.bands[m.rows[r].dataDescId][ch] \in Int
       /\ m.zenith[m.rows[r].time] \in DOMAIN m.uvws
       /\ \A d \in DOMAIN m.uvws, a \in {m.rows[r].antenna1, m.rows[r].antenna2} :
            IsPlace(m.uvws[d][m.rows[r].time][a])
  /\ \A d \in DOMAIN m.uvws : IsPoint(d)
  /\ m.minw \in DOMAIN m.uvws
  /\ m.template.direction \in DOMAIN m.uvws /\ IsPoint(m.template.shift)
  /\ \A call \in m.calls : call.direction \in DOMAIN m.uvws
ASSUME SetsAssumption == \A m \in MeasurementSets : IsSet(m)

\* The keywords hold one shift for all fields: a centre is shifted in sets with one field,
\* that are not moved with -geozenith.
IsShifted(m) == \E call \in m.calls : "shiftback" \in call.options \/ "from-ms" \in call.options
HasOneShift(m) ==
  IsShifted(m) => Len(m.phaseDir) = 1 /\ \A call \in m.calls : "geozenith" \notin call.options

VARIABLES
  measurementSet,
  phaseDir,       \* PHASE_DIR of every field
  shift,          \* the keywords WSCLEAN_DL and WSCLEAN_DM of the field table
  uvw,            \* of every row
  phases,         \* of every column, row and channel
  invocation, fieldIndex, newDirection, newShift,
  callsMade,
  leftBehind      \* columns that were not moved along because the options said so, and
                  \* "uvw" when the options made the set non-standard

phaseCentreVars ==
  <<measurementSet, phaseDir, shift, uvw, phases, invocation, fieldIndex, newDirection, newShift,
    callsMade, leftBehind>>

\* A call has a set of options, the direction that is given, the set to take it from, and
\* a column, or "" for all columns.
Has(option) == option \in invocation.options
NoShift == <<0, 0>>
Rows == DOMAIN measurementSet.rows
SetRow(r) == measurementSet.rows[r]

\* Texts have a limited precision.
dirToString(direction) == [i \in {1, 2} |-> direction[i] \div measurementSet.precision]
RaDecToLM(direction, centre) == [i \in {1, 2} |-> direction[i] - centre[i]]
Minus(p, q) == [i \in {1, 2, 3} |-> p[i] - q[i]]
calculateUVW(r, direction) ==
  LET antennas == measurementSet.uvws[direction][SetRow(r).time]
      difference == Minus(antennas[SetRow(r).antenna1], antennas[SetRow(r).antenna2])
  IN  IF Has("flipuvwsign") THEN Minus(<<0, 0, 0>>, difference) ELSE difference
ZenithDirection(r) == measurementSet.zenith[SetRow(r).time]
MiddleRow == Len(measurementSet.rows) \div 2 + 1

\* The phase that a row has to have for its uvw and a shift of the centre.
FringeOf(coordinates, dlm) == -(coordinates[3] + coordinates[1] * dlm[1] + coordinates[2] * dlm[2])
Frequencies(r) == measurementSet.bands[SetRow(r).dataDescId]
rotateVisibilities(r, old, shiftFactor) ==
  [ch \in DOMAIN old |-> old[ch] + shiftFactor * Frequencies(r)[ch]]

\* The columns that a call rotates.
ColumnsToRotate ==
  IF Has("only-uvw") THEN {}
  ELSE IF invocation.column # "" /\ ~Has("geozenith") THEN {invocation.column}
  ELSE measurementSet.columns

PhaseCentreInit ==
  /\ measurementSet \in MeasurementSets
  /\ phaseDir = measurementSet.phaseDir
  /\ shift = NoShift
  /\ uvw = [r \in Rows |->
              LET antennas == measurementSet.uvws[phaseDir[SetRow(r).field]][SetRow(r).time]
              IN  Minus(antennas[SetRow(r).antenna1], antennas[SetRow(r).antenna2])]
  /\ phases = [c \in measurementSet.columns |-> [r \in Rows |->
                 [ch \in DOMAIN Frequencies(r) |-> FringeOf(uvw[r], NoShift) * Frequencies(r)[ch]]]]
  /\ invocation = [options |-> {"none"}] /\ fieldIndex = 0
  /\ newDirection = <<0, 0>> /\ newShift = NoShift /\ callsMade = 0 /\ leftBehind = {}

-----------------------------------------------------------------------------
(* main: the options are known, and the new direction is chosen *)

Begin(call) ==
  /\ fieldIndex = 0 /\ callsMade < MaxCalls   \* a bound
  /\ invocation' = call /\ fieldIndex' = 1 /\ callsMade' = callsMade + 1
  /\ newDirection' =
       IF "zenith" \in call.options THEN ZenithDirection(MiddleRow)
       ELSE IF "minw" \in call.options THEN measurementSet.minw
       ELSE IF "same" \in call.options THEN phaseDir[1]
       ELSE IF "from-ms" \in call.options THEN measurementSet.template.direction
       ELSE call.direction
  /\ newShift' =
       IF "from-ms" \in call.options /\ {"zenith", "minw", "same"} \cap call.options = {}
       THEN measurementSet.template.shift ELSE NoShift
  /\ UNCHANGED <<measurementSet, phaseDir, shift, uvw, phases, leftBehind>>

NextField == fieldIndex' = IF fieldIndex = Len(phaseDir) THEN 0 ELSE fieldIndex + 1

\* The rows of the field are moved: toUVW is the new uvw of a row, and factor what to
\* add to the phases.
MoveRows(toUVW(_), factor(_, _)) ==
  LET ofField == {r \in Rows : SetRow(r).field = fieldIndex}
  IN  /\ uvw' = [r \in Rows |-> IF r \in ofField THEN toUVW(r) ELSE uvw[r]]
      /\ phases' = [c \in DOMAIN phases |-> [r \in Rows |->
           IF r \in ofField /\ c \in ColumnsToRotate
           THEN rotateVisibilities(r, phases[c][r], factor(uvw[r], toUVW(r))) ELSE phases[c][r]]]
      /\ leftBehind' = leftBehind \cup (DOMAIN phases \ ColumnsToRotate)
                         \cup (IF Has("geozenith") THEN {"uvw"} ELSE {})

ShiftFactorOfNew(old, new, oldShift, dlm) == FringeOf(new, dlm) - FringeOf(old, NoShift)   \* mutant
ShiftFactor(old, new, oldShift, dlm) == FringeOf(new, dlm) - FringeOf(old, oldShift)

processField ==
  /\ fieldIndex # 0 /\ ~Has("show") /\ ~Has("geozenith")
  /\ LET dlm == IF Has("shiftback") THEN RaDecToLM(phaseDir[fieldIndex], newDirection) ELSE newShift
         isSameDirection ==
           dirToString(phaseDir[fieldIndex]) = dirToString(newDirection) /\ shift = dlm
     IN  IF isSameDirection /\ ~Has("f") THEN UNCHANGED <<phaseDir, shift, uvw, phases, leftBehind>>
         ELSE /\ MoveRows(LAMBDA r : calculateUVW(r, newDirection),
                          LAMBDA old, new : ShiftFactor(old, new, shift, dlm))
              /\ phaseDir' = [phaseDir EXCEPT ![fieldIndex] = newDirection]
              /\ shift' = dlm
  /\ NextField
  /\ UNCHANGED <<measurementSet, invocation, newDirection, newShift, callsMade>>

rotateToGeoZenith ==
  /\ fieldIndex # 0 /\ ~Has("show") /\ Has("geozenith")
  /\ MoveRows(LAMBDA r : calculateUVW(r, ZenithDirection(r)),
              LAMBDA old, new : FringeOf(new, NoShift) - FringeOf(old, NoShift))
  /\ phaseDir' = [phaseDir EXCEPT ![fieldIndex] = ZenithDirection(MiddleRow)]
  /\ NextField
  /\ UNCHANGED <<measurementSet, shift, invocation, newDirection, newShift, callsMade>>

showChanges ==
  /\ fieldIndex # 0 /\ Has("show") /\ NextField
  /\ UNCHANGED <<measurementSet, phaseDir, shift, uvw, phases, invocation, newDirection, newShift,
                 callsMade, leftBehind>>

PhaseCentreNext ==
  (\E call \in measurementSet.calls : Begin(call)) \/ processField \/ rotateToGeoZenith \/ showChanges

PhaseCentreSpec == PhaseCentreInit /\ [][PhaseCentreNext]_phaseCentreVars

-----------------------------------------------------------------------------
(* What the imager reads: the direction of a field and the shift of the table *)

GetPhaseCentreInfo(field) == [direction |-> phaseDir[field], dlm |-> shift]

\* Whatever calls were made on a set, its uvws are those of the phase centre that is stored,
\* up to their sign, and its visibilities have the phases that belong to the uvws and the
\* shift that the imager will find, except where the user wished otherwise: moving away and
\* back leaves no trace.
VisibilitiesMatchCentre ==
  fieldIndex = 0 =>
    \A r \in Rows :
      LET info == GetPhaseCentreInfo(SetRow(r).field) IN
      /\ "uvw" \in leftBehind \/ calculateUVW(r, info.direction) \in {uvw[r], Minus(<<0, 0, 0>>, uvw[r])}
      /\ \A c \in DOMAIN phases \ leftBehind :
           phases[c][r] = [ch \in DOMAIN Frequencies(r) |-> FringeOf(uvw[r], info.dlm) * Frequencies(r)[ch]]
=============================================================================
