----------------------------- MODULE ContiguousMS -----------------------------
(***************************************************************************)
(* A measurement set that is read without reordering:                      *)
(* msproviders/contiguousms.{h,cpp}.  The provider goes through the rows   *)
(* of the set itself, skips those that are not selected, and reads each    *)
(* column of the current row once, whatever is asked for how often.        *)
(*                                                                         *)
(* A provider is used either to read rows or to write the model of rows    *)
(* that were read before (by their id); the two share the buffer of the    *)
(* model.  The conversions are those of the reordered set.                 *)
(***************************************************************************)
EXTENDS MSProvider

CONSTANT ContiguousSets   \* records [ms, selection, dd, polOut, have, data, model, predicting]

VARIABLES
  set,          \* the measurement set, the selection and the use
  place,        \* _row, _rowId, _timestep and _time
  cached,       \* per buffer the row of the set that it was read from, NoRow if not read
  modelArray,   \* the contents of the buffer of the model
  column,       \* MODEL_DATA of the set
  result        \* what the last read gave

contiguousVars == <<set, place, cached, modelArray, column, result>>

NoRow == 0
Nothing == [what |-> "nothing"]
NothingCached == [data |-> NoRow, model |-> NoRow]

IdMap == IdToMSRow(set.ms, set.selection, {set.dd})
LastRow == EndRow(set.ms, set.selection)

IsOwnRow(p) == IsSelected(set.selection, set.ms[p.row], p.timestep) /\ set.ms[p.row].dd = set.dd

\* One pass of the loop of NextRow; a row after the last leaves the rest as it is.
Step(p) ==
  LET r == p.row + 1
  IN  IF r >= LastRow THEN [p EXCEPT !.row = r]
      ELSE [p EXCEPT !.row = r, !.time = set.ms[r].time,
                     !.timestep = IF p.time # set.ms[r].time THEN @ + 1 ELSE @]

NextPlace(p) ==
  LET after[k \in 0 .. Len(set.ms) + 1] ==
        IF k = 0 THEN [p EXCEPT !.rowId = @ + 1]
        ELSE LET q == after[k - 1]
             IN  IF k > 1 /\ (q.row >= LastRow \/ IsOwnRow(q)) THEN q ELSE Step(q)
  IN  after[Len(set.ms) + 1]

\* Reset: before the first row, at a time that no row has.
BeforeFirst ==
  [row |-> StartRow(set.ms, set.selection) - 1, rowId |-> -1, time |-> 0,
   timestep |-> IF HasInterval(set.selection) THEN set.selection.intervalStart - 1 ELSE -1]

ContiguousInit ==
  /\ set \in ContiguousSets
  /\ place = NextPlace(BeforeFirst)
  /\ cached = NothingCached
  /\ modelArray = Zero
  /\ column = set.model
  /\ result = Nothing

\* CurrentRowAvailable.  Its own loop over rows that are not selected never runs, because
\* the provider always stands on a row of its own or behind the last.
RowAvailable == place.row < LastRow

ContiguousReset ==
  /\ place' = NextPlace(BeforeFirst)
  /\ cached' = NothingCached
  /\ result' = Nothing
  /\ UNCHANGED <<set, modelArray, column>>

ContiguousNextRow ==
  /\ RowAvailable
  /\ place' = NextPlace(place)
  /\ cached' = NothingCached
  /\ result' = Nothing
  /\ UNCHANGED <<set, modelArray, column>>

\* readData: the buffer is filled once per row.
ContiguousReadData ==
  /\ RowAvailable /\ ~set.predicting
  /\ cached' = [cached EXCEPT !.data = IF @ = NoRow THEN place.row ELSE @]
  /\ result' = [what |-> "data", value |-> CopyData(set.polOut, set.have, set.data[cached'.data])]
  /\ UNCHANGED <<set, place, modelArray, column>>

ContiguousReadModel ==
  /\ RowAvailable /\ ~set.predicting
  /\ modelArray' = IF cached.model = NoRow THEN column[place.row] ELSE modelArray
  /\ cached' = [cached EXCEPT !.model = IF @ = NoRow THEN place.row ELSE @]
  /\ result' = [what |-> "model", value |-> CopyData(set.polOut, set.have, modelArray')]
  /\ UNCHANGED <<set, place, column>>

\* What is predicted for a row, or NotFinite where the gridder did not sample it.
ContiguousPrediction(rowId) == <<8 * (rowId + 10), 0>>

\* WriteModel reads the whole row, stores one polarization in it, and writes it back.
ContiguousWriteModel ==
  /\ set.predicting
  /\ \E rowId \in 0 .. Len(IdMap) - 1, sampled \in BOOLEAN :
       LET row == IdMap[rowId + 1]
           value == IF sampled THEN ContiguousPrediction(rowId) ELSE NotFinite
       IN  /\ rowId <= place.rowId
           /\ modelArray' = ReverseCopyData(set.polOut, set.have, column[row], value)
           /\ column' = [column EXCEPT ![row] = modelArray']
           /\ result' = [what |-> "written", rowId |-> rowId, sampled |-> sampled]
  /\ UNCHANGED <<set, place, cached>>

ContiguousNext ==
  \/ ContiguousReset \/ ContiguousNextRow
  \/ ContiguousReadData \/ ContiguousReadModel \/ ContiguousWriteModel

ContiguousSpec == ContiguousInit /\ [][ContiguousNext]_contiguousVars

-----------------------------------------------------------------------------
(* Properties *)

\* The place that the provider keeps, counted row by row, agrees with the map from row ids
\* to rows that was made in advance and that a later WriteModel goes by; it ends when the
\* map ends, and what is read is of that row.
RowIdMatchesRow ==
  /\ RowAvailable => /\ place.rowId + 1 \in DOMAIN IdMap
                     /\ IdMap[place.rowId + 1] = place.row
                     /\ place.timestep = TimestepOf(set.ms, place.row)
  /\ ~RowAvailable => place.rowId = Len(IdMap)
  /\ result.what = "data" => result.value = CopyData(set.polOut, set.have, set.data[IdMap[place.rowId + 1]])
  /\ result.what = "model" => result.value = CopyData(set.polOut, set.have, column[IdMap[place.rowId + 1]])
=============================================================================
