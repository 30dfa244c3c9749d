---------------------------- MODULE TimestepBuffer ----------------------------
(***************************************************************************)
(* A provider that reads a block of rows of the same timestep from another *)
(* provider: msproviders/timestepbuffer.h.  The gridder that uses it       *)
(* (idg/idgmsgridder.cpp) asks for the uvws of a timestep, when it applies *)
(* a-terms, before it goes through the rows of that timestep.              *)
(*                                                                         *)
(* The rows of the provider below are records [time, a1, a2]; a row of the *)
(* block is the number of such a row, or 0 for a row that was not read.    *)
(***************************************************************************)
EXTENDS Naturals, Sequences

CONSTANTS
  ProviderRows,   \* sequences of rows
  WithATerms      \* those of them for which a-terms are applied, so that uvws are asked for

ASSUME ProviderRowsAssumption ==
  \A rs \in ProviderRows : rs \in Seq([time : Nat, a1 : Nat, a2 : Nat])

\* A timestep, and timesteps with enough rows for the uvws of their antennas.
IsTimestep(rs, first, last) ==
  /\ \A r \in first .. last : rs[r].time = rs[first].time
  /\ last < Len(rs) => rs[last + 1].time # rs[first].time
HasEnoughRows(rs) ==
  \A first, last \in DOMAIN rs :
    first <= last /\ IsTimestep(rs, first, last) =>
      \A r \in first .. last : rs[r].a1 = 0 => rs[r].a2 * 3 < last - first + 1

VARIABLES
  rows,       \* the provider below
  nextRow,    \* its current row
  block,      \* _buffer
  position,   \* _bufferPosition, from 1
  time,       \* the time of the gridder's last row
  seen        \* history: the rows that were handed out

timestepVars == <<rows, nextRow, block, position, time, seen>>

\* readTimeblock: the rows up to the next change of time.
BlockEnd(from) ==
  CHOOSE last \in from .. Len(rows) :
    /\ \A r \in from .. last : rows[r].time = rows[from].time
    /\ last < Len(rows) => rows[last + 1].time # rows[from].time

ReadTimeblock(from) ==
  IF from > Len(rows) THEN block' = <<>> /\ nextRow' = from
  ELSE /\ block' = [i \in 1 .. BlockEnd(from) - from + 1 |-> from + i - 1]
       /\ nextRow' = BlockEnd(from) + 1

TimestepInit ==
  /\ rows \in ProviderRows
  /\ nextRow = 1 /\ block = <<>> /\ position = 1
  /\ time = 0 /\ seen = <<>>

BlockAvailable == block # <<>>

\* The constructor, or Reset.
TimestepReset ==
  /\ ~BlockAvailable /\ seen = <<>>
  /\ ReadTimeblock(1)
  /\ UNCHANGED <<rows, position, time, seen>>

\* GetUVWsForTimestep for rows 1 to i of the block: an index that the block has no place for
\* enlarges the block (instead of the array of uvws), so that it ends with rows of zeros.
AntennaIndex(b, i) == IF b[i] = 0 THEN 0 ELSE rows[b[i]].a2 * 3
IsFirstAntenna(b, i) == IF b[i] = 0 THEN TRUE ELSE rows[b[i]].a1 = 0

Enlarged(b, size) == [i \in 1 .. size |-> IF i <= Len(b) THEN b[i] ELSE 0]

GetUVWsForTimestep(b) ==
  LET needed == {AntennaIndex(b, i) + 3 : i \in {j \in 1 .. Len(b) : IsFirstAntenna(b, j)}}
      Grows(size) == size - 3 >= Len(b) /\ \A other \in needed : other <= size
  IN  IF \E size \in needed : Grows(size)
        THEN Enlarged(b, CHOOSE size \in needed : Grows(size)) ELSE b

RowTime(b, i) == IF b[i] = 0 THEN 0 ELSE rows[b[i]].time

\* Mutant: the last row of a block is not handed out.
HandOutEarly ==
  /\ BlockAvailable
  /\ LET asked == rows \in WithATerms /\ RowTime(block, position) # time
         b == IF asked THEN GetUVWsForTimestep(block) ELSE block
     IN  /\ time' = RowTime(block, position)
         /\ seen' = Append(seen, b[position])
         /\ IF position + 1 >= Len(b) THEN ReadTimeblock(nextRow) /\ position' = 1
            ELSE block' = b /\ position' = position + 1 /\ UNCHANGED nextRow
  /\ UNCHANGED rows

\* One pass of the gridder's loop: the row is used, and NextRow goes on in the block or
\* reads the next one.
HandOut ==
  /\ BlockAvailable
  /\ LET asked == rows \in WithATerms /\ RowTime(block, position) # time
         b == IF asked THEN GetUVWsForTimestep(block) ELSE block
     IN  /\ time' = RowTime(block, position)
         /\ seen' = Append(seen, b[position])
         /\ IF position = Len(b) THEN ReadTimeblock(nextRow) /\ position' = 1
            ELSE block' = b /\ position' = position + 1 /\ UNCHANGED nextRow
  /\ UNCHANGED rows

TimestepNext == TimestepReset \/ HandOut

TimestepSpec == TimestepInit /\ [][TimestepNext]_timestepVars

-----------------------------------------------------------------------------
(* Properties *)

\* "read whole blocks of rows at once": the rows that are handed out are the rows of the
\* provider below, once each and in order.
RowsOnce == seen = [i \in 1 .. Len(seen) |-> i]

\* At the end no row is missing.
AllRowsSeen == seen # <<>> /\ ~BlockAvailable => Len(seen) = Len(rows)

RowsHandedOutOnce == RowsOnce /\ AllRowsSeen
=============================================================================
