---------------------------- MODULE AveragingRows ----------------------------
(***************************************************************************)
(* Baseline-dependent averaging while a set is reordered:                  *)
(* msproviders/averagingmsrowprovider.{h,cpp}.                             *)
(*                                                                         *)
(* Rows of one baseline and spectral window are added up in a buffer, and  *)
(* handed out when there are as many as the averaging factor of that       *)
(* baseline; at the end of the set the buffers that are partly full are    *)
(* handed out in the order of the buffers.                                 *)
(*                                                                         *)
(* A row has one visibility; what is said of its weight holds for every    *)
(* channel and polarization.  The source rows of a buffer are kept, which  *)
(* stand for the sums of data and model that are made of them.             *)
(***************************************************************************)
EXTENDS MSProvider, SequencesExt

CONSTANT Averagings   \* records [ms, weights, flags, selection, spwIndexes, factors, nAntennae]

VARIABLES
  averaging,      \* the set and what is asked for
  baseCursor,     \* the MSRowProvider below: row, timestep and _currentTime
  buffers,        \* per element the AveragingBuffer
  current,        \* what ReadData gives: the _current... and _averaged... members
  flushPosition,  \* element that is flushed next
  handedOut       \* history: what Partition has read, in order

averagingVars == <<averaging, baseCursor, buffers, current, flushPosition, handedOut>>

Ms == averaging.ms
SpwCount == Cardinality(DOMAIN averaging.spwIndexes)
NElements == SpwCount * averaging.nAntennae * averaging.nAntennae
EmptyBuffer == [rows |-> {}, weight |-> 0, time |-> 0, count |-> 0]

\* Elements are ordered by first antenna, second antenna and spectral window, from 0.
ElementIndex(a1, a2, dd) ==
  SpwCount * (a2 + a1 * averaging.nAntennae) + averaging.spwIndexes[dd]

\* _averagingFactors: the constructor fills the elements of a baseline in the order of the
\* data description ids, not of the indexes of their spectral windows.
AveragingFactor(element) ==
  LET baseline == element \div SpwCount
      dd == SetToSortSeq(DOMAIN averaging.spwIndexes, <)[(element % SpwCount) + 1]
  IN  averaging.factors[baseline \div averaging.nAntennae, baseline % averaging.nAntennae, dd]

BaseAtEnd(cursor) == RowProviderAtEnd(Ms, averaging.selection, cursor)

\* The base provider's step.  It counts a timestep when the row's time is not _currentTime.
BaseNext(cursor) == NextSelected(Ms, averaging.selection, DOMAIN averaging.spwIndexes, cursor)

Contribution(r) == IF averaging.flags[r] THEN 0 ELSE averaging.weights[r]

\* AddData: flagged visibilities add nothing, but the row is counted.
AddData(buffer, r) ==
  [rows |-> buffer.rows \cup {r}, weight |-> buffer.weight + Contribution(r),
   time |-> buffer.time + Ms[r].time * Contribution(r), count |-> buffer.count + 1]

\* Get: the flag is computed from the weights that the caller had before.
MeanTime(buffer) == IF buffer.weight = 0 THEN 0 ELSE buffer.time \div buffer.weight
Get(buffer, callerWeight) ==
  [rows |-> buffer.rows, weight |-> buffer.weight, flag |-> callerWeight = 0, time |-> MeanTime(buffer)]

Unaveraged(r) ==
  [rows |-> {r}, weight |-> averaging.weights[r], flag |-> averaging.flags[r], time |-> Ms[r].time]

Labelled(content, a1, a2, dd) ==
  [content |-> content, a1 |-> a1, a2 |-> a2, dd |-> dd]

\* processCurrentTimestep for the row at cursor: the buffers after it, whether a row can be
\* handed out, what, and the cursor, whose time is the mean time if a buffer was full.
Process(bufs, cursor) ==
  LET r == cursor.row
      element == ElementIndex(Ms[r].a1, Ms[r].a2, Ms[r].dd)
      factor == AveragingFactor(element)
      filled == AddData(bufs[element], r)
      isFull == filled.count = factor
      content == IF factor = 1 THEN Unaveraged(r)
                 ELSE IF isFull THEN Get(filled, averaging.weights[r]) ELSE Unaveraged(r)
  IN  [available |-> factor = 1 \/ isFull,
       buffers |-> CASE factor = 1 -> bufs
                     [] factor # 1 /\ isFull -> [bufs EXCEPT ![element] = EmptyBuffer]
                     [] OTHER -> [bufs EXCEPT ![element] = filled],
       current |-> Labelled(content, Ms[r].a1, Ms[r].a2, Ms[r].dd),
       cursor |-> [cursor EXCEPT !.time = content.time]]

\* The loop of NextRow: rows are processed until one can be handed out or the set ends.
ProcessUntilAvailable(bufs, now, cursor) ==
  LET after[k \in 0 .. Len(Ms)] ==
        IF k = 0 THEN [available |-> FALSE, buffers |-> bufs, current |-> now, cursor |-> cursor]
        ELSE LET s == after[k - 1]
                 next == BaseNext(s.cursor)
             IN  IF s.available \/ BaseAtEnd(s.cursor) THEN s
                 ELSE IF BaseAtEnd(next) THEN [s EXCEPT !.cursor = next]
                 ELSE Process(s.buffers, next)
  IN  after[Len(Ms)]

\* Mutant: the next buffer is passed over.
FlushedTooLate(bufs) ==
  LET filled == {e \in flushPosition + 1 .. NElements - 1 : bufs[e].count > 0}
  IN  IF filled = {} THEN NElements - 1 ELSE Min(filled)

\* The flush: on to the next buffer that holds something, or past the last.
Flushed(bufs) ==
  LET filled == {e \in flushPosition .. NElements - 1 : bufs[e].count > 0}
  IN  IF filled = {} THEN NElements - 1 ELSE Min(filled)

FlushFrom(bufs, now) ==
  LET element == Flushed(bufs)
      baseline == element \div SpwCount
      dd == CHOOSE d \in DOMAIN averaging.spwIndexes : averaging.spwIndexes[d] = element % SpwCount
  IN  [current |-> IF bufs[element].count = 0 THEN now
                   ELSE Labelled(Get(bufs[element], now.content.weight),
                          baseline \div averaging.nAntennae, baseline % averaging.nAntennae, dd),
       position |-> element + 1]

\* NextRow from a given state.  The buffer that is flushed is not reset.
NextRowFrom(bufs, now, cursor) ==
  LET loop == ProcessUntilAvailable(bufs, now, cursor)
      flush == FlushFrom(loop.buffers, loop.current)
  IN  /\ buffers' = loop.buffers
      /\ baseCursor' = loop.cursor
      /\ current' = IF BaseAtEnd(loop.cursor) THEN flush.current ELSE loop.current
      /\ flushPosition' = IF BaseAtEnd(loop.cursor) THEN flush.position ELSE flushPosition

NothingCurrent == Labelled([rows |-> {}, weight |-> 0, flag |-> FALSE, time |-> 0], 0, 0, 0)

-----------------------------------------------------------------------------
\* The constructor runs in two steps here: the base class, and the first row.
AveragingInit ==
  /\ averaging \in Averagings
  /\ baseCursor = FirstCursor(Ms, averaging.selection, DOMAIN averaging.spwIndexes)
  /\ buffers = [e \in 0 .. NElements - 1 |-> EmptyBuffer]
  /\ current = NothingCurrent
  /\ flushPosition = 0
  /\ handedOut = <<>>

Constructed == current # NothingCurrent

Construct ==
  /\ ~Constructed /\ ~BaseAtEnd(baseCursor)
  /\ LET first == Process(buffers, baseCursor)
     IN  IF first.available
           THEN /\ buffers' = first.buffers /\ current' = first.current
                /\ baseCursor' = first.cursor /\ UNCHANGED flushPosition
           ELSE NextRowFrom(first.buffers, first.current, first.cursor)
  /\ UNCHANGED <<averaging, handedOut>>

AtEnd == flushPosition >= NElements

\* One pass of the loop of Partition: ReadData and NextRow.
ReadAndNext ==
  /\ Constructed /\ ~AtEnd
  /\ handedOut' = Append(handedOut, current)
  /\ NextRowFrom(buffers, current, baseCursor)
  /\ UNCHANGED averaging

AveragingNext == Construct \/ ReadAndNext

AveragingSpec == AveragingInit /\ [][AveragingNext]_averagingVars

-----------------------------------------------------------------------------
(* Properties *)

\* When the set has been read, every selected row has been handed out in exactly one
\* average, which is labelled with the row's own baseline and spectral window and has no
\* more rows than the averaging factor of that baseline.
AveragesCoverSelection ==
  AtEnd =>
    LET selected == SelectedRows(Ms, averaging.selection, DOMAIN averaging.spwIndexes)
        averages == {handedOut[i] : i \in DOMAIN handedOut}
    IN  /\ UNION {a.content.rows : a \in averages} = selected
        /\ \A r \in selected :
             Cardinality({i \in DOMAIN handedOut : r \in handedOut[i].content.rows}) = 1
        /\ \A a \in averages :
             /\ \A r \in a.content.rows : a.a1 = Ms[r].a1 /\ a.a2 = Ms[r].a2 /\ a.dd = Ms[r].dd
             /\ Cardinality(a.content.rows) <= averaging.factors[a.a1, a.a2, a.dd]
=============================================================================
