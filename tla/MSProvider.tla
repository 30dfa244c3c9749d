----------------------------- MODULE MSProvider -----------------------------
(***************************************************************************)
(* What the providers of measurement sets have in common: which rows are   *)
(* selected (msselection.h, the row ranges of msproviders/msprovider.cpp,  *)
(* and the iteration over selected rows of msproviders/msrowprovider.cpp), *)
(* and the conversions between the polarizations that a set holds and      *)
(* those that are imaged (msproviders/msprovider.cpp).                     *)
(*                                                                         *)
(* A measurement set is a sequence of rows [time, dd, field, a1, a2, uvw]. *)
(* Rows count from 1 here, and a range ends before its endRow.             *)
(*                                                                         *)
(* A visibility is a complex number <<re, im>>, or NotFinite.  Those of    *)
(* one row and channel are a function of the polarizations in the set.     *)
(* Division by two is exact for the even numbers that the models use.      *)
(***************************************************************************)
EXTENDS Integers, Sequences, FiniteSets, FiniteSetsExt

-----------------------------------------------------------------------------
(* Selected rows *)

AllFields == -1

Everything == [fields |-> {0}, intervalStart |-> 0, intervalEnd |-> 0,
               minUVW |-> 0, maxUVW |-> 0, evenOdd |-> "all"]

HasInterval(sel) == sel.intervalEnd # 0

IsFieldSelected(sel, field) == field \in sel.fields \/ AllFields \in sel.fields

IsTimeSelected(sel, timestep) ==
  /\ HasInterval(sel) => sel.intervalStart <= timestep /\ timestep < sel.intervalEnd
  /\ sel.evenOdd = "even" => timestep % 2 = 0
  /\ sel.evenOdd = "odd" => timestep % 2 = 1

\* IsSelected; autocorrelations are never selected.
IsSelected(sel, row, timestep) ==
  /\ IsFieldSelected(sel, row.field)
  /\ IsTimeSelected(sel, timestep)
  /\ row.a1 # row.a2
  /\ sel.minUVW # 0 => row.uvw >= sel.minUVW
  /\ sel.maxUVW # 0 => row.uvw <= sel.maxUVW

\* A timestep ends where the time changes.
StartsTimestep(ms, r) == r > 1 /\ ms[r].time # ms[r - 1].time

TimestepOf(ms, r) == Cardinality({q \in 1 .. r : StartsTimestep(ms, q)})

\* The first row of a timestep other than the first, or the given row if there is none.
FirstRowOf(ms, timestep, otherwise) ==
  LET first == {r \in 1 .. Len(ms) : StartsTimestep(ms, r) /\ TimestepOf(ms, r) = timestep}
  IN  IF first = {} THEN otherwise ELSE CHOOSE r \in first : TRUE

\* getRowRange
StartRow(ms, sel) == IF HasInterval(sel) THEN FirstRowOf(ms, sel.intervalStart, 1) ELSE 1
EndRow(ms, sel) == IF HasInterval(sel) THEN FirstRowOf(ms, sel.intervalEnd, Len(ms) + 1)
                   ELSE Len(ms) + 1

\* getRowRangeAndIDMap: the rows a provider numbers 0, 1, ...
SelectedRows(ms, sel, dds) ==
  {r \in 1 .. Len(ms) :
     /\ HasInterval(sel) => TimestepOf(ms, r) >= sel.intervalStart
     /\ IsSelected(sel, ms[r], TimestepOf(ms, r))
     /\ ms[r].dd \in dds}

IdToMSRow(ms, sel, dds) ==
  LET rows == SelectedRows(ms, sel, dds)
  IN  [i \in 1 .. Cardinality(rows) |-> CHOOSE r \in rows : Cardinality({q \in rows : q < r}) = i - 1]

-----------------------------------------------------------------------------
(* MSRowProvider: a cursor [row, timestep, time] that goes from one selected *)
(* row to the next.  It counts timesteps by the changes of _currentTime.     *)

RowProviderAtEnd(ms, sel, cursor) == cursor.row = EndRow(ms, sel)

AdvanceRow(ms, sel, cursor) ==
  LET r == cursor.row + 1
  IN  IF r = EndRow(ms, sel) THEN [cursor EXCEPT !.row = r]
      ELSE [row |-> r, time |-> ms[r].time,
            timestep |-> cursor.timestep + (IF cursor.time # ms[r].time THEN 1 ELSE 0)]

IsCurrentRowSelected(ms, sel, dds, cursor) ==
  IsSelected(sel, ms[cursor.row], cursor.timestep) /\ ms[cursor.row].dd \in dds

\* NextRow: a loop that ends at a selected row or at the end.  AfterSteps[k] is the cursor
\* after k passes, or where the loop ended before.
NextSelected(ms, sel, dds, cursor) ==
  LET after[k \in 0 .. Len(ms)] ==
        IF k = 0 THEN cursor
        ELSE LET c == after[k - 1]
             IN  IF k > 1 /\ (RowProviderAtEnd(ms, sel, c) \/ IsCurrentRowSelected(ms, sel, dds, c))
                 THEN c ELSE AdvanceRow(ms, sel, c)
  IN  after[Len(ms)]

\* The constructor.
FirstCursor(ms, sel, dds) ==
  LET first == [row |-> StartRow(ms, sel), time |-> ms[StartRow(ms, sel)].time,
                timestep |-> IF HasInterval(sel) THEN sel.intervalStart ELSE 0]
  IN  IF IsCurrentRowSelected(ms, sel, dds, first) THEN first
      ELSE NextSelected(ms, sel, dds, first)

-----------------------------------------------------------------------------
(* Polarizations *)

NotFinite == <<>>
Zero == <<0, 0>>

Add(a, b) == <<a[1] + b[1], a[2] + b[2]>>
Subtract(a, b) == <<a[1] - b[1], a[2] - b[2]>>
Half(a) == <<a[1] \div 2, a[2] \div 2>>
TimesI(a) == <<-a[2], a[1]>>
TimesMinusI(a) == <<a[2], -a[1]>>

AllPolarizations == <<"I", "Q", "U", "V", "RR", "RL", "LR", "LL", "XX", "XY", "YX", "YY">>

\* The order of std::set<PolarizationEnum>, in which parts are written and read.
InEnumOrder(pols) == SelectSeq(AllPolarizations, LAMBDA p : p \in pols)

\* TypeToIndex for the two polarizations that a Stokes parameter is made of: the linear
\* ones if the set has both, else the circular ones.
LinearPair(p) == IF p \in {"I", "Q"} THEN <<"XX", "YY">> ELSE <<"XY", "YX">>
CircularPair(p) == IF p \in {"I", "V"} THEN <<"RR", "LL">> ELSE <<"RL", "LR">>
HasLinear(p, have) == {LinearPair(p)[1], LinearPair(p)[2]} \subseteq have
HasCircular(p, have) == {CircularPair(p)[1], CircularPair(p)[2]} \subseteq have
Pair(p, have) == IF HasLinear(p, have) THEN LinearPair(p) ELSE CircularPair(p)

CanForm(p, have) ==
  p \in have \/ (p \in {"I", "Q", "U", "V"} /\ (HasLinear(p, have) \/ HasCircular(p, have)))

\* How a Stokes parameter follows from its pair: half the sum, half the difference, or
\* -i times half the difference.
Relation(p, have) ==
  IF HasLinear(p, have)
    THEN [I |-> "sum", Q |-> "difference", U |-> "sum", V |-> "rotated"][p]
    ELSE [I |-> "sum", Q |-> "sum", U |-> "rotated", V |-> "difference"][p]

FormStokes(p, have, vis) ==
  LET a == vis[Pair(p, have)[1]]
      b == vis[Pair(p, have)[2]]
  IN  IF NotFinite \in {a, b} THEN NotFinite
      ELSE CASE Relation(p, have) = "sum" -> Half(Add(a, b))
             [] Relation(p, have) = "difference" -> Half(Subtract(a, b))
             [] Relation(p, have) = "rotated" -> TimesMinusI(Half(Subtract(a, b)))

\* copyData: what a provider hands out, zero for what is not finite.
CopyData(p, have, vis) ==
  LET value == IF p \in have THEN vis[p] ELSE FormStokes(p, have, vis)
  IN  IF value = NotFinite THEN Zero ELSE value

\* reverseCopyData: store one polarization and keep what the others of the pair say.
\* Mutant: the other parameter of the pair is not kept.
ReverseCopyDataForgetful(p, have, vis, value) ==
  LET pair == Pair(p, have)
      mean == Zero
      shift == IF Relation(p, have) = "rotated" THEN TimesI(value) ELSE value
  IN  CASE value = NotFinite -> vis
        [] value # NotFinite /\ p \in have -> [vis EXCEPT ![p] = value]
        [] value # NotFinite /\ p \notin have /\ Relation(p, have) = "sum" ->
             [vis EXCEPT ![pair[1]] = value, ![pair[2]] = value]
        [] OTHER -> [vis EXCEPT ![pair[1]] = Add(mean, shift), ![pair[2]] = Subtract(mean, shift)]

ReverseCopyData(p, have, vis, value) ==
  LET pair == Pair(p, have)
      mean == Half(Add(vis[pair[1]], vis[pair[2]]))
      shift == IF Relation(p, have) = "rotated" THEN TimesI(value) ELSE value
  IN  CASE value = NotFinite -> vis
        [] value # NotFinite /\ p \in have -> [vis EXCEPT ![p] = value]
        [] value # NotFinite /\ p \notin have /\ Relation(p, have) = "sum" ->
             [vis EXCEPT ![pair[1]] = value, ![pair[2]] = value]
        [] OTHER -> [vis EXCEPT ![pair[1]] = Add(mean, shift), ![pair[2]] = Subtract(mean, shift)]

\* copyWeights: a visibility that is flagged or not finite has no weight; what is made of
\* two has four times the smaller of their weights.
OwnWeight(q, vis, weights, flags) ==
  IF flags[q] \/ vis[q] = NotFinite THEN 0 ELSE weights[q]

CopyWeight(p, have, vis, weights, flags) ==
  IF p \in have THEN OwnWeight(p, vis, weights, flags)
  ELSE LET a == OwnWeight(Pair(p, have)[1], vis, weights, flags)
           b == OwnWeight(Pair(p, have)[2], vis, weights, flags)
       IN  4 * (IF a < b THEN a ELSE b)

\* reverseCopyWeights: imaging weights of Q, U and V cannot be stored.
CanStoreWeight(p, have) == p \in have \cup {"I"}

ReverseCopyWeights(p, have, weights, value) ==
  IF p \in have THEN [weights EXCEPT ![p] = value]
  ELSE [weights EXCEPT ![Pair(p, have)[1]] = value, ![Pair(p, have)[2]] = value]
=============================================================================
