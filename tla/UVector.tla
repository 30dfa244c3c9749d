------------------------------- MODULE UVector -------------------------------
(***************************************************************************)
(* ao::uvector (aocommon/uvector_11.h): the array in which nearly all data *)
(* of the imager are kept.  It is a std::vector that may have elements     *)
(* which were never given a value.  A vector is its storage, the cells     *)
(* from _begin to _endOfStorage, and its size, _end - _begin; each vector  *)
(* owns its storage, so addresses are left out.  What is in a cell behind  *)
(* _end is never looked at and counts as uninitialized.                    *)
(*                                                                         *)
(* Values are halves: 1 stands for 0.5, so that a conversion to an integer *)
(* can be seen.  Overloads that only differ in how the new values are      *)
(* given (n times one value, a range, a list) are one action.              *)
(***************************************************************************)
EXTENDS Integers, Sequences, SequencesExt

CONSTANTS
  Vectors,        \* the vectors that a program has
  NewValues,      \* what is stored, in halves
  MaxSize,        \* bound: elements of a vector
  AssignAnySize   \* FALSE: a vector is copied to one that is as large or has no room

ASSUME VectorsAssumption == MaxSize \in Nat /\ AssignAnySize \in BOOLEAN

VARIABLES
  vectors,    \* the vectors
  elements    \* history: the elements that they should have by their documentation

uvectorVars == <<vectors, elements>>

Uninitialized == 0

Vector(cells, size) ==
  [cells |-> [i \in DOMAIN cells |-> IF i <= size THEN cells[i] ELSE Uninitialized], size |-> size]
Null == Vector(<<>>, 0)
Contents(x) == SubSeq(x.cells, 1, x.size)
CapacityOf(x) == Len(x.cells)

-----------------------------------------------------------------------------
(* Storage *)

Nothing(n) == [i \in 1 .. n |-> Uninitialized]

\* The cells after values are written from position at (counted from 0).
Store(cells, at, values) ==
  [i \in DOMAIN cells |-> IF i - at \in DOMAIN values THEN values[i - at] ELSE cells[i]]

\* Newly allocated cells that start with values.
Allocated(n, values) == Store(Nothing(n), 0, values)

\* One element after the other, the first one first or the last one first.
MoveInOrder(cells, first, dest, order) ==
  LET moved[k \in 0 .. Len(order)] ==
        IF k = 0 THEN cells
        ELSE LET before == moved[k - 1]
             IN  [before EXCEPT ![dest + order[k]] = before[first + order[k]]]
  IN  moved[Len(order)]
Moved(cells, first, last, dest) ==
  MoveInOrder(cells, first, dest, [k \in 1 .. last - first |-> k])
MovedBackward(cells, first, last, dest) ==
  MoveInOrder(cells, first, dest, [k \in 1 .. last - first |-> last - first + 1 - k])

EnlargeSize(x, extra) == x.size + (IF extra > x.size THEN extra ELSE x.size)

Reallocated(x, n) == Vector(Allocated(n, Contents(x)), x.size)

\* The larger storage of an insertion: what follows the new elements is copied behind them.
EnlargedForInsert(x, n, index, count) ==
  Vector(Store(Allocated(n, SubSeq(x.cells, 1, index)), index + count, SubSeq(x.cells, index + 1, x.size)),
         x.size + count)

\* Room for count elements at index; what is in it is old or was never set.
GapMovedForward(x, index, count) ==   \* mutant: std::move instead of std::move_backward
  IF CapacityOf(x) < x.size + count
    THEN EnlargedForInsert(x, EnlargeSize(x, count), index, count)
    ELSE Vector(Moved(x.cells, index, x.size, index + count), x.size + count)
Gap(x, index, count) ==
  IF CapacityOf(x) < x.size + count
    THEN EnlargedForInsert(x, EnlargeSize(x, count), index, count)
    ELSE Vector(MovedBackward(x.cells, index, x.size, index + count), x.size + count)

-----------------------------------------------------------------------------
(* The operations *)

UVectorInit ==
  /\ vectors = [v \in Vectors |-> Null]
  /\ elements = [v \in Vectors |-> <<>>]

Size(v) == vectors[v].size
Set(v, vector, documented) ==
  /\ vectors' = [vectors EXCEPT ![v] = vector]
  /\ elements' = [elements EXCEPT ![v] = documented]

FirstOf(values, n) == SubSeq(values, 1, IF n < Len(values) THEN n ELSE Len(values))
Missing(values, n) == 1 .. n - Len(values)

\* uvector(n), and the constructors with values; the vector that was there is destructed.
Construct(v, n) == Set(v, Vector(Nothing(n), n), Nothing(n))
ConstructFrom(v, values) == Set(v, Vector(Allocated(Len(values), values), Len(values)), values)

CopyConstruct(v, other) ==
  Set(v, Vector(Allocated(Size(other), Contents(vectors[other])), Size(other)), elements[other])

Take(v, other) ==
  /\ vectors' = [vectors EXCEPT ![v] = vectors[other], ![other] = Null]
  /\ elements' = [elements EXCEPT ![v] = elements[other], ![other] = <<>>]
MoveConstruct(v, other) == Take(v, other)
MoveAssign(v, other) == Take(v, other)

\* operator=, for the standard allocator, which is not propagated: _end stays where it
\* is when there is room.
CopyAssign(v, other) ==
  LET n == Size(other)
      x == vectors[v]
  IN  /\ AssignAnySize \/ n > CapacityOf(x) \/ n = x.size
      /\ Set(v, IF n > CapacityOf(x) THEN Vector(Allocated(n, Contents(vectors[other])), n)
                ELSE Vector(Store(x.cells, 0, Contents(vectors[other])), x.size),
             elements[other])

Resize(v, n) ==
  LET x == vectors[v]
  IN  Set(v, Vector(IF CapacityOf(x) < n THEN Allocated(EnlargeSize(x, n), Contents(x)) ELSE x.cells, n),
          FirstOf(elements[v], n) \o [i \in Missing(elements[v], n) |-> Uninitialized])

\* std::uninitialized_fill<Tp*, size_t> converts the value to an integer.
ToSizeT(value) == 2 * (value \div 2)
ResizeFilled(v, n, value) ==
  LET x == vectors[v]
      cells == IF CapacityOf(x) < n THEN Allocated(n, Contents(x)) ELSE x.cells
      new == [i \in Missing(Contents(x), n) |-> ToSizeT(value)]
  IN  Set(v, Vector(Store(cells, x.size, new), n),
          FirstOf(elements[v], n) \o [i \in Missing(elements[v], n) |-> value])

Reserve(v, n) ==
  /\ CapacityOf(vectors[v]) < n
  /\ Set(v, Reallocated(vectors[v], n), elements[v])

ShrinkToFit(v) == Set(v, Vector(Contents(vectors[v]), Size(v)), elements[v])

\* All storage is given up before the new values are written, unless there is room.
AssignFromRange(v, values) ==
  LET n == Len(values)
      cells == IF n > CapacityOf(vectors[v]) THEN Nothing(n) ELSE vectors[v].cells
  IN  Set(v, Vector(Store(cells, 0, values), n), values)
Assign(v, n, value) == AssignFromRange(v, [i \in 1 .. n |-> value])

\* push_back of one value (also emplace_back), and of several.
PushBackRange(v, values) ==
  LET x == vectors[v]
      n == Len(values)
      roomy == IF CapacityOf(x) - x.size < n THEN Reallocated(x, EnlargeSize(x, n)) ELSE x
  IN  Set(v, Vector(Store(roomy.cells, x.size, values), x.size + n), elements[v] \o values)
PushBack(v, value) == PushBackRange(v, <<value>>)

PushBackUninitialized(v, n) == Resize(v, Size(v) + n)

PopBack(v) ==
  /\ Size(v) > 0
  /\ Set(v, Vector(vectors[v].cells, Size(v) - 1), Front(elements[v]))

DocumentedInsert(v, index, values) ==
  SubSeq(elements[v], 1, index) \o values \o SubSeq(elements[v], index + 1, Len(elements[v]))

\* insert of one value (also emplace), and of several.
InsertFromRange(v, index, values) ==
  LET gap == Gap(vectors[v], index, Len(values))
  IN  Set(v, Vector(Store(gap.cells, index, values), gap.size), DocumentedInsert(v, index, values))
Insert(v, index, value) == InsertFromRange(v, index, <<value>>)

\* The new elements are whatever was there; they count as uninitialized.
InsertUninitialized(v, index, n) ==
  LET gap == Gap(vectors[v], index, n)
  IN  Set(v, Vector(Store(gap.cells, index, Nothing(n)), gap.size), DocumentedInsert(v, index, Nothing(n)))

Erase(v, first, last) ==
  Set(v, Vector(Moved(vectors[v].cells, last, Size(v), first), Size(v) - (last - first)),
      SubSeq(elements[v], 1, first) \o SubSeq(elements[v], last + 1, Len(elements[v])))

ClearVector == \E v \in Vectors : Set(v, Vector(vectors[v].cells, 0), <<>>)

Swap(v, other) ==
  /\ vectors' = [vectors EXCEPT ![v] = vectors[other], ![other] = vectors[v]]
  /\ elements' = [elements EXCEPT ![v] = elements[other], ![other] = elements[v]]

\* What is done to one vector, and with two vectors.
Alone(v) ==
  LET size == Size(v) IN
  \/ \E n \in 0 .. MaxSize :
       \/ Construct(v, n) \/ Resize(v, n) \/ Reserve(v, n)
       \/ \E value \in NewValues : ResizeFilled(v, n, value) \/ Assign(v, n, value)
  \/ \E n \in 1 .. MaxSize - size :
       PushBackUninitialized(v, n) \/ \E index \in 0 .. size : InsertUninitialized(v, index, n)
  \/ /\ size < MaxSize
     /\ \E value \in NewValues : PushBack(v, value) \/ \E index \in 0 .. size : Insert(v, index, value)
  \/ \E x, y \in NewValues :
       \/ ConstructFrom(v, <<x, y>>) \/ AssignFromRange(v, <<x, y>>)
       \/ /\ size + 2 <= MaxSize
          /\ PushBackRange(v, <<x, y>>) \/ \E index \in 0 .. size : InsertFromRange(v, index, <<x, y>>)
  \/ \E first \in 0 .. size : \E last \in first .. size : Erase(v, first, last)
  \/ ShrinkToFit(v) \/ PopBack(v)
Together(v, other) ==
  \/ CopyConstruct(v, other) \/ CopyAssign(v, other)
  \/ MoveConstruct(v, other) \/ MoveAssign(v, other) \/ Swap(v, other)

UVectorNext ==
  \/ ClearVector
  \/ \E v \in Vectors :
       \/ Alone(v)
       \/ \E other \in Vectors \ {v} : Together(v, other)

UVectorSpec == UVectorInit /\ [][UVectorNext]_uvectorVars

-----------------------------------------------------------------------------
(* Properties *)

\* Whatever operations came before, a vector has the elements that its documentation
\* says: those of a std::vector, with the places that were left uninitialized.  Size,
\* capacity and the cells that were moved, copied or filled agree after every
\* reallocation, move and insertion (uvector_11.h).
ElementsAsDocumented ==
  \A v \in Vectors :
    /\ vectors[v].size <= CapacityOf(vectors[v])
    /\ Contents(vectors[v]) = elements[v]
=============================================================================
