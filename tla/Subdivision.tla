----------------------------- MODULE Subdivision -----------------------------
(***************************************************************************)
(* How an image is divided into subimages that are cleaned in parallel     *)
(* (deconvolution/subdivision.h, called by                                 *)
(* ParallelDeconvolution::executeParallelRun): lines along which the image *)
(* is faint cut it into columns and rows, and a flood fill from the middle *)
(* of each cell, one after another, finds the pixels (mask) of a subimage  *)
(* and the box that it is cleaned in.                                      *)
(*                                                                         *)
(* The shortest path by which a line is found is left to any path: it goes *)
(* from one side to the other, moving at most one pixel sideways per step. *)
(* (Steps that are only sideways are shortest only along pixels that are   *)
(* exactly zero when the range is two pixels wide, as here.)               *)
(***************************************************************************)
EXTENDS Integers, Sequences, FiniteSetsExt

CONSTANTS
  Width, Height,           \* of the image
  HorImages, VerImages,    \* _horImages and _verImages
  MaxBends                 \* bound: how often a line moves sideways

\* Parts narrower than four pixels would leave no pixels to draw a line in.
ASSUME DivisionAssumption ==
  /\ Width \in Nat \ {0} /\ Height \in Nat \ {0}
  /\ HorImages \in 1 .. Width \div 4 /\ VerImages \in 1 .. Height \div 4

VARIABLES
  vertical,     \* the lines between columns: for each, the x at every y
  horizontal,   \* the lines between rows: for each, the y at every x
  visited,      \* the pixels of all masks so far
  subImages     \* the subimages so far

subdivisionVars == <<vertical, horizontal, visited, subImages>>

ImagePixels == (0 .. Width - 1) \X (0 .. Height - 1)

(***************************************************************************)
(* The dividing lines: number divNr of parts is drawn in the range         *)
(* splitStart .. splitEnd-1, half as wide as a part.                       *)
(***************************************************************************)
SplitRange(size, parts, divNr) ==
  LET mid == (size * divNr) \div parts  quarter == (size \div parts) \div 4
  IN  mid - quarter .. mid + quarter - 1

Paths(size, parts, length, divNr) ==
  {p \in [0 .. length - 1 -> SplitRange(size, parts, divNr)] :
     LET step(i) == p[i] - p[i - 1]
     IN  /\ \A i \in 1 .. length - 1 : step(i) \in {-1, 0, 1}
         /\ Cardinality({i \in 1 .. length - 1 : step(i) # 0}) <= MaxBends}

DivideVertically == \A d \in 1 .. HorImages - 1 : vertical[d] \in Paths(Width, HorImages, Height, d)
DivideHorizontally == \A d \in 1 .. VerImages - 1 : horizontal[d] \in Paths(Height, VerImages, Width, d)

OnVertical == {p \in ImagePixels : \E d \in DOMAIN vertical : vertical[d][p[2]] = p[1]}
OnHorizontal == {p \in ImagePixels : \E d \in DOMAIN horizontal : horizontal[d][p[1]] = p[2]}
DividingLines == OnVertical \cup OnHorizontal

SubdivisionInit ==
  /\ vertical \in [1 .. HorImages - 1 ->
                     UNION {Paths(Width, HorImages, Height, d) : d \in 1 .. HorImages - 1}]
  /\ horizontal \in [1 .. VerImages - 1 ->
                       UNION {Paths(Height, VerImages, Width, d) : d \in 1 .. VerImages - 1}]
  /\ DivideVertically /\ DivideHorizontally
  /\ visited = {}
  /\ subImages = <<>>

(***************************************************************************)
(* GetBoundingMask.                                                        *)
(***************************************************************************)

\* The middle of the next cell, row by row.
Middle(index) ==
  LET x == index % HorImages  y == index \div HorImages
  IN  <<(x * Width) \div HorImages + (Width \div HorImages) \div 2,
        (y * Height) \div VerImages + (Height \div VerImages) \div 2>>

\* Lines stop the fill, but their pixels go to the subimages right of and below
\* them: it may enter a line to the left or upwards only.
Neighbours(lines) ==
  [p \in ImagePixels |->
     ImagePixels \cap ({<<p[1] - 1, p[2]>>, <<p[1], p[2] - 1>>} \cup
                  ({<<p[1] + 1, p[2]>>, <<p[1], p[2] + 1>>} \ lines))]

GoesOn(p, lines) == TRUE   \* mutant: lines do not stop the fill
StopsAtLine(p, lines) == p \notin lines

FloodFill(seed) ==
  LET lines == DividingLines
      next == Neighbours(lines)
      new(S) == (UNION {next[p] : p \in {q \in S : StopsAtLine(q, lines)}}) \ visited
      Fill[S \in SUBSET ImagePixels] == IF new(S) \subseteq S THEN S ELSE Fill[S \cup new(S)]
  IN  IF seed \in visited THEN {} ELSE Fill[{seed}]

\* Lowest coordinate and extent of a box.  "If dimensions start of[f] even, keep
\* subimages even too", moved back where that would leave the image.
Even(extent) == extent + (extent % 2)

Side(coordinates, size) ==
  IF coordinates = {} THEN [low |-> size, extent |-> 0]
  ELSE LET low == Min(coordinates)
           extent == Max(coordinates) - low
       IN  CASE size % 2 # 0 -> [low |-> low, extent |-> extent]
             [] extent % 2 # 0 /\ extent + low >= size -> [low |-> low - 1, extent |-> Even(extent)]
             [] OTHER -> [low |-> low, extent |-> Even(extent)]

GetBoundingMask(index) ==
  LET mask == FloodFill(Middle(index))
  IN  [mask |-> mask,
       hor |-> Side({p[1] : p \in mask}, Width),
       ver |-> Side({p[2] : p \in mask}, Height)]

Subdivide ==
  /\ Len(subImages) < HorImages * VerImages
  /\ LET sub == GetBoundingMask(Len(subImages))
     IN  /\ subImages' = Append(subImages, sub)
         /\ visited' = visited \cup sub.mask
  /\ UNCHANGED <<vertical, horizontal>>

Divided == Len(subImages) = HorImages * VerImages
SubdivisionDone == Divided /\ UNCHANGED subdivisionVars

SubdivisionSpec == SubdivisionInit /\ [][Subdivide \/ SubdivisionDone]_subdivisionVars

(***************************************************************************)
(* Properties.                                                             *)
(***************************************************************************)

\* The fill of one subimage does not leak into another, whatever way the lines
\* bend: each has the middle of its own cell, and no pixel of another.
Separated ==
  \A i, j \in DOMAIN subImages :
    /\ Middle(i - 1) \in subImages[i].mask
    /\ i # j => subImages[i].mask \cap subImages[j].mask = {}

\* Every pixel is in some subimage, except pixels where a vertical and a
\* horizontal line meet: at most the ones next to both.
NextTo(p, line) == \E q \in line : q[1] - p[1] \in {-1, 0, 1} /\ q[2] - p[2] \in {-1, 0, 1}
OnlyCrossingsLeftOut ==
  Divided => \A p \in ImagePixels \ visited : NextTo(p, OnVertical) /\ NextTo(p, OnHorizontal)

\* What is copied from and to the image lies within it, also when a box is made even.
Inside(side, size) == side.low >= 0 /\ side.low + side.extent <= size
BoxesInsideImage ==
  \A i \in DOMAIN subImages : Inside(subImages[i].hor, Width) /\ Inside(subImages[i].ver, Height)

\* The subimages are a division of the image (subdivision.h).
DivideImage == Separated /\ OnlyCrossingsLeftOut /\ BoxesInsideImage

\* "Find the bounding boxes and clean masks for each subimage"
\* (paralleldeconvolution.cpp): the pixels of a subimage are in its box.
BoxHoldsMask ==
  \A i \in DOMAIN subImages : \A p \in subImages[i].mask :
    /\ p[1] \in subImages[i].hor.low .. subImages[i].hor.low + subImages[i].hor.extent - 1
    /\ p[2] \in subImages[i].ver.low .. subImages[i].ver.low + subImages[i].ver.extent - 1
=============================================================================
