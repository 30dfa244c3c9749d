------------------------------ MODULE WGridder ------------------------------
(***************************************************************************)
(* The gridder of -use-wgridder.  The rows of a measurement set are taken  *)
(* in chunks that fit in memory (bufferedmsgridder.cpp).  The visibilities *)
(* of a chunk are sorted by their place in the uv plane, and grouped in    *)
(* planes of w: a visibility is added to `supp' planes in a row.  For each *)
(* plane a pool of threads shares the visibilities, and every thread adds  *)
(* them to a small buffer that is added to the grid, row by row, when the  *)
(* next visibility lies elsewhere (gridder_cxx.h, threading.h).            *)
(*                                                                         *)
(* The v direction, which is treated as u is, is left out: a row of the    *)
(* grid is one cell.  Kernel values are 1, a visibility is a power of the  *)
(* base of the counts, and u is counted in half cells.                     *)
(***************************************************************************)
EXTENDS Integers, Sequences, FiniteSets, SequencesExt, FiniteSetsExt, Functions

CONSTANTS
  WgridJobs,     \* what is gridded or predicted
  PoolThreads    \* the number of threads of the pool

VARIABLES
  wgridJob,
  wgridStep,     \* where the gridder is
  chunkStart,    \* rows done in earlier chunks, totalNRows
  order,         \* the visibilities of the chunk, sorted
  plane,         \* curplane
  subidx,        \* the places in `order' of the visibilities of the plane
  schedule,      \* the scheduler's mode, chunk size and position, and the next start of each thread id
  submitted,     \* what the pool has not yet taken: thread ids
  left,          \* of the latch
  gridThread,    \* what each thread of the pool, and the caller, does
  uvGrid,
  planesDone,    \* the planes that each visibility was in
  sampled,       \* the visibilities that were predicted for the chunk
  modelRows      \* what was written

wgridVars == <<wgridJob, wgridStep, chunkStart, order, plane, subidx, schedule, submitted, left, gridThread,
               uvGrid, planesDone, sampled, modelRows>>

Side == 2          \* 1 << logsquare; 16 in the code
MinimalChunk == 1  \* the smallest number of visibilities handed out: 100 or 1000 in the code
GridTask == 0 .. PoolThreads    \* the caller is 0
NoBuffer == -1000
Base == 4

Gridding == wgridJob.kind = "invert"
Supp == wgridJob.supp
Nu == wgridJob.nu
Nsafe == (Supp + 1) \div 2
BufferSize == 2 * Nsafe + Side
GridRows == 0 .. Nu - 1

-----------------------------------------------------------------------------
(* The visibilities of a chunk *)

NChannels == Len(wgridJob.freqs)
\* The number of bits of a channel.
Shift == CHOOSE s \in 0 .. NChannels : 2^s >= NChannels /\ \A k \in 0 .. s - 1 : 2^k < NChannels
GetIdx(row, chan) == chan + row * 2^Shift
RowOfIdx(idx) == idx \div 2^Shift
ChanOfIdx(idx) == idx % 2^Shift

RowsOfChunk(start) == 0 .. Min({wgridJob.maxRows, Len(wgridJob.rows) - start}) - 1
RowData(start, row) == wgridJob.rows[start + row + 1]

\* effectiveCoord, after FixW has made w positive.
Sign(start, row) == IF RowData(start, row).w < 0 THEN -1 ELSE 1
U(start, idx) == Sign(start, RowOfIdx(idx)) * RowData(start, RowOfIdx(idx)).u * wgridJob.freqs[ChanOfIdx(idx) + 1]
WOf(start, idx) == Sign(start, RowOfIdx(idx)) * RowData(start, RowOfIdx(idx)).w * wgridJob.freqs[ChanOfIdx(idx) + 1]

\* getpix: the first cell that a visibility is added to; it may lie before the grid.
LastStart == Nu + Nsafe - Supp
FirstCell(start, idx) ==
  Min({((U(start, idx) % (2 * Nu)) + 2 - Supp + 2 * Nu) \div 2 - Nu, LastStart})
TileOf(start, idx) == (FirstCell(start, idx) + Nsafe) \div Side
NTiles == (Nu + 1 + Side - 1) \div Side

\* Visibilities that are zero are left out, unless they are predicted.
IsUsed(start, idx) == ~Gridding \/ (ChanOfIdx(idx) + 1) \notin RowData(start, RowOfIdx(idx)).zeros
AllIdx(start) == {GetIdx(row, chan) : row \in RowsOfChunk(start), chan \in 0 .. NChannels - 1}
UsedIdx(start) == {idx \in AllIdx(start) : IsUsed(start, idx)}

\* calc_share: the part of n things that is for one of the threads.
ShareStart(thread, n) ==
  LET nbase == n \div wgridJob.nthreads
      additional == n % wgridJob.nthreads
  IN  thread * nbase + Min({thread, additional})
Share(thread, n) == ShareStart(thread, n) .. ShareStart(thread + 1, n) - 1

\* getWgtIndices: every thread counts the tiles in its rows, the counts are added up to the
\* places where the visibilities of a tile begin, and the visibilities are put there in turn.
CountIn(start, thread, tile) ==
  Cardinality({idx \in UsedIdx(start) :
                 RowOfIdx(idx) \in Share(thread, Cardinality(RowsOfChunk(start))) /\ TileOf(start, idx) = tile})
Counted(start) ==
  [tile \in 0 .. NTiles - 1 |->
     IF \E thread \in 0 .. wgridJob.nthreads - 1 : tile \in Share(thread, NTiles)
     THEN FoldFunction(+, 0, [thread \in 0 .. wgridJob.nthreads - 1 |-> CountIn(start, thread, tile)])
     ELSE CountIn(start, 0, tile)]
PlaceOf(start, counts, idx) ==
  FoldFunction(+, 0, [tile \in 0 .. TileOf(start, idx) - 1 |-> counts[tile]])
    + Cardinality({other \in UsedIdx(start) : other < idx /\ TileOf(start, other) = TileOf(start, idx)}) + 1
WgtIndices(start) ==
  LET counts == Counted(start)
      places == [idx \in UsedIdx(start) |-> PlaceOf(start, counts, idx)]
  IN  [p \in 1 .. Cardinality(UsedIdx(start)) |-> CHOOSE idx \in UsedIdx(start) : places[idx] = p]

-----------------------------------------------------------------------------
(* The planes of w *)

Ws(start, sorted) == {WOf(start, sorted[i]) : i \in DOMAIN sorted}
WMin(start, sorted) == IF sorted = <<>> THEN 0 ELSE Min(Ws(start, sorted))
WRange(start, sorted) == IF sorted = <<>> THEN 0 ELSE Max(Ws(start, sorted)) - WMin(start, sorted)

\* The density of the planes, in quarters, comes from the size of the image.
Intervals(start, sorted) == (WRange(start, sorted) * wgridJob.density) \div 4 + 1
NPlanes(start, sorted) == Intervals(start, sorted) + 1 + Supp - 2

\* The distance of a visibility from wmin is this, over WRange, times the distance of planes.
Height(start, sorted, idx) == (WOf(start, idx) - WMin(start, sorted)) * Intervals(start, sorted)

\* The planes lie a little bit wider than the range, so that a visibility that is as high as
\* a plane belongs to the plane below.  (Jobs have visibilities of at least two w.)
PlaneWithoutMargin(start, sorted, idx) ==   \* mutant
  Height(start, sorted, idx) \div WRange(start, sorted)
FirstPlane(start, sorted, idx) == Max({0, (Height(start, sorted, idx) - 1) \div WRange(start, sorted)})

MinPlane(start, sorted, p) == SelectSeq([i \in DOMAIN sorted |-> i],
                                        LAMBDA i : FirstPlane(start, sorted, sorted[i]) = p)

\* update_idx goes through the sorted list once, leaves out what is deleted and puts in
\* what is added.
UpdateIdx(v, add, del) ==
  LET Goes[k \in 0 .. Len(v)] ==
        IF k = 0 THEN [in |-> add, out |-> del, res |-> <<>>]
        ELSE LET g == Goes[k - 1]
                 fewer == SelectSeq(g.in, LAMBDA a : a < v[k])
             IN  IF g.out # <<>> /\ v[k] = Head(g.out) THEN [g EXCEPT !.out = Tail(@)]
                 ELSE [g EXCEPT !.in = SelectSeq(@, LAMBDA a : a >= v[k]), !.res = @ \o fewer \o <<v[k]>>]
  IN  Goes[Len(v)].res \o Goes[Len(v)].in

-----------------------------------------------------------------------------
(* Chunks and planes: the caller *)

NoWork == [at |-> "idle", id |-> 0, lo |-> 0, hi |-> 0, start |-> NoBuffer, buffer |-> <<>>, dumped |-> 0]
NoSchedule == [mode |-> "single", size |-> 0, cursor |-> 0, next |-> <<>>]
EmptyBuffer == [i \in 0 .. BufferSize - 1 |-> 0]

WgridInit ==
  /\ wgridJob \in WgridJobs
  /\ wgridStep = "chunk" /\ chunkStart = 0
  /\ order = <<>> /\ plane = -1 /\ subidx = <<>>
  /\ schedule = NoSchedule /\ submitted = <<>> /\ left = 0
  /\ gridThread = [t \in GridTask |-> NoWork]
  /\ uvGrid = [r \in GridRows |-> 0]
  /\ planesDone = <<>> /\ sampled = <<>>
  /\ modelRows = [row \in 1 .. Len(wgridJob.rows) |-> <<>>]

threadVars == <<schedule, submitted, left, gridThread>>

\* The rows that fit in memory are read, and their visibilities sorted.
ReadChunk ==
  /\ wgridStep = "chunk" /\ chunkStart < Len(wgridJob.rows)
  /\ order' = WgtIndices(chunkStart)
  /\ plane' = -1 /\ subidx' = <<>>
  /\ planesDone' = [idx \in AllIdx(chunkStart) |-> {}]
  /\ sampled' = [idx \in AllIdx(chunkStart) |-> 0]
  /\ wgridStep' = "advance"
  /\ UNCHANGED <<wgridJob, chunkStart, threadVars, uvGrid, modelRows>>

\* A plane without visibilities is passed over.
AdvancePlane ==
  /\ wgridStep = "advance"
  /\ plane' = plane + 1
  /\ IF plane' >= NPlanes(chunkStart, order) THEN wgridStep' = "finish" /\ UNCHANGED subidx
     ELSE /\ subidx' = UpdateIdx(subidx, MinPlane(chunkStart, order, plane'),
                                 IF plane' >= Supp THEN MinPlane(chunkStart, order, plane' - Supp) ELSE <<>>)
          /\ wgridStep' = IF subidx' = <<>> THEN "advance" ELSE "plane"
  /\ UNCHANGED <<wgridJob, chunkStart, order, threadVars, uvGrid, planesDone, sampled, modelRows>>

\* What the transform of the model image puts in a row of the grid of a plane.
ModelAt(p, r) == 100 * (p + 1) + r

\* execDynamic and execStatic: with little to do every thread gets a fixed part, and a
\* part that is everything is done by the caller itself.
StaticSize == (Len(subidx) + wgridJob.nthreads - 1) \div wgridJob.nthreads
Mode ==
  IF MinimalChunk * wgridJob.nthreads < Len(subidx) THEN "dynamic"
  ELSE IF StaticSize < Len(subidx) THEN "static" ELSE "single"

StartPlane ==
  /\ wgridStep = "plane"
  /\ uvGrid' = [r \in GridRows |-> IF Gridding THEN 0 ELSE ModelAt(plane, r)]
  /\ planesDone' = [idx \in DOMAIN planesDone |->
                      IF \E i \in DOMAIN subidx : order[subidx[i]] = idx THEN planesDone[idx] \cup {plane}
                      ELSE planesDone[idx]]
  /\ schedule' = [mode |-> Mode, size |-> IF Mode = "static" THEN StaticSize ELSE MinimalChunk, cursor |-> 0,
                  next |-> [id \in 0 .. wgridJob.nthreads - 1 |-> id * StaticSize]]
  /\ IF Mode = "single"
       THEN /\ gridThread' = [gridThread EXCEPT ![0] = [NoWork EXCEPT !.at = "next"]]
            /\ left' = 1 /\ UNCHANGED submitted
       ELSE /\ submitted' = [i \in 1 .. wgridJob.nthreads |-> i - 1]
            /\ left' = wgridJob.nthreads /\ UNCHANGED gridThread
  /\ wgridStep' = "wait"
  /\ UNCHANGED <<wgridJob, chunkStart, order, plane, subidx, sampled, modelRows>>

\* The latch opens, and the grid is transformed.
PlaneDone ==
  /\ wgridStep = "wait" /\ left = 0
  /\ wgridStep' = "advance"
  /\ UNCHANGED <<wgridJob, chunkStart, order, plane, subidx, threadVars, uvGrid, planesDone, sampled, modelRows>>

\* A predicted row is written under its number in the whole set.
FinishChunk ==
  /\ wgridStep = "finish"
  /\ modelRows' = IF Gridding THEN modelRows
                  ELSE [row \in DOMAIN modelRows |->
                          IF row - chunkStart - 1 \in RowsOfChunk(chunkStart)
                          THEN [c \in 1 .. NChannels |-> sampled[GetIdx(row - chunkStart - 1, c - 1)]]
                          ELSE modelRows[row]]
  /\ chunkStart' = chunkStart + Cardinality(RowsOfChunk(chunkStart))
  /\ wgridStep' = "chunk"
  /\ UNCHANGED <<wgridJob, order, plane, subidx, threadVars, uvGrid, planesDone, sampled>>

WgridDone ==
  /\ wgridStep = "chunk" /\ chunkStart = Len(wgridJob.rows)
  /\ wgridStep' = "done"
  /\ UNCHANGED <<wgridJob, chunkStart, order, plane, subidx, threadVars, uvGrid, planesDone, sampled, modelRows>>

WgridCaller == ReadChunk \/ AdvancePlane \/ StartPlane \/ PlaneDone \/ FinishChunk \/ WgridDone

-----------------------------------------------------------------------------
(* A thread that grids or predicts a part of a plane *)

Work(t) == gridThread[t]
planeVars == <<wgridJob, wgridStep, chunkStart, order, plane, subidx, planesDone, modelRows>>

\* The pool takes what was submitted, with its thread id.
TakeSubmitted(t) ==
  /\ t # 0 /\ Work(t).at = "idle" /\ submitted # <<>>
  /\ gridThread' = [gridThread EXCEPT ![t] = [NoWork EXCEPT !.at = "next", !.id = Head(submitted)]]
  /\ submitted' = Tail(submitted)
  /\ UNCHANGED <<planeVars, schedule, left, uvGrid, sampled>>

\* getNext: the next part of the visibilities.
GiveRange(t, lo, hi) == gridThread' = [gridThread EXCEPT ![t].lo = lo, ![t].hi = hi, ![t].at = "add"]
NoMore(t) == gridThread' = [gridThread EXCEPT ![t].at = "end"] /\ UNCHANGED schedule
GetNext(t) ==
  LET n == Len(subidx)   \* a part is at most half of the rest, shared by the threads
      id == Work(t).id
      sz == Min({n - schedule.cursor, Max({schedule.size, (n - schedule.cursor) \div (2 * wgridJob.nthreads)})})
  IN  /\ Work(t).at = "next"
      /\ CASE schedule.mode = "single" /\ schedule.cursor = 0 ->
                GiveRange(t, 0, n) /\ schedule' = [schedule EXCEPT !.cursor = n]
           [] schedule.mode = "static" /\ schedule.next[id] < n ->
                /\ GiveRange(t, schedule.next[id], Min({schedule.next[id] + schedule.size, n}))
                /\ schedule' = [schedule EXCEPT !.next[id] = @ + wgridJob.nthreads * schedule.size]
           [] schedule.mode = "dynamic" /\ schedule.cursor < n ->
                /\ GiveRange(t, schedule.cursor, schedule.cursor + sz)
                /\ schedule' = [schedule EXCEPT !.cursor = @ + sz]
           [] OTHER -> NoMore(t)
      /\ UNCHANGED <<planeVars, submitted, left, uvGrid, sampled>>

IdxOf(t) == order[subidx[Work(t).lo + 1]]
CellOf(t) == FirstCell(chunkStart, IdxOf(t))
IsInBuffer(t) == CellOf(t) >= Work(t).start /\ CellOf(t) + Supp <= Work(t).start + BufferSize
GridRowAt(start, i) == (start + i + Nu) % Nu

\* prep: the buffer of the visibility begins at its tile.
NewStart(t) == ((CellOf(t) + Nsafe) \div Side) * Side - Nsafe

\* A buffer that was never used is not dumped; the buffer of a prediction is filled.
MoveBuffer(t) ==
  /\ Work(t).at = "add" /\ Work(t).lo < Work(t).hi /\ ~IsInBuffer(t)
  /\ gridThread' = [gridThread EXCEPT ![t] =
       IF Gridding /\ @.start >= -Nsafe
       THEN [@ EXCEPT !.at = "dump", !.dumped = 0]
       ELSE [@ EXCEPT !.start = NewStart(t),
                      !.buffer = IF Gridding THEN EmptyBuffer
                                 ELSE [i \in 0 .. BufferSize - 1 |-> uvGrid[GridRowAt(NewStart(t), i)]]]]
  /\ UNCHANGED <<planeVars, schedule, submitted, left, uvGrid, sampled>>

\* One row of the buffer is added to the grid under the lock of that row.
DumpRow(t) ==
  /\ Work(t).at \in {"dump", "dump last"} /\ Work(t).dumped < BufferSize
  /\ uvGrid' = [uvGrid EXCEPT ![GridRowAt(Work(t).start, Work(t).dumped)] = @ + Work(t).buffer[Work(t).dumped]]
  /\ gridThread' = [gridThread EXCEPT ![t].dumped = @ + 1]
  /\ UNCHANGED <<planeVars, schedule, submitted, left, sampled>>

Dumped(t) ==
  /\ Work(t).at = "dump" /\ Work(t).dumped = BufferSize
  /\ gridThread' = [gridThread EXCEPT ![t].at = "add", ![t].start = NewStart(t), ![t].buffer = EmptyBuffer]
  /\ UNCHANGED <<planeVars, schedule, submitted, left, uvGrid, sampled>>

Value(start, idx) == Base ^ (Cardinality({other \in AllIdx(start) : other < idx}))
BufferRows(t) == {CellOf(t) - Work(t).start + k : k \in 0 .. Supp - 1}

AddVisibility(t) ==
  /\ Work(t).at = "add" /\ Work(t).lo < Work(t).hi /\ IsInBuffer(t)
  /\ gridThread' = [gridThread EXCEPT
       ![t].lo = @ + 1,
       ![t].buffer = [i \in DOMAIN @ |-> IF Gridding /\ i \in BufferRows(t)
                                         THEN @[i] + Value(chunkStart, IdxOf(t)) ELSE @[i]]]
  /\ sampled' = IF Gridding THEN sampled
                  ELSE [sampled EXCEPT ![IdxOf(t)] =
                          @ + FoldFunction(+, 0, [i \in BufferRows(t) |-> Work(t).buffer[i]])]
  /\ UNCHANGED <<planeVars, schedule, submitted, left, uvGrid>>

PartDone(t) ==
  /\ Work(t).at = "add" /\ Work(t).lo = Work(t).hi
  /\ gridThread' = [gridThread EXCEPT ![t].at = "next"]
  /\ UNCHANGED <<planeVars, schedule, submitted, left, uvGrid, sampled>>

\* The destructor of the Helper dumps what is left.
LastDump(t) ==
  /\ Work(t).at = "end" /\ Gridding /\ Work(t).start >= -Nsafe
  /\ gridThread' = [gridThread EXCEPT ![t].at = "dump last", ![t].dumped = 0]
  /\ UNCHANGED <<planeVars, schedule, submitted, left, uvGrid, sampled>>

\* count_down
WorkDone(t) ==
  /\ \/ Work(t).at = "end" /\ ~(Gridding /\ Work(t).start >= -Nsafe)
     \/ Work(t).at = "dump last" /\ Work(t).dumped = BufferSize
  /\ left' = left - 1
  /\ gridThread' = [gridThread EXCEPT ![t] = NoWork]
  /\ UNCHANGED <<planeVars, schedule, submitted, uvGrid, sampled>>

GridThreadStep(t) ==
  \/ TakeSubmitted(t) \/ GetNext(t) \/ MoveBuffer(t) \/ DumpRow(t) \/ Dumped(t) \/ AddVisibility(t)
  \/ PartDone(t) \/ LastDump(t) \/ WorkDone(t)

WgridOver == wgridStep = "done" /\ UNCHANGED wgridVars

WgridNext == WgridCaller \/ (\E t \in GridTask : GridThreadStep(t)) \/ WgridOver

-----------------------------------------------------------------------------
(* Properties *)

\* The planes within half the support of a visibility: the kernel is zero beyond.
\* Plane p lies at p - Supp / 2 + 1 times the distance of planes from wmin.
PlanesAround(start, sorted, idx, p) ==
  LET h == 2 * Height(start, sorted, idx) - (2 * p - Supp + 2) * WRange(start, sorted)
  IN  h <= Supp * WRange(start, sorted) /\ -h <= Supp * WRange(start, sorted)

Footprint(start, idx) == {(FirstCell(start, idx) + k + Nu) % Nu : k \in 0 .. Supp - 1}

\* When the threads have finished a plane, each row of the grid holds every visibility that
\* is near the plane and near the row once, whichever threads and buffers they came through;
\* at the end of a chunk every visibility that is not zero was in exactly as many planes as
\* the kernel is wide, all around it; and a predicted row holds what these planes and rows
\* held, at its own place in the set (gridder_cxx.h, threading.h).
PlanesAddUp ==
  /\ wgridStep = "wait" /\ left = 0 /\ Gridding =>
       \A r \in GridRows :
         uvGrid[r] = FoldFunction(+, 0,
           [idx \in {i \in UsedIdx(chunkStart) : plane \in planesDone[i] /\ r \in Footprint(chunkStart, i)} |->
              Value(chunkStart, idx)])
  /\ wgridStep = "finish" =>
       \A idx \in UsedIdx(chunkStart) :
         /\ Cardinality(planesDone[idx]) = Supp
         /\ \A p \in planesDone[idx] : PlanesAround(chunkStart, order, idx, p)
  /\ wgridStep = "finish" /\ ~Gridding =>
       \A idx \in AllIdx(chunkStart) :
         sampled[idx] = FoldFunction(+, 0, [p \in planesDone[idx] |->
           FoldFunction(+, 0, [k \in 0 .. Supp - 1 |-> ModelAt(p, GridRowAt(FirstCell(chunkStart, idx), k))])])
  /\ wgridStep = "done" /\ ~Gridding => \A row \in DOMAIN modelRows : modelRows[row] # <<>>
=============================================================================
