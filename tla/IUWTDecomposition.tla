-------------------------- MODULE IUWTDecomposition --------------------------
(***************************************************************************)
(* The wavelet decomposition of an image by a pool of threads, and the     *)
(* image put together again (iuwt/iuwtdecomposition.h and .cpp,            *)
(* threadpool.h).  Arithmetic is exact, modulo 31, in which one sixteenth  *)
(* is 2.  The mutex of the pool makes everything between a lock and an     *)
(* unlock or wait one step.                                                *)
(***************************************************************************)
EXTENDS Integers, Sequences

CONSTANT DecompositionJobs   \* images, with what is asked for

VARIABLES
  decJob,
  buffers,          \* the images in memory
  largest,          \* the largest scale, also when its memory has been freed
  decScale, phase,  \* what is calculated: five parallel phases per scale
  queuedParts,      \* parts of the phase that are in the queue or further
  queuedTasks, activeThreads, finish, sleeping,   \* the members of the pool
  poolThread, doing,                              \* the threads and their tasks
  decStage

decompositionVars == <<decJob, buffers, largest, decScale, phase, queuedParts, queuedTasks, activeThreads, finish,
                       sleeping, poolThread, doing, decStage>>
poolVars == <<queuedTasks, activeThreads, finish, sleeping, poolThread, doing>>

\* The scales are buffers 0, 1, ...; the last one is also i1.
I0 == -1
Scratch == -2
Input == -3
I1 == decJob.nScales
InputBuffer == IF decJob.inPlace THEN Scratch ELSE Input

Pool == 1 .. decJob.threads
LargestPool == UNION {1 .. job.threads : job \in DecompositionJobs}
DecompositionCaller == 0
Pixels == 0 .. decJob.width * decJob.height - 1
X(i) == i % decJob.width
Y(i) == i \div decJob.width
Blank == [i \in Pixels |-> 0]

H == <<2, 8, 12, 8, 2>>
\* "1 << scale", and what is between the taps of a scale.
Shifted(scale) ==
  LET power[n \in 0 .. scale] == IF n = 0 THEN 1 ELSE 2 * power[n - 1] IN power[scale]
Between(scale) == Shifted(scale) - 1
Dist(scale, tap) == Between(scale) * (tap - 3)
Modulo(n) == n % 31

-----------------------------------------------------------------------------
(* One thread: convolve and Recompose *)

\* The sum of the taps that are used for a pixel at place n of a row or a column.
Tap(f, i, stride, scale, tap, taps) == IF tap \in taps THEN H[tap] * f[i + Dist(scale, tap) * stride] ELSE 0
TapsInRange(n, length, scale) == {tap \in 1 .. 5 : n + Dist(scale, tap) \in 0 .. length - 1}
Taps(f, i, stride, scale, taps) ==
  LET Value(tap) == Tap(f, i, stride, scale, tap, taps)
  IN  Modulo(Value(1) + Value(2) + Value(3) + Value(4) + Value(5))
Convolve(image, scale) ==
  LET rows == [i \in Pixels |-> Taps(image, i, 1, scale, TapsInRange(X(i), decJob.width, scale))]
  IN  [i \in Pixels |-> Taps(rows, i, decJob.width, scale, TapsInRange(Y(i), decJob.height, scale))]
Sum(a, b) == [i \in Pixels |-> Modulo(a[i] + b[i])]

-----------------------------------------------------------------------------
(* The pool: the tasks, which are parts of rows or of columns, with the    *)
(* convolution that treats both ends of a row apart                         *)

First(length, part) == (length * part) \div decJob.threads
PartRows(part) == First(decJob.height, part) .. First(decJob.height, part + 1) - 1
PartColumns(part) == First(decJob.width, part) .. First(decJob.width, part + 1) - 1
FastTapsWithoutSecond(n, length, scale) ==   \* mutant
  LET d == Between(scale) IN
  CASE n < 2 * d -> 3 .. 5
    [] n >= 2 * d /\ n < length - 2 * d -> 1 .. 5
    [] n >= length - 2 * d /\ n < length - d -> 1 .. 4
    [] n >= length - d -> 1 .. 3
FastTaps(n, length, scale) ==
  LET d == Between(scale) IN
  CASE n < d -> 3 .. 5
    [] n >= d /\ n < 2 * d -> 2 .. 5
    [] n >= 2 * d /\ n < length - 2 * d -> 1 .. 5
    [] n >= length - 2 * d /\ n < length - d -> 1 .. 4
    [] n >= length - d -> 1 .. 3

\* A row is calculated from the left: when it is convolved into itself, what is left of a pixel
\* has been overwritten.
ConvolveHorizontalFast(task) ==
  LET image == buffers[task.from]
      scale == decScale + 1
      overwritten == IF task.from = task.to THEN {1, 2} ELSE {}
      new[i \in Pixels] ==
        LET taps == FastTaps(X(i), decJob.width, scale)
        IN  Modulo(Taps(image, i, 1, scale, taps \ overwritten) + Taps(new, i, 1, scale, taps \cap overwritten))
  IN  [i \in Pixels |-> IF Y(i) \in PartRows(task.part) THEN new[i] ELSE buffers[task.to][i]]
ConvolveVerticalFast(task) ==
  [i \in Pixels |->
     IF X(i) \in PartColumns(task.part)
     THEN Taps(buffers[task.from], i, decJob.width, decScale + 1, FastTaps(Y(i), decJob.height, decScale + 1))
     ELSE buffers[task.to][i]]
Difference(task) ==
  [i \in Pixels |-> IF Y(i) \in PartRows(task.part) THEN Modulo(buffers[task.from][i] - buffers[task.to][i])
                    ELSE buffers[task.to][i]]
Executed(task) ==
  CASE task.kind = "horizontal" -> ConvolveHorizontalFast(task)
    [] task.kind = "vertical" -> ConvolveVerticalFast(task)
    [] task.kind = "difference" -> Difference(task)

NoWaveletTask == [kind |-> "none", from |-> 0, to |-> 0, part |-> 0]

\* queue and the end of a task call notify_all, which wakes the caller too.
TakeWaveletTask(t) ==
  /\ poolThread[t] = "awake" /\ t \notin sleeping /\ ~finish /\ queuedTasks # <<>>
  /\ activeThreads' = activeThreads + 1
  /\ doing' = [doing EXCEPT ![t] = Head(queuedTasks)]
  /\ queuedTasks' = Tail(queuedTasks)
  /\ poolThread' = [poolThread EXCEPT ![t] = "run"]
  /\ UNCHANGED <<decJob, buffers, largest, decScale, phase, queuedParts, finish, sleeping, decStage>>
ThreadWaits(t) ==
  /\ poolThread[t] = "awake" /\ t \notin sleeping /\ ~finish /\ queuedTasks = <<>>
  /\ sleeping' = sleeping \cup {t}
  /\ UNCHANGED <<decJob, buffers, largest, decScale, phase, queuedParts, queuedTasks, activeThreads, finish,
                 poolThread, doing, decStage>>
RunTask(t) ==
  /\ poolThread[t] = "run"
  /\ buffers' = [buffers EXCEPT ![doing[t].to] = Executed(doing[t])]
  /\ poolThread' = [poolThread EXCEPT ![t] = "ran"]
  /\ UNCHANGED <<decJob, largest, decScale, phase, queuedParts, queuedTasks, activeThreads, finish, sleeping,
                 doing, decStage>>
EndTask(t) ==
  /\ poolThread[t] = "ran"
  /\ activeThreads' = activeThreads - 1 /\ sleeping' = {}
  /\ doing' = [doing EXCEPT ![t] = NoWaveletTask]
  /\ poolThread' = [poolThread EXCEPT ![t] = "awake"]
  /\ UNCHANGED <<decJob, buffers, largest, decScale, phase, queuedParts, queuedTasks, finish, decStage>>
ThreadEnds(t) ==
  /\ poolThread[t] = "awake" /\ t \notin sleeping /\ finish
  /\ poolThread' = [poolThread EXCEPT ![t] = "ended"]
  /\ UNCHANGED <<decJob, buffers, largest, decScale, phase, queuedParts, queuedTasks, activeThreads, finish,
                 sleeping, doing, decStage>>
PoolThreadStep(t) == TakeWaveletTask(t) \/ ThreadWaits(t) \/ RunTask(t) \/ EndTask(t) \/ ThreadEnds(t)

-----------------------------------------------------------------------------
(* The caller: DecomposeMT, Recompose and the end of the pool *)

\* convolveMT twice and differenceMT.
TaskOf(part) ==
  LET source == IF decScale = 0 THEN InputBuffer ELSE I0
      Task(kind, from, to) == [kind |-> kind, from |-> from, to |-> to, part |-> part]
  IN  CASE phase = 1 -> Task("horizontal", source, Scratch)
        [] phase = 2 -> Task("vertical", Scratch, I1)
        [] phase = 3 -> Task("horizontal", I1, Scratch)
        [] phase = 4 -> Task("vertical", Scratch, decScale)
        [] phase = 5 -> Task("difference", source, decScale)

DecompositionInit ==
  /\ decJob \in DecompositionJobs
  /\ buffers = [b \in -3 .. decJob.nScales |-> IF b = InputBuffer THEN decJob.image ELSE Blank]
  /\ largest = Blank /\ decScale = 0 /\ phase = 1 /\ queuedParts = 0
  /\ queuedTasks = <<>> /\ activeThreads = 0 /\ finish = FALSE /\ sleeping = {}
  /\ poolThread = [t \in Pool |-> "awake"] /\ doing = [t \in Pool |-> NoWaveletTask]
  /\ decStage = "decompose"

CallerAwake == DecompositionCaller \notin sleeping

QueueTask ==
  /\ decStage = "decompose" /\ CallerAwake /\ queuedParts < decJob.threads
  /\ queuedTasks' = Append(queuedTasks, TaskOf(queuedParts))
  /\ queuedParts' = queuedParts + 1
  /\ sleeping' = {}
  /\ UNCHANGED <<decJob, buffers, largest, decScale, phase, activeThreads, finish, poolThread, doing, decStage>>

AllTasksQueued == decStage = "decompose" /\ CallerAwake /\ queuedParts = decJob.threads
AllTasksDone == activeThreads = 0 /\ queuedTasks = <<>>

\* wait_for_all_tasks
WaitForAllTasks ==
  /\ AllTasksQueued /\ ~AllTasksDone
  /\ sleeping' = sleeping \cup {DecompositionCaller}
  /\ UNCHANGED <<decJob, buffers, largest, decScale, phase, queuedParts, queuedTasks, activeThreads, finish,
                 poolThread, doing, decStage>>
NextPhase ==
  /\ AllTasksQueued /\ AllTasksDone /\ phase < 5
  /\ phase' = phase + 1 /\ queuedParts' = 0
  /\ UNCHANGED <<decJob, buffers, largest, decScale, decStage, poolVars>>
NextScale ==
  /\ AllTasksQueued /\ AllTasksDone /\ phase = 5 /\ decScale + 1 < decJob.nScales
  /\ buffers' = [buffers EXCEPT ![I0] = buffers[I1]]
  /\ decScale' = decScale + 1 /\ phase' = 1 /\ queuedParts' = 0
  /\ UNCHANGED <<decJob, largest, decStage, poolVars>>
\* The largest scale is already in its place, and is freed when it is not asked for.
Decomposed ==
  /\ AllTasksQueued /\ AllTasksDone /\ phase = 5 /\ decScale + 1 = decJob.nScales
  /\ largest' = buffers[I1]
  /\ buffers' = [buffers EXCEPT ![I1] = IF decJob.includeLargest THEN @ ELSE Blank,
                                ![I0] = IF decJob.includeLargest THEN buffers[I1] ELSE Blank]
  /\ decStage' = "recompose"
  /\ UNCHANGED <<decJob, decScale, phase, queuedParts, poolVars>>

\* One scale of Recompose, whose output is in I0.
RecomposeScale ==
  /\ decStage = "recompose" /\ decScale >= 0
  /\ buffers' = [buffers EXCEPT ![I0] =
       IF decScale = decJob.nScales - 1 /\ ~decJob.includeLargest THEN buffers[decScale]
       ELSE Sum(Convolve(buffers[I0], decScale + 1), buffers[decScale])]
  /\ decScale' = decScale - 1
  /\ UNCHANGED <<decJob, largest, phase, queuedParts, poolVars, decStage>>

\* ~ThreadPool: the threads are woken and joined.
DestroyPool ==
  /\ decStage = "recompose" /\ decScale = -1
  /\ finish' = TRUE /\ sleeping' = {} /\ decStage' = "join"
  /\ UNCHANGED <<decJob, buffers, largest, decScale, phase, queuedParts, queuedTasks, activeThreads, poolThread,
                 doing>>
JoinThreads ==
  /\ decStage = "join" /\ \A t \in Pool : poolThread[t] = "ended"
  /\ decStage' = "done"
  /\ UNCHANGED <<decJob, buffers, largest, decScale, phase, queuedParts, poolVars>>

DecompositionCallerStep ==
  QueueTask \/ WaitForAllTasks \/ NextPhase \/ NextScale \/ Decomposed \/ RecomposeScale \/ DestroyPool \/ JoinThreads
DecompositionOver == decStage = "done" /\ UNCHANGED decompositionVars

DecompositionNext ==
  DecompositionCallerStep \/ (\E t \in Pool : PoolThreadStep(t)) \/ DecompositionOver

-----------------------------------------------------------------------------

\* What a decomposition without its largest scale lacks.
LargestRecomposed ==
  LET n == decJob.nScales
      recomposed[k \in 0 .. n] == IF k = 0 THEN largest ELSE Convolve(recomposed[k - 1], n + 1 - k)
  IN  recomposed[n]

\* "coefficients = i0 - i2": the scales of an image add up to the image, or to the image
\* without its largest scale, however the threads of the pool share the work and wherever the
\* image is.
DecompositionIsComplete ==
  decStage = "recompose" /\ decScale = -1 =>
    buffers[I0] = IF decJob.includeLargest THEN decJob.image
                  ELSE [i \in Pixels |-> Modulo(decJob.image[i] - LargestRecomposed[i])]
=============================================================================
