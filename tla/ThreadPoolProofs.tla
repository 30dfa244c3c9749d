-------------------------- MODULE ThreadPoolProofs --------------------------
(***************************************************************************)
(* Proofs about three components that hand work to threads of their own.   *)
(*                                                                         *)
(* The w-stacking gridder, for any jobs: whatever their layers, threads    *)
(* and memory are, a layer is added to by one thread, the layers of a pass *)
(* fit in the memory set aside for them, and every sample in reach of its  *)
(* row is gridded once, in its own layer, or predicted once from it.       *)
(*                                                                         *)
(* The deconvolution tools, for any number of threads and any calls: when  *)
(* a call returns, every image was transformed or searched once with what  *)
(* belongs to it, and every slice was subtracted once.                     *)
(*                                                                         *)
(* The wavelet decomposition, for any image, scales and threads: the       *)
(* scales that the pool makes of an image add up to it.                    *)
(***************************************************************************)
EXTENDS WStacking, ThreadedDeconvolutionTools, IUWTDecomposition, FiniteSetTheorems, FunctionTheorems,
        SequenceTheorems, WellFoundedInduction, NaturalsInduction, TLAPS

----
(* The w-stacking gridder *)

SampleIndex == Nat \X Nat \X Nat

\* A layer with remainder c belongs to thread c: that is all its lane and its hand ever hold.
LanesByLayer ==
  Working =>
    /\ lanes \in [Cpus -> Seq(SampleIndex)]
    /\ holding \in [Cpus -> SampleIndex \cup {Nothing}]
    /\ \A c \in Cpus : /\ \A i \in DOMAIN lanes[c] : CpuOf(lanes[c][i]) = c
                       /\ holding[c] # Nothing => CpuOf(holding[c]) = c

\* What is decided before the first pass.
PassesFit == gridder = Nothing \/ (gridder.perPass \in Nat \ {0} /\ gridder.nPasses = PassesNeeded(gridder.perPass))
Counters == job \in Jobs /\ pass \in Nat /\ ms \in Nat /\ row \in Nat /\ channel \in Nat

GriddingInv == Counters /\ PassesFit /\ LanesByLayer

----
(* The layers of a pass *)

\* The quotient q of a and b is the one number with b * q <= a < b * (q + 1).
LEMMA Quotient ==
  ASSUME NEW a \in Nat, NEW b \in Nat \ {0}
  PROVE  /\ a \div b \in Nat
         /\ b * (a \div b) <= a /\ a < b * (a \div b) + b  OBVIOUS

\* Layers spread evenly over enough passes: no pass gets more than it has room for.
LEMMA EvenPasses ==
  ASSUME NEW n \in Nat \ {0}, NEW P \in Nat \ {0}, NEW room \in Nat \ {0}, NEW p \in Nat,
         n <= P * room
  PROVE  (n * (p + 1)) \div P - (n * p) \div P <= room
<1> DEFINE a == (n * (p + 1)) \div P
           b == (n * p) \div P
<1>1. n * p \in Nat /\ n * (p + 1) \in Nat /\ n * (p + 1) = n * p + n  OBVIOUS
<1>2. a \in Nat /\ P * a <= n * (p + 1)  BY <1>1, Quotient
<1>3. b \in Nat /\ n * p < P * b + P  BY <1>1, Quotient
<1> HIDE DEF a, b
<1>4. P * a < P * b + P + P * room  BY <1>1, <1>2, <1>3
<1>5. P * b + P + P * room = P * (b + 1 + room)  BY <1>3
<1>6. a < b + 1 + room  BY <1>2, <1>3, <1>4, <1>5
<1>7. QED BY <1>2, <1>3, <1>6 DEF a, b

\* There are enough passes.
LEMMA EnoughPasses ==
  ASSUME NEW n \in Nat \ {0}, NEW room \in Nat \ {0}
  PROVE  /\ AtLeast(1, (n + room - 1) \div room) \in Nat \ {0}
         /\ n <= AtLeast(1, (n + room - 1) \div room) * room
<1> DEFINE q == (n + room - 1) \div room
<1>1. n + room - 1 \in Nat  OBVIOUS
<1>2. q \in Nat /\ n + room - 1 < room * q + room  BY <1>1, Quotient
<1> HIDE DEF q
<1>3. n <= room * q /\ room * q = q * room  BY <1>2
<1>4. q # 0  BY <1>2, <1>3
<1>5. AtLeast(1, q) = q  BY <1>2, <1>4 DEF AtLeast
<1>6. QED BY <1>2, <1>3, <1>4, <1>5 DEF q

LEMMA PassesGiveFit == GriddingInv => LayersFitInMemory
<1> SUFFICES ASSUME GriddingInv, gridder # Nothing PROVE LayersInPass <= gridder.perPass  BY DEF LayersFitInMemory
<1> DEFINE n == job.nWLayers
           room == gridder.perPass
           P == gridder.nPasses
<1>1. n \in Nat \ {0} /\ room \in Nat \ {0} /\ pass \in Nat /\ P = PassesNeeded(room)
  BY JobsAssumption DEF JobsAssumption, GriddingInv, Counters, PassesFit
<1>2. P = AtLeast(1, (n + room - 1) \div room)  BY <1>1 DEF PassesNeeded
<1>3. LayersInPass = (n * (pass + 1)) \div P - (n * pass) \div P
  BY DEF LayersInPass, RangeStart, RangeEnd, LayerRangeStart
<1> HIDE DEF n, room, P
<1>4. P \in Nat \ {0} /\ n <= P * room  BY <1>1, <1>2, EnoughPasses
<1>5. QED BY <1>1, <1>3, <1>4, EvenPasses DEF room

----
(* The threads of an inversion *)

LEMMA LanesGiveNotShared == GriddingInv => LayersNotShared
<1> SUFFICES ASSUME GriddingInv, Working, NEW c \in Cpus, NEW d \in Cpus, c # d,
                    holding[c] # Nothing, holding[d] # Nothing
             PROVE  WToLayer(W(holding[c])) # WToLayer(W(holding[d]))  BY DEF LayersNotShared
<1>1. CpuOf(holding[c]) = c /\ CpuOf(holding[d]) = d  BY DEF GriddingInv, LanesByLayer
<1>2. QED BY <1>1 DEF CpuOf

\* The thread of a sample does not change while the job goes on.
LEMMA SameCpu ==
  ASSUME UNCHANGED <<job, gridder>>
  PROVE  Cpus' = Cpus /\ \A s : CpuOf(s)' = CpuOf(s)  BY DEF Cpus, CpuOf, WToLayer, W

\* Threads that start have nothing yet.
LEMMA LanesStart == UNCHANGED <<job, gridder>> /\ StartWorkers => LanesByLayer'
<1> SUFFICES ASSUME UNCHANGED <<job, gridder>>, StartWorkers PROVE LanesByLayer'  OBVIOUS
<1>1. lanes' = [c \in Cpus |-> <<>>] /\ holding' = [c \in Cpus |-> Nothing] /\ Cpus' = Cpus
  BY SameCpu DEF StartWorkers
<1>2. DOMAIN <<>> = {}  OBVIOUS
<1>3. \A c \in Cpus : DOMAIN lanes'[c] = {} /\ holding'[c] = Nothing  BY <1>1, <1>2, Zenon
<1>4. <<>> \in Seq(SampleIndex)  OBVIOUS
<1>5. lanes' \in [Cpus -> Seq(SampleIndex)] /\ holding' \in [Cpus -> SampleIndex \cup {Nothing}]  BY <1>1, <1>4
<1>6. QED BY <1>1, <1>3, <1>5 DEF LanesByLayer

LEMMA LanesUnchanged == LanesByLayer /\ UNCHANGED <<job, gridder, lanes, holding>> /\ (Working' => Working) => LanesByLayer'
<1> SUFFICES ASSUME LanesByLayer, UNCHANGED <<job, gridder, lanes, holding>>, Working, Working' PROVE LanesByLayer'
  BY DEF LanesByLayer
<1>1. Cpus' = Cpus /\ \A s : CpuOf(s)' = CpuOf(s)  BY SameCpu
<1>2. QED BY <1>1 DEF LanesByLayer

LEMMA SampleIsSent ==
  ASSUME GriddingInv, SendSample
  PROVE  LanesByLayer'
<1> DEFINE s == SampleAt(ms, row, channel)
<1>0. CASE ~ Working
  <2>1. job.kind # "invert" /\ UNCHANGED job  BY <1>0 DEF SendSample, Working
  <2>2. QED BY <2>1 DEF LanesByLayer, Working
<1>1. CASE Working
  <2>1. /\ lanes' = [lanes EXCEPT ![CpuOf(s)] = Append(@, s)]
        /\ UNCHANGED <<job, gridder, holding>>  BY DEF SendSample
  <2>2. s \in SampleIndex  BY DEF GriddingInv, Counters, SampleIndex, SampleAt
  <2>3. Cpus' = Cpus /\ \A u : CpuOf(u)' = CpuOf(u)  BY <2>1, SameCpu
  <2>4. /\ lanes \in [Cpus -> Seq(SampleIndex)] /\ holding \in [Cpus -> SampleIndex \cup {Nothing}]
        /\ \A c \in Cpus : /\ \A i \in DOMAIN lanes[c] : CpuOf(lanes[c][i]) = c
                           /\ holding[c] # Nothing => CpuOf(holding[c]) = c  BY <1>1 DEF GriddingInv, LanesByLayer
  <2> HIDE DEF s
  <2>5. \A c \in Cpus : lanes'[c] = IF c = CpuOf(s) THEN Append(lanes[c], s) ELSE lanes[c]  BY <2>1, <2>4
  <2>6. ASSUME NEW c \in Cpus
        PROVE  /\ Append(lanes[c], s) \in Seq(SampleIndex)
               /\ \A i \in DOMAIN Append(lanes[c], s) : \/ i \in DOMAIN lanes[c] /\ Append(lanes[c], s)[i] = lanes[c][i]
                                                       \/ Append(lanes[c], s)[i] = s
    <3>1. lanes[c] \in Seq(SampleIndex) /\ Len(lanes[c]) \in Nat /\ DOMAIN lanes[c] = 1 .. Len(lanes[c])
      BY <2>4, LenProperties
    <3>2. QED BY <2>2, <3>1, AppendProperties
  <2>7. lanes' \in [Cpus -> Seq(SampleIndex)]
    <3>1. DOMAIN lanes' = Cpus /\ lanes' = [c \in Cpus |-> lanes'[c]]  BY <2>1, <2>4
    <3>2. \A c \in Cpus : lanes'[c] \in Seq(SampleIndex)  BY <2>4, <2>5, <2>6
    <3>3. QED BY <3>1, <3>2
  <2>8. ASSUME NEW c \in Cpus, NEW i \in DOMAIN lanes'[c] PROVE CpuOf(lanes'[c][i]) = c
    <3>1. CASE c = CpuOf(s)
      <4>1. lanes'[c] = Append(lanes[c], s)  BY <2>5, <3>1
      <4>2. CASE i \in DOMAIN lanes[c] /\ Append(lanes[c], s)[i] = lanes[c][i]  BY <2>4, <4>1, <4>2
      <4>3. CASE Append(lanes[c], s)[i] = s  BY <3>1, <4>1, <4>3
      <4>4. QED BY <2>6, <2>8, <4>1, <4>2, <4>3
    <3>2. CASE c # CpuOf(s)
      <4>1. lanes'[c] = lanes[c]  BY <2>5, <3>2
      <4>2. QED BY <2>4, <2>8, <4>1
    <3>3. QED BY <3>1, <3>2
  <2>9. QED BY <2>1, <2>3, <2>4, <2>7, <2>8 DEF LanesByLayer
<1>2. QED BY <1>0, <1>1

LEMMA SampleIsTaken ==
  ASSUME GriddingInv, NEW c \in DOMAIN holding, TakeSample(c)
  PROVE  LanesByLayer'
<1>1. /\ holding' = [holding EXCEPT ![c] = Head(lanes[c])] /\ lanes' = [lanes EXCEPT ![c] = Tail(lanes[c])]
      /\ lanes[c] # <<>> /\ UNCHANGED <<job, gridder>> /\ Working  BY DEF TakeSample
<1>2. Cpus' = Cpus /\ \A u : CpuOf(u)' = CpuOf(u)  BY <1>1, SameCpu
<1>3. /\ lanes \in [Cpus -> Seq(SampleIndex)] /\ holding \in [Cpus -> SampleIndex \cup {Nothing}]
      /\ \A d \in Cpus : /\ \A i \in DOMAIN lanes[d] : CpuOf(lanes[d][i]) = d
                         /\ holding[d] # Nothing => CpuOf(holding[d]) = d  BY <1>1 DEF GriddingInv, LanesByLayer
<1>4. c \in Cpus /\ lanes[c] \in Seq(SampleIndex)  BY <1>3
<1>5. /\ Head(lanes[c]) \in SampleIndex /\ Tail(lanes[c]) \in Seq(SampleIndex)
      /\ Head(lanes[c]) = lanes[c][1] /\ 1 \in DOMAIN lanes[c]
      /\ \A i \in DOMAIN Tail(lanes[c]) : i + 1 \in DOMAIN lanes[c] /\ Tail(lanes[c])[i] = lanes[c][i + 1]
  <2>1. Len(lanes[c]) \in Nat /\ DOMAIN lanes[c] = 1 .. Len(lanes[c]) /\ Len(lanes[c]) # 0
    BY <1>1, <1>4, LenProperties, EmptySeq
  <2>2. QED BY <1>1, <1>4, <2>1, HeadTailProperties, LenProperties
<1>6. CpuOf(Head(lanes[c])) = c  BY <1>3, <1>4, <1>5
<1>7. \A i \in DOMAIN Tail(lanes[c]) : CpuOf(Tail(lanes[c])[i]) = c  BY <1>3, <1>4, <1>5
<1> DEFINE first == Head(lanes[c])
           others == Tail(lanes[c])
<1> HIDE DEF first, others
<1>8. \A d \in Cpus : /\ lanes'[d] = IF d = c THEN others ELSE lanes[d]
                      /\ holding'[d] = IF d = c THEN first ELSE holding[d]  BY <1>1, <1>3 DEF first, others
<1>9. lanes' \in [Cpus -> Seq(SampleIndex)] /\ holding' \in [Cpus -> SampleIndex \cup {Nothing}]
  BY <1>1, <1>3, <1>4, <1>5
<1>10. \A d \in Cpus : /\ \A i \in DOMAIN lanes'[d] : CpuOf(lanes'[d][i]) = d
                       /\ holding'[d] # Nothing => CpuOf(holding'[d]) = d  BY <1>3, <1>6, <1>7, <1>8 DEF first, others
<1>11. QED BY <1>2, <1>9, <1>10 DEF LanesByLayer

LEMMA SampleIsAdded ==
  ASSUME GriddingInv, NEW c \in DOMAIN holding, AddDataSample(c)
  PROVE  LanesByLayer'
<1>1. holding' = [holding EXCEPT ![c] = Nothing] /\ UNCHANGED <<job, gridder, lanes>> /\ Working  BY DEF AddDataSample
<1>2. Cpus' = Cpus /\ \A u : CpuOf(u)' = CpuOf(u)  BY <1>1, SameCpu
<1>3. /\ lanes \in [Cpus -> Seq(SampleIndex)] /\ holding \in [Cpus -> SampleIndex \cup {Nothing}]
      /\ \A d \in Cpus : /\ \A i \in DOMAIN lanes[d] : CpuOf(lanes[d][i]) = d
                         /\ holding[d] # Nothing => CpuOf(holding[d]) = d  BY <1>1 DEF GriddingInv, LanesByLayer
<1>4. \A d \in Cpus : holding'[d] = IF d = c THEN Nothing ELSE holding[d]  BY <1>1, <1>3
<1>5. holding' \in [Cpus -> SampleIndex \cup {Nothing}]  BY <1>1, <1>3
<1>6. QED BY <1>1, <1>2, <1>3, <1>4, <1>5 DEF LanesByLayer

----
(* Every step *)

LEMMA GriddingStarts == PipelineInit => GriddingInv
BY DEF PipelineInit, GriddingInv, Counters, PassesFit, LanesByLayer, Working

\* At least one layer fits in a pass.
LEMMA RoomForALayer ==
  ASSUME job \in Jobs
  PROVE  PrepareWLayers.perPass \in Nat \ {0} /\ PrepareWLayers.nPasses = PassesNeeded(PrepareWLayers.perPass)
<1>1. job.nWLayers \in Nat \ {0} /\ job.cpus \in Nat \ {0} /\ job.memory \in Nat  BY JobsAssumption DEF JobsAssumption
<1> DEFINE plain == job.memory - 5 * AtMost(job.cpus, job.nWLayers)
           isLow == plain <= job.cpus
           nFFTThreads == IF isLow THEN AtLeast(1, (3 * job.memory) \div 25) ELSE job.cpus
           remaining == IF isLow THEN job.memory - 5 * nFFTThreads ELSE plain
           perPass == IF remaining < 2 THEN 1 ELSE remaining \div 2
<1>2. plain \in Int /\ nFFTThreads \in Int
  <2>1. AtMost(job.cpus, job.nWLayers) \in Nat  BY <1>1 DEF AtMost
  <2>2. (3 * job.memory) \div 25 \in Nat  BY <1>1
  <2>3. AtLeast(1, (3 * job.memory) \div 25) \in Nat  BY <2>2 DEF AtLeast
  <2>4. QED BY <1>1, <2>1, <2>3
<1>3. remaining \in Int  BY <1>1, <1>2
<1>4. PrepareWLayers.perPass = perPass /\ PrepareWLayers.nPasses = PassesNeeded(perPass)  BY DEF PrepareWLayers
<1> HIDE DEF remaining
<1>5. perPass \in Nat \ {0}  BY <1>3
<1>6. QED BY <1>4, <1>5

LEMMA CountersStep == ASSUME Counters, [PipelineNext]_pipelineVars PROVE Counters'
<1> USE DEF Counters
<1>1. MainStep => Counters'
  BY DEF MainStep, Prepare, StartInversionPass, StartPredictionPass, SkipRow, ReadRow, SendSample, EndOfSet,
         JoinWorkers, FinishInversionPass, FinishTransforms, QueueRow, JoinPrediction, Finalize, StartWorkers,
         StartTransforms, StartCalculating, NextPass
<1>2. ASSUME NEW c, WorkerStep(c) PROVE Counters'
  BY <1>2 DEF WorkerStep, TakeSample, AddDataSample, TakeLayer, TransformToImage, TransformToGrid, TakeRow, PassOnRow
<1>3. WriteRow => Counters'  BY DEF WriteRow
<1>4. PipelineOver => Counters'  BY DEF PipelineOver, pipelineVars
<1>5. UNCHANGED pipelineVars => Counters'  BY DEF pipelineVars
<1>6. QED BY <1>1, <1>2, <1>3, <1>4, <1>5 DEF PipelineNext

\* Only Prepare decides about the passes.
LEMMA PassesStep == ASSUME Counters, PassesFit, [PipelineNext]_pipelineVars PROVE PassesFit'
<1>1. CASE Prepare  BY <1>1, RoomForALayer DEF Prepare, PassesFit, PassesNeeded, Counters
<1>2. CASE ~ Prepare
  <2>1. UNCHANGED <<job, gridder>>
    BY <1>2 DEF PipelineNext, MainStep, StartInversionPass, StartPredictionPass, SkipRow, ReadRow, SendSample, EndOfSet,
         JoinWorkers, FinishInversionPass, FinishTransforms, QueueRow, JoinPrediction, Finalize,
         WorkerStep, TakeSample, AddDataSample, TakeLayer, TransformToImage, TransformToGrid, TakeRow, PassOnRow,
         WriteRow, PipelineOver, pipelineVars
  <2>2. QED BY <2>1 DEF PassesFit, PassesNeeded
<1>3. QED BY <1>1, <1>2

LEMMA LanesStep == ASSUME GriddingInv, [PipelineNext]_pipelineVars PROVE LanesByLayer'
<1>0. LanesByLayer  BY DEF GriddingInv
<1>1. CASE Prepare  BY <1>1 DEF Prepare, LanesByLayer, Working
<1>2. CASE StartInversionPass  BY <1>2, LanesStart DEF StartInversionPass
<1>3. CASE StartPredictionPass  BY <1>3 DEF StartPredictionPass, StartTransforms, LanesByLayer, Working
<1>4. CASE SkipRow  BY <1>0, <1>4, LanesUnchanged DEF SkipRow, Working
<1>5. CASE ReadRow  BY <1>0, <1>5, LanesUnchanged DEF ReadRow, Working
<1>6. CASE SendSample  BY <1>6, SampleIsSent
<1>7. CASE EndOfSet  BY <1>0, <1>7, LanesUnchanged DEF EndOfSet, Working
<1>8. CASE JoinWorkers
  <2>1. CASE ms < Len(job.sets)  BY <1>8, <2>1, LanesStart DEF JoinWorkers
  <2>2. CASE ~ (ms < Len(job.sets))  BY <1>8, <2>2 DEF JoinWorkers, StartTransforms, LanesByLayer, Working
  <2>3. QED BY <2>1, <2>2
<1>9. CASE FinishInversionPass  BY <1>9 DEF FinishInversionPass, NextPass, LanesByLayer, Working
<1>10. CASE FinishTransforms  BY <1>10 DEF FinishTransforms, LanesByLayer, Working
<1>11. CASE QueueRow  BY <1>11 DEF QueueRow, LanesByLayer, Working
<1>12. CASE JoinPrediction  BY <1>12 DEF JoinPrediction, Calculating, LanesByLayer, Working
<1>13. CASE Finalize  BY <1>13 DEF Finalize, LanesByLayer, Working
<1>14. ASSUME NEW c \in DOMAIN holding, TakeSample(c) PROVE LanesByLayer'  BY <1>14, SampleIsTaken
<1>15. ASSUME NEW c \in DOMAIN holding, AddDataSample(c) PROVE LanesByLayer'  BY <1>15, SampleIsAdded
<1>16. ASSUME NEW c, TakeLayer(c) \/ TransformToImage(c) \/ TransformToGrid(c) PROVE LanesByLayer'
  BY <1>16 DEF TakeLayer, TransformToImage, TransformToGrid, Transforming, LanesByLayer, Working
<1>17. ASSUME NEW c, TakeRow(c) \/ PassOnRow(c) PROVE LanesByLayer'
  BY <1>17 DEF TakeRow, PassOnRow, Calculating, LanesByLayer, Working
<1>18. CASE WriteRow  BY <1>18 DEF WriteRow, Calculating, LanesByLayer, Working
<1>19. CASE UNCHANGED pipelineVars  BY <1>0, <1>19, LanesUnchanged DEF pipelineVars, Working
<1>20. QED BY <1>1, <1>2, <1>3, <1>4, <1>5, <1>6, <1>7, <1>8, <1>9, <1>10, <1>11, <1>12, <1>13, <1>14, <1>15, <1>16,
     <1>17, <1>18, <1>19 DEF PipelineNext, MainStep, WorkerStep, PipelineOver

\* No two threads ever add to the same layer, whose grid has no lock, and the layers of every
\* pass fit in the memory: for any number of layers, threads and passes, any rows and any
\* limits of w (wstackinggridder.cpp, wsmsgridder.cpp).
THEOREM LayersHaveOneThread == PipelineSpec => []LayersNotSharedAndFit
<1>1. GriddingInv => LayersNotSharedAndFit  BY PassesGiveFit, LanesGiveNotShared DEF LayersNotSharedAndFit
<1>2. GriddingInv /\ [PipelineNext]_pipelineVars => GriddingInv'
  BY CountersStep, PassesStep, LanesStep DEF GriddingInv
<1>3. QED BY <1>1, <1>2, GriddingStarts, PTL DEF PipelineSpec

----
(* Every sample once *)

Layer(s) == WToLayer(W(s))

\* The samples that an inversion grids, or that a prediction writes.
Counts(s) == IF job.kind = "invert" THEN Weight(s) # 0 ELSE InPlane(s)
Expected == {s \in Samples : HasLayer(s) /\ Counts(s)}

\* What the reading of rows relies on: a sample that counts lies in the plane, and its layer
\* is not outside of the layers of the first and the last channel of its row.
IsBetween(l, l1, l2) == (l1 <= l /\ l <= l2) \/ (l2 <= l /\ l <= l1)
SamplesInReach ==
  \A s \in Expected :
    LET w == Rows(s[1])[s[2]].w
    IN  InPlane(s) /\ IsBetween(Layer(s), WToLayer(w[1]), WToLayer(w[Len(w)]))

Gridding == step \in {"read", "send", "joinWorkers"}
Threads2D == 0 .. gridder.nFFTThreads - 1
PassLayers == 0 .. LayersInPass - 1

\* What was decided before the first pass.
Limits ==
  /\ gridder.minW \in Nat /\ gridder.maxW \in Nat /\ gridder.minW < gridder.maxW
  /\ gridder.perPass \in Nat \ {0} /\ gridder.nPasses = PassesNeeded(gridder.perPass)
  /\ gridder.nFFTThreads \in Nat \ {0}

\* Where the main thread is.
Position ==
  /\ pass \in 0 .. gridder.nPasses - 1
  /\ step \in {"finalize", "done"} => pass = gridder.nPasses - 1
  /\ Gridding => job.kind = "invert"
  /\ step = "queue" => job.kind = "predict"
  /\ Gridding \/ step = "queue" => ms \in DOMAIN job.sets /\ row \in 1 .. Len(Rows(ms)) + 1
  /\ step = "send" => row \in DOMAIN Rows(ms) /\ channel \in Channels(ms, row) /\ IsRequired(ms, row)
  /\ step = "joinWorkers" => row = Len(Rows(ms)) + 1

\* A sample was handed out in this pass.
HandedOut(s) ==
  s[1] < ms \/ (s[1] = ms /\ (s[2] < row \/ (step = "send" /\ s[2] = row /\ s[3] < channel)))
IsWeighed(s) ==
  s[1] < ms \/ (s[1] = ms /\ (s[2] < row \/ (step = "send" /\ s[2] = row)))
Waiting(s) == holding[CpuOf(s)] = s \/ \E i \in DOMAIN lanes[CpuOf(s)] : lanes[CpuOf(s)][i] = s

\* A lane holds each sample once, and only samples that were handed out of this set.
LanesHoldSamples ==
  \A c \in Cpus :
    /\ \A i \in DOMAIN lanes[c] : lanes[c][i] \in Samples /\ HandedOut(lanes[c][i]) /\ lanes[c][i] # holding[c]
    /\ \A i, j \in DOMAIN lanes[c] : lanes[c][i] = lanes[c][j] => i = j
    /\ holding[c] # Nothing => holding[c] \in Samples /\ HandedOut(holding[c])

IsGridded(s, l) == Layer(s) = l + RangeStart /\ HandedOut(s) /\ ~Waiting(s)
GridsSoFar == grids = [l \in PassLayers |-> SetToBag({s \in Expected : IsGridded(s, l)})]
GridsFull == grids = [l \in PassLayers |-> SetToBag({s \in Expected : Layer(s) = l + RangeStart})]

ToBeWeighed(s) ==
  \/ Layer(s) < RangeStart
  \/ IsLayerInPass(Layer(s)) /\ step # "startPass" /\ (Gridding => IsWeighed(s))
WeighedSoFar == weighed = SetToBag({s \in Expected : ToBeWeighed(s)})

\* A layer is waiting on the stack, with a thread, or was transformed.
StackInv ==
  /\ layers \subseteq PassLayers
  /\ holding \in [FFTThreads -> {Nothing} \cup {<<l>> : l \in PassLayers}]
  /\ \A t \in FFTThreads : holding[t] # Nothing =>
       /\ holding[t][1] \notin layers
       /\ \A u \in FFTThreads : holding[u] = holding[t] => u = t
IsTransformed(l) == l \notin layers /\ \A t \in FFTThreads : holding[t] # <<l>>

\* The images hold the layers that were transformed, each sample in one of them.
InImages(s) ==
  \/ Layer(s) < RangeStart
  \/ /\ IsLayerInPass(Layer(s))
     /\ step = "finalize" \/ (step = "transform" /\ IsTransformed(Layer(s) - RangeStart))
ImagesSoFar ==
  /\ images = [t \in Threads2D |-> SetToBag(DOMAIN images[t])]
  /\ \A t, u \in Threads2D : t # u => DOMAIN images[t] \cap DOMAIN images[u] = {}
  /\ UNION {DOMAIN images[t] : t \in Threads2D} = {<<s, Layer(s)>> : s \in {s \in Expected : InImages(s)}}

InversionInv ==
  /\ WeighedSoFar
  /\ step # "done" => ImagesSoFar
  /\ Gridding => LanesHoldSamples /\ GridsSoFar
  /\ step = "transform" => GridsFull

\* Predicting, a row is on its way to a calculating thread, with it, or on its way to be written.
HeldRows == {c \in Cpus : holding[c] # Nothing}
RowsToWrite == {<<r, SampleData(r)>> : r \in 1 .. row - 1}
RowsOnTheirWay ==
  /\ DOMAIN lanes = {"calc", "write"} /\ lanes["calc"] \in Seq(1 .. row - 1) /\ lanes["write"] \in Seq(RowsToWrite)
  /\ holding \in [Cpus -> {Nothing} \cup RowsToWrite]
  /\ \A i, j \in DOMAIN lanes["calc"] : lanes["calc"][i] = lanes["calc"][j] => i = j
  /\ \A i, j \in DOMAIN lanes["write"] : lanes["write"][i][1] = lanes["write"][j][1] => i = j
  /\ \A c, d \in HeldRows : holding[c][1] = holding[d][1] => c = d
  /\ \A i \in DOMAIN lanes["calc"] :
       /\ \A j \in DOMAIN lanes["write"] : lanes["calc"][i] # lanes["write"][j][1]
       /\ \A c \in HeldRows : lanes["calc"][i] # holding[c][1]
  /\ \A j \in DOMAIN lanes["write"] : \A c \in HeldRows : lanes["write"][j][1] # holding[c][1]
IsOnItsWay(r) ==
  \/ \E i \in DOMAIN lanes["calc"] : lanes["calc"][i] = r
  \/ \E j \in DOMAIN lanes["write"] : lanes["write"][j][1] = r
  \/ \E c \in HeldRows : holding[c][1] = r
RowIsWritten(s) == s[1] < ms \/ (s[1] = ms /\ s[2] < row /\ ~IsOnItsWay(s[2]))

GridsOfModel ==
  grids = [l \in PassLayers |-> IF step = "queue" \/ IsTransformed(l) THEN SetToBag({l + RangeStart}) ELSE EmptyBag]

IsPredicted(s) ==
  /\ s \in Expected
  /\ \/ Layer(s) < RangeStart
     \/ IsLayerInPass(Layer(s)) /\ (step \in {"finalize", "done"} \/ (step = "queue" /\ RowIsWritten(s)))
PredictedSoFar ==
  predicted = [s \in Samples |-> IF IsPredicted(s) THEN <<SetToBag({Layer(s)})>> ELSE <<>>]

PredictionInv ==
  /\ PredictedSoFar
  /\ step = "transform" \/ step = "queue" => GridsOfModel
  /\ step = "queue" => RowsOnTheirWay

\* Where the job is.
StepInv ==
  /\ job \in Jobs
  /\ step \in {"prepare", "startPass", "read", "send", "joinWorkers", "transform", "queue", "finalize", "done"}
  /\ step = "prepare" => pass = 0 /\ weighed = EmptyBag /\ predicted = [s \in Samples |-> <<>>]
  /\ step # "prepare" => Limits /\ Position
  /\ step = "transform" => StackInv

\* Where its samples are.
SamplesInv ==
  step # "prepare" /\ SamplesInReach =>
    /\ job.kind = "invert" => InversionInv
    /\ job.kind = "predict" => PredictionInv
    /\ step = "done" => EachSampleOnce
----
(* Layers and limits *)

LessOnNat == {pair \in Nat \X Nat : pair[1] < pair[2]}
LEMMA LessIsWellFounded == IsWellFoundedOn(LessOnNat, Nat)  BY NatLessThanWellFounded DEF OpToRel, LessOnNat

\* A set of naturals has a least element.
LEMMA LeastElement ==
  ASSUME NEW T, T \subseteq Nat, T # {}
  PROVE  \E n \in T : \A m \in T : n <= m
<1>1. PICK n \in T : \A m \in T : <<m, n>> \notin LessOnNat  BY LessIsWellFounded, WFMin
<1>2. ASSUME NEW m \in T PROVE n <= m
  <2>1. m \in Nat /\ n \in Nat /\ ~(m < n)  BY <1>1 DEF LessOnNat
  <2> QED BY <2>1
<1> QED BY <1>2

HasMaximum(S) == \E x \in S : \A y \in S : x >= y

\* A finite set of integers has a largest element: there is no smallest set without one.
LEMMA FiniteMaximum ==
  ASSUME NEW S \in SUBSET Int, S # {}, IsFiniteSet(S)
  PROVE  Max(S) \in S /\ \A y \in S : Max(S) >= y
<1> DEFINE Bad == {T \in SUBSET S : T # {} /\ ~HasMaximum(T)}
           Sizes == {n \in Nat : \E T \in Bad : Cardinality(T) = n}
<1>1. ASSUME NEW T \in SUBSET S PROVE IsFiniteSet(T) /\ Cardinality(T) \in Nat  BY FS_Subset, FS_CardinalityType
<1>2. HasMaximum(S)
  <2> SUFFICES ASSUME ~HasMaximum(S) PROVE FALSE  OBVIOUS
  <2>1. S \in Bad  OBVIOUS
  <2>2. Cardinality(S) \in Sizes /\ Sizes \subseteq Nat  BY <1>1, <2>1
  <2>3. PICK n \in Sizes : \A m \in Sizes : n <= m
    <3> HIDE DEF Sizes
    <3> QED BY <2>2, LeastElement
  <2>4. PICK T \in Bad : Cardinality(T) = n  BY <2>3
  <2>5. PICK x \in T : TRUE  BY <2>4
  <2> DEFINE R == T \ {x}
  <2>6. IsFiniteSet(T) /\ T \in SUBSET S /\ x \in Int /\ R \in SUBSET S  BY <1>1, <2>4, <2>5
  <2>7. Cardinality(R) = n - 1 /\ n \in Nat /\ Cardinality(R) \in Nat
    BY <1>1, <2>2, <2>3, <2>4, <2>5, <2>6, FS_RemoveElement
  <2>8. R \notin Bad
    <3> SUFFICES ASSUME R \in Bad PROVE FALSE  OBVIOUS
    <3>1. n - 1 \in Sizes  BY <2>7
    <3> QED BY <2>3, <2>7, <3>1
  <2>9. CASE R = {}
    <3>1. \A y \in T : y = x  BY <2>9
    <3>2. HasMaximum(T)  BY <2>5, <2>6, <3>1 DEF HasMaximum
    <3> QED BY <2>4, <3>2
  <2>10. CASE R # {}
    <3>1. PICK z \in R : \A y \in R : z >= y  BY <2>6, <2>8, <2>10 DEF HasMaximum
    <3>2. z \in Int /\ z \in T /\ \A y \in T : y \in Int /\ (y = x \/ y \in R)  BY <2>6, <3>1
    <3>3. CASE z >= x
      <4>1. \A y \in T : z >= y  BY <3>1, <3>2, <3>3
      <4> QED BY <2>4, <3>2, <4>1 DEF HasMaximum
    <3>4. CASE ~(z >= x)
      <4>1. \A y \in T : x >= y  BY <2>6, <3>1, <3>2, <3>4
      <4> QED BY <2>4, <2>5, <4>1 DEF HasMaximum
    <3> QED BY <3>3, <3>4
  <2> QED BY <2>9, <2>10
<1> QED BY <1>2 DEF HasMaximum, Max

LEMMA LeastOfNaturals ==
  ASSUME NEW S \in SUBSET Nat, S # {}
  PROVE  Min(S) \in S /\ \A y \in S : Min(S) <= y
<1>1. \E n \in S : \A m \in S : n <= m  BY LeastElement
<1> QED BY <1>1 DEF Min

\* Rows and samples of a job.
LEMMA JobFacts ==
  ASSUME job \in Jobs
  PROVE  /\ job.nWLayers \in Nat \ {0} /\ job.cpus \in Nat \ {0} /\ job.memory \in Nat /\ job.wLimit \in Nat
         /\ job.kind \in {"invert", "predict"} /\ job.isComplex \in BOOLEAN
         /\ job.sets \in Seq(Seq(UVRow)) /\ job.sets # <<>> /\ Len(job.sets) \in Nat \ {0}
         /\ DOMAIN job.sets = 1 .. Len(job.sets)
<1>1. job.sets \in Seq(Seq(UVRow)) /\ job.sets # <<>>  BY JobsAssumption
<1>2. Len(job.sets) \in Nat /\ Len(job.sets) # 0 /\ DOMAIN job.sets = 1 .. Len(job.sets)
  BY <1>1, LenProperties, EmptySeq
<1> QED BY <1>1, <1>2, JobsAssumption

LEMMA RowFacts ==
  ASSUME job \in Jobs, NEW set \in DOMAIN job.sets
  PROVE  /\ Rows(set) \in Seq(UVRow) /\ Len(Rows(set)) \in Nat /\ DOMAIN Rows(set) = 1 .. Len(Rows(set))
         /\ \A r \in DOMAIN Rows(set) :
              /\ Rows(set)[r].w \in Seq(Int) /\ Len(Rows(set)[r].w) \in Nat \ {0}
              /\ Channels(set, r) = 1 .. Len(Rows(set)[r].w)
<1>1. Rows(set) \in Seq(UVRow)  BY JobFacts DEF Rows
<1>2. Len(Rows(set)) \in Nat /\ DOMAIN Rows(set) = 1 .. Len(Rows(set))  BY <1>1, LenProperties
<1>3. ASSUME NEW r \in DOMAIN Rows(set)
      PROVE  /\ Rows(set)[r].w \in Seq(Int) /\ Len(Rows(set)[r].w) \in Nat \ {0}
             /\ Channels(set, r) = 1 .. Len(Rows(set)[r].w)
  <2>1. Rows(set)[r] \in UVRow  BY <1>1, <1>2
  <2>2. Rows(set)[r].w \in Seq(Int) /\ Rows(set)[r].w # <<>>  BY <2>1 DEF UVRow
  <2> QED BY <2>2, LenProperties, EmptySeq DEF Channels, Rows
<1> QED BY <1>1, <1>2, <1>3

LEMMA SampleFacts ==
  ASSUME job \in Jobs, NEW s \in Samples
  PROVE  /\ s[1] \in DOMAIN job.sets /\ s[2] \in DOMAIN Rows(s[1]) /\ s[3] \in Channels(s[1], s[2])
         /\ s = <<s[1], s[2], s[3]>> /\ s[1] \in Nat /\ s[2] \in Nat /\ s[3] \in Nat /\ s # Nothing
         /\ W(s) \in Int
<1>0. PICK set \in DOMAIN job.sets : \E r \in DOMAIN Rows(set) : \E ch \in Channels(set, r) : s = SampleAt(set, r, ch)
  BY DEF Samples
<1>00. PICK r \in DOMAIN Rows(set) : \E ch \in Channels(set, r) : s = SampleAt(set, r, ch)  BY <1>0
<1>1. PICK ch \in Channels(set, r) : s = SampleAt(set, r, ch)  BY <1>00
<1>2. s = <<set, r, ch>>  BY <1>1 DEF SampleAt
<1>3. s[1] = set /\ s[2] = r /\ s[3] = ch  BY <1>2
<1>4. set \in Nat /\ r \in Nat /\ ch \in Nat
  <2>1. DOMAIN job.sets \subseteq Nat /\ DOMAIN Rows(set) \subseteq Nat  BY JobFacts, RowFacts
  <2>2. Len(Rows(set)[r].w) \in Nat /\ Channels(set, r) = 1 .. Len(Rows(set)[r].w)  BY RowFacts
  <2> QED BY <2>1, <2>2
<1>5. W(s) \in Int  BY <1>1, <1>3, RowFacts DEF W, Rows, Channels
<1>6. s # Nothing  BY <1>2 DEF Nothing
<1> QED BY <1>1, <1>2, <1>3, <1>4, <1>5, <1>6

LEMMA SamplesAreSamples ==
  ASSUME NEW set \in DOMAIN job.sets, NEW r \in DOMAIN Rows(set), NEW ch \in Channels(set, r)
  PROVE  SampleAt(set, r, ch) \in Samples  BY DEF Samples

LEMMA SamplesFinite ==
  ASSUME job \in Jobs
  PROVE  IsFiniteSet(Samples)
<1> DEFINE OfRow(set, r) == {SampleAt(set, r, ch) : ch \in Channels(set, r)}
           OfSet(set) == UNION {OfRow(set, r) : r \in DOMAIN Rows(set)}
<1>1. ASSUME NEW set \in DOMAIN job.sets, NEW r \in DOMAIN Rows(set) PROVE IsFiniteSet(OfRow(set, r))
  <2> DEFINE f == [ch \in Channels(set, r) |-> SampleAt(set, r, ch)]
  <2>0. Len(Rows(set)[r].w) \in Nat /\ Channels(set, r) = 1 .. Len(Rows(set)[r].w)  BY <1>1, RowFacts
  <2>1. IsFiniteSet(Channels(set, r))  BY <2>0, FS_Interval
  <2>2. f \in Surjection(Channels(set, r), OfRow(set, r))  BY DEF Surjection
  <2> HIDE DEF f
  <2> QED BY <2>1, <2>2, FS_Surjection
<1>2. ASSUME NEW set \in DOMAIN job.sets PROVE IsFiniteSet(OfSet(set))
  <2> DEFINE f == [r \in DOMAIN Rows(set) |-> OfRow(set, r)]
             T == {OfRow(set, r) : r \in DOMAIN Rows(set)}
  <2>1. IsFiniteSet(DOMAIN Rows(set))  BY <1>2, RowFacts, FS_Interval
  <2>2. f \in Surjection(DOMAIN Rows(set), T)  BY DEF Surjection
  <2>3. IsFiniteSet(T)
    <3> HIDE DEF f, T
    <3> QED BY <2>1, <2>2, FS_Surjection
  <2>4. \A x \in T : IsFiniteSet(x)
    <3> HIDE DEF OfRow
    <3> QED BY <1>1, <1>2
  <2> HIDE DEF T
  <2>5. IsFiniteSet(UNION T)  BY <2>3, <2>4, FS_UNION
  <2> QED BY <2>5 DEF T
<1> DEFINE g == [set \in DOMAIN job.sets |-> OfSet(set)]
           U == {OfSet(set) : set \in DOMAIN job.sets}
<1>3. IsFiniteSet(DOMAIN job.sets)  BY JobFacts, FS_Interval
<1>4. g \in Surjection(DOMAIN job.sets, U)
  <2> HIDE DEF OfSet
  <2> QED BY DEF Surjection
<1>5. IsFiniteSet(U)
  <2> HIDE DEF g, U
  <2> QED BY <1>3, <1>4, FS_Surjection
<1>6. \A x \in U : IsFiniteSet(x)
  <2> HIDE DEF OfSet
  <2> QED BY <1>2
<1>7. Samples = UNION U  BY DEF Samples
<1> HIDE DEF U
<1> QED BY <1>5, <1>6, <1>7, FS_UNION

\* The limits of w are naturals.
LEMMA LimitsOfW ==
  ASSUME job \in Jobs
  PROVE  MinW \in Nat /\ MaxW \in Nat /\ MinW <= MaxW
<1>1. LimitingWs \subseteq Nat /\ IsFiniteSet(LimitingWs)
  <2> DEFINE T == {x \in Samples : Weight(x) # 0 /\ Place(x) \in {"inside"}}
             f == [s \in T |-> Absolute(W(s))]
  <2>1. IsFiniteSet(T)  BY SamplesFinite, FS_Subset
  <2>2. LimitingWs = {Absolute(W(s)) : s \in T}  BY DEF LimitingWs, WithPlaces
  <2>3. f \in Surjection(T, LimitingWs)  BY <2>2 DEF Surjection
  <2>4. \A s \in T : W(s) \in Int  BY SampleFacts
  <2>5. \A k \in Int : Absolute(k) \in Nat  BY DEF Absolute
  <2> HIDE DEF T, f
  <2>6. IsFiniteSet(LimitingWs)  BY <2>1, <2>3, FS_Surjection
  <2> QED BY <2>2, <2>4, <2>5, <2>6
<1>2. CASE LimitingWs = {}  BY <1>2 DEF MinW, MaxW
<1>3. CASE LimitingWs # {}
  <2>1. MinW \in Nat  BY <1>1, <1>3, LeastOfNaturals DEF MinW
  <2>2. Max(LimitingWs) \in Nat
    <3>1. LimitingWs \in SUBSET Int  BY <1>1
    <3> QED BY <1>1, <1>3, <3>1, FiniteMaximum
  <2> DEFINE reduced == Max(LimitingWs) - (Max(LimitingWs) * job.wLimit) \div 100
  <2>3. (Max(LimitingWs) * job.wLimit) \div 100 \in Int
    <3>1. Max(LimitingWs) * job.wLimit \in Nat  BY <2>2, JobFacts
    <3> QED BY <3>1
  <2>4. reduced \in Int  BY <2>2, <2>3
  <2>5. MaxW = AtLeast(MinW, reduced)  BY <1>3 DEF MaxW
  <2> HIDE DEF reduced
  <2> QED BY <2>1, <2>4, <2>5 DEF AtLeast
<1> QED BY <1>2, <1>3

LEMMA LimitsHold ==
  ASSUME job \in Jobs
  PROVE  /\ PrepareWLayers.minW \in Nat /\ PrepareWLayers.maxW \in Nat
         /\ PrepareWLayers.minW < PrepareWLayers.maxW
         /\ PrepareWLayers.perPass \in Nat \ {0}
         /\ PrepareWLayers.nPasses = PassesNeeded(PrepareWLayers.perPass)
         /\ PrepareWLayers.nPasses \in Nat \ {0}
         /\ PrepareWLayers.nFFTThreads \in Nat \ {0}
<1>1. job.nWLayers \in Nat \ {0} /\ job.cpus \in Nat \ {0} /\ job.memory \in Nat  BY JobFacts
<1>2. /\ PrepareWLayers.perPass \in Nat \ {0}
      /\ PrepareWLayers.nPasses = PassesNeeded(PrepareWLayers.perPass)  BY RoomForALayer
<1>3. PrepareWLayers.minW \in Nat /\ PrepareWLayers.maxW \in Nat /\ PrepareWLayers.minW < PrepareWLayers.maxW
  <2>1. PrepareWLayers.minW = MinW /\ PrepareWLayers.maxW = IF MinW = MaxW THEN MaxW + 1 ELSE MaxW
    BY DEF PrepareWLayers
  <2> QED BY <2>1, LimitsOfW
<1>4. PrepareWLayers.nFFTThreads \in Nat \ {0}
  <2> DEFINE isLow == job.memory - 5 * AtMost(job.cpus, job.nWLayers) <= job.cpus
             few == (3 * job.memory) \div 25
  <2>1. PrepareWLayers.nFFTThreads = IF isLow THEN AtLeast(1, few) ELSE job.cpus  BY DEF PrepareWLayers
  <2>2. few \in Int  BY <1>1
  <2> HIDE DEF isLow, few
  <2>3. AtLeast(1, few) \in Nat \ {0}  BY <2>2 DEF AtLeast
  <2> QED BY <1>1, <2>1, <2>3
<1>5. PassesNeeded(PrepareWLayers.perPass) \in Nat \ {0}  BY <1>1, <1>2, EnoughPasses DEF PassesNeeded
<1> QED BY <1>2, <1>3, <1>4, <1>5

\* A layer is a natural number, also when it is one that wrapped around.
LEMMA RoundedIsNatural ==
  ASSUME NEW a \in Int, NEW b \in Nat \ {0}
  PROVE  Rounded(a, b) \in Nat
<1>1. CASE a >= 0
  <2>1. 2 * a + b \in Nat /\ 2 * b \in Nat \ {0}  BY <1>1
  <2>2. (2 * a + b) \div (2 * b) \in Nat  BY <2>1, Quotient
  <2> QED BY <1>1, <2>2 DEF Rounded
<1>2. CASE ~(a >= 0)
  <2> DEFINE k == (b - 2 * a) \div (2 * b)
  <2>1. b - 2 * a \in Nat /\ 2 * b \in Nat \ {0}  BY <1>2
  <2>2. k \in Nat  BY <2>1, Quotient
  <2>3. Rounded(a, b) = (-k) % SizeMax  BY <1>2 DEF Rounded
  <2> HIDE DEF k
  <2>4. (-k) % 65536 \in Nat  BY <2>2
  <2> QED BY <2>3, <2>4 DEF SizeMax
<1> QED BY <1>1, <1>2

LEMMA LayerIsNatural ==
  ASSUME job \in Jobs, Limits, NEW w \in Int
  PROVE  WToLayer(w) \in Nat
<1> DEFINE n == job.nWLayers
<1>1. n \in Nat \ {0} /\ gridder.minW \in Nat /\ gridder.maxW \in Nat /\ gridder.minW < gridder.maxW
  BY JobFacts DEF Limits
<1>2. Absolute(w) \in Nat  BY DEF Absolute
<1>3. Rounded((w + gridder.maxW) * (n - 1), 2 * gridder.maxW) \in Nat
  <2>1. (w + gridder.maxW) * (n - 1) \in Int /\ 2 * gridder.maxW \in Nat \ {0}  BY <1>1
  <2> QED BY <2>1, RoundedIsNatural
<1>4. Rounded((Absolute(w) - gridder.minW) * (n - 1), gridder.maxW - gridder.minW) \in Nat
  <2>1. (Absolute(w) - gridder.minW) * (n - 1) \in Int /\ gridder.maxW - gridder.minW \in Nat \ {0}  BY <1>1, <1>2
  <2> QED BY <2>1, RoundedIsNatural
<1> QED BY <1>3, <1>4 DEF WToLayer

\* Where the passes begin and end.
LEMMA Ranges ==
  ASSUME job \in Jobs, Limits
  PROVE  /\ gridder.nPasses \in Nat \ {0}
         /\ LayerRangeStart(0) = 0 /\ LayerRangeStart(gridder.nPasses) = job.nWLayers
         /\ \A p \in Nat : LayerRangeStart(p) \in Nat /\ LayerRangeStart(p) <= LayerRangeStart(p + 1)
         /\ \A p \in 0 .. gridder.nPasses : LayerRangeStart(p) <= job.nWLayers
<1> DEFINE n == job.nWLayers
           P == gridder.nPasses
<1>1. n \in Nat \ {0} /\ gridder.perPass \in Nat \ {0}  BY JobFacts DEF Limits
<1>2. P \in Nat \ {0}  BY <1>1, EnoughPasses DEF Limits, PassesNeeded
<1>3. \A p : LayerRangeStart(p) = (n * p) \div P  BY DEF LayerRangeStart
<1> HIDE DEF n, P
<1>4. (n * 0) \div P = 0  BY <1>1, <1>2
<1>5. (n * P) \div P = n
  <2> DEFINE q == (n * P) \div P
  <2>1. n * P \in Nat  BY <1>1, <1>2
  <2>2. q \in Nat /\ P * q <= n * P /\ n * P < P * q + P  BY <1>2, <2>1, Quotient
  <2> HIDE DEF q
  <2>3. n * P < P * (q + 1) /\ P * (q + 1) = (q + 1) * P /\ P * q = q * P  BY <1>2, <2>2
  <2>4. n < q + 1 /\ q <= n  BY <1>1, <1>2, <2>2, <2>3
  <2>5. q = n  BY <1>1, <2>2, <2>4
  <2> QED BY <2>5 DEF q
<1>6. ASSUME NEW p \in Nat PROVE (n * p) \div P \in Nat /\ (n * p) \div P <= (n * (p + 1)) \div P
  <2> DEFINE a == (n * p) \div P
             b == (n * (p + 1)) \div P
  <2>1. n * p \in Nat /\ n * (p + 1) \in Nat /\ n * p <= n * (p + 1)  BY <1>1
  <2>2. a \in Nat /\ P * a <= n * p  BY <1>2, <2>1, Quotient
  <2>3. b \in Nat /\ n * (p + 1) < P * b + P  BY <1>2, <2>1, Quotient
  <2> HIDE DEF a, b
  <2>4. P * a < P * b + P /\ P * b + P = P * (b + 1)  BY <1>2, <2>1, <2>2, <2>3
  <2>5. a < b + 1  BY <1>2, <2>2, <2>3, <2>4
  <2> QED BY <2>2, <2>3, <2>5 DEF a, b
<1>7. ASSUME NEW p \in 0 .. P PROVE (n * p) \div P <= n
  <2> DEFINE q == (n * p) \div P
  <2>1. n * p \in Nat /\ n * p <= n * P  BY <1>1, <1>2
  <2>2. q \in Nat /\ P * q <= n * p  BY <1>2, <2>1, Quotient
  <2> HIDE DEF q
  <2>3. q * P <= n * P  BY <1>1, <1>2, <2>1, <2>2
  <2>4. q <= n  BY <1>1, <1>2, <2>2, <2>3
  <2> QED BY <2>4 DEF q
<1> QED BY <1>2, <1>3, <1>4, <1>5, <1>6, <1>7 DEF n, P

----
(* Where the job is *)

LEMMA SameJob ==
  ASSUME UNCHANGED <<job, gridder>>
  PROVE  /\ Samples' = Samples /\ Expected' = Expected /\ SamplesInReach' = SamplesInReach /\ Limits' = Limits
         /\ Cpus' = Cpus /\ Threads2D' = Threads2D
         /\ \A s : Layer(s)' = Layer(s) /\ W(s)' = W(s) /\ CpuOf(s)' = CpuOf(s) /\ InPlane(s)' = InPlane(s)
         /\ \A set : Rows(set)' = Rows(set)
         /\ \A p : LayerRangeStart(p)' = LayerRangeStart(p)
<1>1. /\ Samples' = Samples /\ Limits' = Limits /\ Cpus' = Cpus /\ Threads2D' = Threads2D
      /\ \A set : Rows(set)' = Rows(set)
      /\ \A p : LayerRangeStart(p)' = LayerRangeStart(p)
  BY DEF Samples, SampleAt, Channels, Rows, Limits, PassesNeeded, Cpus, Threads2D, LayerRangeStart
<1>2. \A w : WToLayer(w)' = WToLayer(w)  BY DEF WToLayer
<1>3. \A s : W(s)' = W(s) /\ InPlane(s)' = InPlane(s) /\ Weight(s)' = Weight(s)  BY DEF W, InPlane, Place, Weight
<1>4. \A s : Layer(s)' = Layer(s) /\ HasLayer(s)' = HasLayer(s) /\ CpuOf(s)' = CpuOf(s)
  BY <1>2, <1>3 DEF Layer, HasLayer, CpuOf
<1>5. \A s : Counts(s)' = Counts(s)  BY <1>3 DEF Counts
<1>6. Expected' = Expected  BY <1>1, <1>4, <1>5 DEF Expected
<1>7. SamplesInReach' = SamplesInReach  BY <1>1, <1>2, <1>3, <1>4, <1>6 DEF SamplesInReach
<1> QED BY <1>1, <1>3, <1>4, <1>6, <1>7

LEMMA SamePass ==
  ASSUME UNCHANGED <<job, gridder, pass>>
  PROVE  /\ RangeStart' = RangeStart /\ RangeEnd' = RangeEnd /\ LayersInPass' = LayersInPass
         /\ PassLayers' = PassLayers /\ FFTThreads' = FFTThreads
         /\ \A l : IsLayerInPass(l)' = IsLayerInPass(l)
         /\ \A set, r : IsRequired(set, r)' = IsRequired(set, r)
<1>1. RangeStart' = RangeStart /\ RangeEnd' = RangeEnd  BY DEF RangeStart, RangeEnd, LayerRangeStart
<1>2. /\ LayersInPass' = LayersInPass /\ PassLayers' = PassLayers /\ FFTThreads' = FFTThreads
      /\ \A l : IsLayerInPass(l)' = IsLayerInPass(l)  BY <1>1 DEF LayersInPass, PassLayers, FFTThreads, IsLayerInPass
<1>3. \A w : WToLayer(w)' = WToLayer(w)  BY DEF WToLayer
<1>4. \A set, r : IsRequired(set, r)' = IsRequired(set, r)  BY <1>1, <1>2, <1>3 DEF IsRequired, AnyInLayerRange, Rows
<1> QED BY <1>1, <1>2, <1>4

LEMMA PassFacts ==
  ASSUME StepInv, step # "prepare"
  PROVE  /\ RangeStart \in Nat /\ RangeEnd \in Nat /\ RangeStart <= RangeEnd /\ LayersInPass \in Nat
         /\ LayersInPass = RangeEnd - RangeStart /\ pass \in Nat
         /\ FFTThreads \subseteq Threads2D /\ FFTThreads \subseteq Nat /\ 0 \in Threads2D
         /\ pass = gridder.nPasses - 1 => RangeEnd = job.nWLayers
         /\ RangeEnd <= job.nWLayers
<1>1. Limits /\ pass \in 0 .. gridder.nPasses - 1 /\ job \in Jobs  BY DEF StepInv, Position
<1>2. gridder.nPasses \in Nat /\ pass \in Nat /\ gridder.nFFTThreads \in Nat \ {0}  BY <1>1, Ranges DEF Limits
<1>3. RangeStart \in Nat /\ RangeEnd \in Nat /\ RangeStart <= RangeEnd
  <2>1. pass + 1 \in Nat  BY <1>2
  <2> QED BY <1>1, <1>2, <2>1, Ranges DEF RangeStart, RangeEnd
<1>4. LayersInPass \in Nat /\ LayersInPass = RangeEnd - RangeStart  BY <1>3 DEF LayersInPass
<1>5. FFTThreads \subseteq Threads2D /\ FFTThreads \subseteq Nat /\ 0 \in Threads2D
  BY <1>2, <1>4 DEF FFTThreads, Threads2D, AtMost
<1>6. pass = gridder.nPasses - 1 => RangeEnd = job.nWLayers
  <2>1. pass = gridder.nPasses - 1 => pass + 1 = gridder.nPasses  BY <1>2
  <2> QED BY <1>1, <2>1, Ranges DEF RangeEnd
<1>7. RangeEnd <= job.nWLayers
  <2>1. pass + 1 \in 0 .. gridder.nPasses  BY <1>1, <1>2
  <2> QED BY <1>1, <2>1, Ranges DEF RangeEnd
<1> QED BY <1>2, <1>3, <1>4, <1>5, <1>6, <1>7

\* A set of layers has a highest one.
LEMMA HighestLayer ==
  ASSUME StepInv, step # "prepare", layers \subseteq PassLayers, layers # {}
  PROVE  Max(layers) \in layers
<1>1. LayersInPass - 1 \in Int  BY PassFacts
<1>2. IsFiniteSet(PassLayers) /\ PassLayers \subseteq Int  BY <1>1, FS_Interval DEF PassLayers
<1>3. IsFiniteSet(layers) /\ layers \in SUBSET Int  BY <1>2, FS_Subset
<1> QED BY <1>3, FiniteMaximum

LEMMA StackStarts ==
  ASSUME StartTransforms, UNCHANGED <<job, gridder, pass>>
  PROVE  StackInv'
<1>1. layers' = PassLayers /\ holding' = [t \in FFTThreads |-> Nothing]  BY DEF StartTransforms, PassLayers
<1>2. PassLayers' = PassLayers /\ FFTThreads' = FFTThreads  BY SamePass
<1> QED BY <1>1, <1>2 DEF StackInv

LEMMA StackKept ==
  ASSUME StackInv, UNCHANGED <<job, gridder, pass, layers, holding>>
  PROVE  StackInv'
<1>1. PassLayers' = PassLayers /\ FFTThreads' = FFTThreads  BY SamePass
<1> QED BY <1>1 DEF StackInv

LEMMA StackTaken ==
  ASSUME StepInv, step = "transform", NEW t \in DOMAIN holding, TakeLayer(t)
  PROVE  StackInv'
<1>1. /\ holding' = [holding EXCEPT ![t] = <<Max(layers)>>] /\ layers' = layers \ {Max(layers)}
      /\ holding[t] = Nothing /\ layers # {} /\ UNCHANGED <<job, gridder, pass>>  BY DEF TakeLayer
<1>2. StackInv /\ PassLayers' = PassLayers /\ FFTThreads' = FFTThreads  BY <1>1, SamePass DEF StepInv
<1>3. Max(layers) \in layers  BY <1>1, <1>2, HighestLayer DEF StackInv
<1>4. /\ layers \subseteq PassLayers
      /\ holding \in [FFTThreads -> {Nothing} \cup {<<l>> : l \in PassLayers}]
      /\ \A u \in FFTThreads : holding[u] # Nothing =>
           /\ holding[u][1] \notin layers
           /\ \A v \in FFTThreads : holding[v] = holding[u] => v = u  BY <1>2 DEF StackInv
<1> DEFINE top == Max(layers)
<1> HIDE DEF top
<1>5. \A u \in FFTThreads : holding'[u] = IF u = t THEN <<top>> ELSE holding[u]  BY <1>1, <1>4 DEF top
<1>6. top \in layers /\ top \in PassLayers /\ layers' = layers \ {top} /\ t \in FFTThreads
  BY <1>1, <1>3, <1>4 DEF top
<1>7. holding' \in [FFTThreads -> {Nothing} \cup {<<l>> : l \in PassLayers}]  BY <1>1, <1>4, <1>6 DEF top
<1>8. ASSUME NEW u \in FFTThreads, holding'[u] # Nothing
      PROVE  /\ holding'[u][1] \notin layers'
             /\ \A v \in FFTThreads : holding'[v] = holding'[u] => v = u
  <2>1. \A v \in FFTThreads : holding[v] # <<top>>
    <3> SUFFICES ASSUME NEW v \in FFTThreads, holding[v] = <<top>> PROVE FALSE  OBVIOUS
    <3>1. holding[v] # Nothing /\ holding[v][1] = top  BY DEF Nothing
    <3> QED BY <1>4, <1>6, <3>1
  <2>2. CASE u = t
    <3>1. holding'[u] = <<top>> /\ <<top>>[1] = top  BY <1>5, <2>2
    <3>2. \A v \in FFTThreads : v # t => holding'[v] # <<top>>  BY <1>5, <2>1
    <3> QED BY <1>6, <2>2, <3>1, <3>2
  <2>3. CASE u # t
    <3>1. holding'[u] = holding[u]  BY <1>5, <2>3
    <3>2. \A v \in FFTThreads : holding'[v] = holding'[u] => v = u  BY <1>4, <1>5, <1>8, <2>1, <2>3, <3>1
    <3> QED BY <1>4, <1>6, <1>8, <3>1, <3>2
  <2> QED BY <2>2, <2>3
<1> QED BY <1>2, <1>4, <1>6, <1>7, <1>8 DEF StackInv

LEMMA StackGiven ==
  ASSUME StackInv, NEW t \in DOMAIN holding, holding' = [holding EXCEPT ![t] = Nothing],
         UNCHANGED <<job, gridder, pass, layers>>
  PROVE  StackInv'
<1>1. PassLayers' = PassLayers /\ FFTThreads' = FFTThreads  BY SamePass
<1>2. \A u \in FFTThreads : holding'[u] = IF u = t THEN Nothing ELSE holding[u]  BY DEF StackInv
<1>3. holding' \in [FFTThreads -> {Nothing} \cup {<<l>> : l \in PassLayers}]  BY DEF StackInv
<1> QED BY <1>1, <1>2, <1>3 DEF StackInv

LEMMA TransformedKept ==
  ASSUME StepInv, step = "transform", NEW t \in DOMAIN holding, TakeLayer(t)
  PROVE  \A k : IsTransformed(k)' <=> IsTransformed(k)
<1> DEFINE top == Max(layers)
<1>1. /\ holding[t] = Nothing /\ layers # {} /\ layers' = layers \ {top}
      /\ holding' = [holding EXCEPT ![t] = <<top>>] /\ UNCHANGED <<job, gridder, pass>>  BY DEF TakeLayer
<1>2. layers \subseteq PassLayers /\ DOMAIN holding = FFTThreads /\ FFTThreads' = FFTThreads
  BY <1>1, SamePass DEF StepInv, StackInv
<1>3. top \in layers  BY <1>1, <1>2, HighestLayer
<1> HIDE DEF top
<1>4. \A u \in FFTThreads : holding'[u] = IF u = t THEN <<top>> ELSE holding[u]  BY <1>1, <1>2
<1> SUFFICES ASSUME NEW k PROVE IsTransformed(k)' <=> IsTransformed(k)  OBVIOUS
<1>5. <<k>> # Nothing /\ (<<top>> = <<k>> <=> top = k)  BY DEF Nothing
<1>6. IsTransformed(k)' <=> k \notin layers' /\ \A u \in FFTThreads : holding'[u] # <<k>>  BY <1>2 DEF IsTransformed
<1>7. CASE k = top  BY <1>2, <1>3, <1>4, <1>6, <1>7 DEF IsTransformed
<1>8. CASE k # top  BY <1>1, <1>2, <1>4, <1>5, <1>6, <1>8 DEF IsTransformed
<1> QED BY <1>7, <1>8

\* A thread that is through with its layer.
LEMMA LayerIsTransformed ==
  ASSUME StepInv, step = "transform", NEW t \in DOMAIN holding, holding[t] # Nothing,
         holding' = [holding EXCEPT ![t] = Nothing], UNCHANGED <<job, gridder, pass, layers>>
  PROVE  /\ t \in FFTThreads /\ holding[t][1] \in PassLayers /\ ~IsTransformed(holding[t][1])
         /\ \A k : IsTransformed(k)' <=> IsTransformed(k) \/ k = holding[t][1]
<1> DEFINE l == holding[t][1]
<1>1. /\ layers \subseteq PassLayers
      /\ holding \in [FFTThreads -> {Nothing} \cup {<<k>> : k \in PassLayers}]
      /\ \A v \in FFTThreads : holding[v] # Nothing =>
           /\ holding[v][1] \notin layers
           /\ \A u \in FFTThreads : holding[u] = holding[v] => u = v  BY DEF StepInv, StackInv
<1>2. t \in FFTThreads  BY <1>1
<1>3. PICK own \in PassLayers : holding[t] = <<own>>  BY <1>1, <1>2
<1>4. holding[t] = <<l>> /\ l \in PassLayers /\ l \notin layers  BY <1>1, <1>2, <1>3
<1> HIDE DEF l
<1>5. \A u \in FFTThreads : holding'[u] = IF u = t THEN Nothing ELSE holding[u]  BY <1>1
<1>6. \A u \in FFTThreads : u # t => holding[u] # <<l>>  BY <1>1, <1>2, <1>4
<1>7. \A j : <<j>> # Nothing /\ (<<j>> = <<l>> <=> j = l)  BY DEF Nothing
<1>8. FFTThreads' = FFTThreads  BY SamePass
<1>9. ASSUME NEW k PROVE IsTransformed(k)' <=> IsTransformed(k) \/ k = l
  BY <1>2, <1>4, <1>5, <1>6, <1>7, <1>8 DEF IsTransformed
<1>10. ~IsTransformed(l)  BY <1>2, <1>4 DEF IsTransformed
<1> QED BY <1>2, <1>4, <1>9, <1>10 DEF l

\* Sequences that get an element, or lose one.
LEMMA Appended ==
  ASSUME NEW S, NEW q \in Seq(S), NEW e \in S
  PROVE  /\ Append(q, e) \in Seq(S) /\ Len(q) \in Nat /\ DOMAIN q = 1 .. Len(q)
         /\ \A i \in DOMAIN q : i \in DOMAIN Append(q, e) /\ Append(q, e)[i] = q[i]
         /\ Len(q) + 1 \in DOMAIN Append(q, e) /\ Append(q, e)[Len(q) + 1] = e
         /\ \A i \in DOMAIN Append(q, e) : i \in DOMAIN q \/ i = Len(q) + 1
<1>1. Len(q) \in Nat /\ DOMAIN q = 1 .. Len(q)  BY LenProperties
<1> QED BY <1>1, AppendProperties

LEMMA WithoutHead ==
  ASSUME NEW S, NEW q \in Seq(S), q # <<>>
  PROVE  /\ Tail(q) \in Seq(S) /\ Head(q) \in S /\ Head(q) = q[1] /\ 1 \in DOMAIN q
         /\ \A i \in DOMAIN Tail(q) : i \in Nat \ {0} /\ i + 1 \in DOMAIN q /\ Tail(q)[i] = q[i + 1]
         /\ \A i \in DOMAIN q : i = 1 \/ (i - 1 \in DOMAIN Tail(q) /\ Tail(q)[i - 1] = q[i])
<1>1. Len(q) \in Nat \ {0} /\ DOMAIN q = 1 .. Len(q)  BY LenProperties, EmptySeq
<1>2. Tail(q) \in Seq(S) /\ Head(q) \in S /\ Head(q) = q[1] /\ 1 \in DOMAIN q /\ DOMAIN Tail(q) = 1 .. Len(q) - 1
  <2>1. Tail(q) \in Seq(S) /\ Len(Tail(q)) = Len(q) - 1  BY <1>1, HeadTailProperties
  <2>2. DOMAIN Tail(q) = 1 .. Len(Tail(q))  BY <2>1, LenProperties
  <2> QED BY <1>1, <2>1, <2>2, HeadTailProperties
<1>3. \A i \in DOMAIN Tail(q) : i \in Nat \ {0} /\ i + 1 \in DOMAIN q /\ Tail(q)[i] = q[i + 1]
  BY <1>1, <1>2, HeadTailProperties
<1>4. ASSUME NEW i \in DOMAIN q, i # 1 PROVE i - 1 \in DOMAIN Tail(q) /\ Tail(q)[i - 1] = q[i]
  <2>1. i - 1 \in DOMAIN Tail(q) /\ (i - 1) + 1 = i  BY <1>1, <1>2, <1>4
  <2> QED BY <1>3, <2>1
<1> QED BY <1>2, <1>3, <1>4

LEMMA StepStarts == PipelineInit => StepInv  BY DEF PipelineInit, StepInv

\* The next pass, or the end.
LEMMA PassEnds ==
  ASSUME StepInv, step # "prepare", NextPass, UNCHANGED <<job, gridder>>
  PROVE  StepInv'
<1>1. Limits' /\ job' \in Jobs  BY SameJob DEF StepInv
<1>2. gridder.nPasses \in Nat \ {0} /\ pass \in 0 .. gridder.nPasses - 1  BY Ranges DEF StepInv, Position
<1>3. CASE pass + 1 < gridder.nPasses
  <2>1. step' = "startPass" /\ pass' = pass + 1  BY <1>3 DEF NextPass
  <2>2. pass' \in 0 .. gridder'.nPasses - 1  BY <1>2, <1>3, <2>1
  <2> QED BY <1>1, <2>1, <2>2 DEF StepInv, Position, Gridding
<1>4. CASE ~(pass + 1 < gridder.nPasses)
  <2>1. step' = "finalize" /\ pass' = pass  BY <1>4 DEF NextPass
  <2>2. pass' = gridder'.nPasses - 1 /\ pass' \in 0 .. gridder'.nPasses - 1  BY <1>2, <1>4, <2>1
  <2> QED BY <1>1, <2>1, <2>2 DEF StepInv, Position, Gridding
<1> QED BY <1>3, <1>4

LEMMA StepKept ==
  ASSUME StepInv, [PipelineNext]_pipelineVars
  PROVE  StepInv'
<1>1. job \in Jobs /\ (step # "prepare" => Limits /\ Position) /\ (step = "transform" => StackInv)  BY DEF StepInv
<1>2. CASE UNCHANGED pipelineVars
  <2>1. /\ UNCHANGED <<job, gridder, step, pass, ms, row, channel, layers, holding, weighed, predicted>>
        /\ Samples' = Samples /\ Limits' = Limits  BY <1>2, SameJob DEF pipelineVars
  <2>2. Position => Position'
    <3>1. \A set, r : IsRequired(set, r)' = IsRequired(set, r) /\ Rows(set)' = Rows(set) /\ Channels(set, r)' = Channels(set, r)
      BY <2>1, SamePass, SameJob DEF Channels
    <3> QED BY <2>1, <3>1 DEF Position, Gridding
  <2> QED BY <1>1, <2>1, <2>2, StackKept DEF StepInv
<1>3. CASE Prepare
  <2>1. step' = "startPass" /\ gridder' = PrepareWLayers /\ pass' = 0 /\ job' = job  BY <1>3 DEF Prepare, StepInv
  <2>2. Limits'  BY <1>1, <2>1, LimitsHold DEF Limits, PassesNeeded
  <2>3. gridder'.nPasses \in Nat \ {0}  BY <1>1, <2>1, LimitsHold
  <2>4. Position'  BY <2>1, <2>3 DEF Position, Gridding
  <2> QED BY <1>1, <2>1, <2>2, <2>4 DEF StepInv
<1>4. CASE PipelineNext /\ ~Prepare
  <2>1. step # "prepare" /\ UNCHANGED <<job, gridder>>
    BY <1>4 DEF PipelineNext, MainStep, StartInversionPass, StartPredictionPass, SkipRow, ReadRow, SendSample, EndOfSet,
         JoinWorkers, FinishInversionPass, FinishTransforms, QueueRow, JoinPrediction, Finalize,
         WorkerStep, TakeSample, AddDataSample, TakeLayer, TransformToImage, TransformToGrid, TakeRow, PassOnRow,
         WriteRow, PipelineOver, pipelineVars, Working, Transforming, Calculating
  <2>2. Limits /\ Limits' /\ Position /\ job \in Jobs /\ job' \in Jobs  BY <1>1, <2>1, SameJob
  <2>3. /\ \A set : Rows(set)' = Rows(set)
        /\ \A set, r : Channels(set, r)' = Channels(set, r)  BY <2>1, SameJob DEF Channels
  <2>4. pass' = pass => \A set, r : IsRequired(set, r)' = IsRequired(set, r)  BY <2>1, SamePass
  <2>5. DOMAIN job.sets = 1 .. Len(job.sets) /\ Len(job.sets) \in Nat \ {0} /\ job'.sets = job.sets
    BY <2>1, <2>2, JobFacts
  <2>6. \A set \in DOMAIN job.sets : Len(Rows(set)) \in Nat /\ DOMAIN Rows(set) = 1 .. Len(Rows(set))
    BY <2>2, RowFacts
  <2>7. \A set \in DOMAIN job.sets : \A r \in DOMAIN Rows(set) :
          Len(Rows(set)[r].w) \in Nat \ {0} /\ Channels(set, r) = 1 .. Len(Rows(set)[r].w)  BY <2>2, RowFacts
  <2>8. pass \in 0 .. gridder.nPasses - 1  BY <2>2 DEF Position
  <2>9. CASE StartInversionPass
    <3>1. step' = "read" /\ ms' = 1 /\ row' = 1 /\ pass' = pass /\ job.kind = "invert"
      BY <2>9 DEF StartInversionPass, StartWorkers
    <3>2. 1 \in DOMAIN job.sets  BY <2>5
    <3>3. 1 \in 1 .. Len(Rows(1)) + 1  BY <2>6, <3>2
    <3>4. Position'  BY <2>1, <2>3, <2>5, <2>8, <3>1, <3>2, <3>3 DEF Position, Gridding
    <3> QED BY <2>2, <3>1, <3>4 DEF StepInv
  <2>10. CASE StartPredictionPass
    <3>1. step' = "transform" /\ pass' = pass  BY <2>10 DEF StartPredictionPass, StartTransforms
    <3>2. StackInv'  BY <2>1, <2>10, <3>1, StackStarts DEF StartPredictionPass
    <3>3. Position'  BY <2>1, <2>8, <3>1 DEF Position, Gridding
    <3> QED BY <2>2, <3>1, <3>2, <3>3 DEF StepInv
  <2>11. CASE SkipRow
    <3>1. step = "read" /\ step' = "read" /\ row <= Len(Rows(ms)) /\ row' = row + 1 /\ UNCHANGED <<pass, ms>>
      BY <2>11 DEF SkipRow
    <3>2. ms \in DOMAIN job.sets /\ row \in 1 .. Len(Rows(ms)) + 1 /\ job.kind = "invert"
      BY <2>2, <3>1 DEF Position, Gridding
    <3>3. row' \in 1 .. Len(Rows(ms)) + 1  BY <2>6, <3>1, <3>2
    <3>4. Position'  BY <2>1, <2>3, <2>5, <2>8, <3>1, <3>2, <3>3 DEF Position, Gridding
    <3> QED BY <2>2, <3>1, <3>4 DEF StepInv
  <2>12. CASE ReadRow
    <3>1. step = "read" /\ step' = "send" /\ row <= Len(Rows(ms)) /\ channel' = 1 /\ IsRequired(ms, row) /\ UNCHANGED <<pass, ms, row>>
      BY <2>12 DEF ReadRow
    <3>2. ms \in DOMAIN job.sets /\ row \in 1 .. Len(Rows(ms)) + 1 /\ job.kind = "invert"
      BY <2>2, <3>1 DEF Position, Gridding
    <3>3. row \in DOMAIN Rows(ms)  BY <2>6, <3>1, <3>2
    <3>4. 1 \in Channels(ms, row)  BY <2>7, <3>2, <3>3
    <3>5. Position'  BY <2>1, <2>3, <2>4, <2>5, <2>8, <3>1, <3>2, <3>3, <3>4 DEF Position, Gridding
    <3> QED BY <2>2, <3>1, <3>5 DEF StepInv
  <2>13. CASE SendSample
    <3>1. /\ step = "send" /\ UNCHANGED <<pass, ms>>
          /\ IF channel < Len(Rows(ms)[row].w)
               THEN channel' = channel + 1 /\ UNCHANGED <<row, step>>
               ELSE row' = row + 1 /\ step' = "read"  BY <2>13 DEF SendSample
    <3>2. /\ ms \in DOMAIN job.sets /\ row \in DOMAIN Rows(ms) /\ channel \in Channels(ms, row) /\ IsRequired(ms, row)
          /\ job.kind = "invert" /\ row \in 1 .. Len(Rows(ms)) + 1  BY <2>2, <3>1 DEF Position, Gridding
    <3>3. CASE channel < Len(Rows(ms)[row].w)
      <4>1. channel' = channel + 1 /\ row' = row /\ step' = "send"  BY <3>1, <3>3
      <4>2. channel' \in Channels(ms, row)  BY <2>7, <3>2, <3>3, <4>1
      <4>3. Position'  BY <2>1, <2>3, <2>4, <2>5, <2>8, <3>1, <3>2, <4>1, <4>2 DEF Position, Gridding
      <4> QED BY <2>2, <4>1, <4>3 DEF StepInv
    <3>4. CASE ~(channel < Len(Rows(ms)[row].w))
      <4>1. row' = row + 1 /\ step' = "read"  BY <3>1, <3>4
      <4>2. row' \in 1 .. Len(Rows(ms)) + 1  BY <2>6, <3>2, <4>1
      <4>3. Position'  BY <2>1, <2>3, <2>5, <2>8, <3>1, <3>2, <4>1, <4>2 DEF Position, Gridding
      <4> QED BY <2>2, <4>1, <4>3 DEF StepInv
    <3> QED BY <3>3, <3>4
  <2>14. CASE EndOfSet
    <3>1. step = "read" /\ step' = "joinWorkers" /\ row > Len(Rows(ms)) /\ UNCHANGED <<pass, ms, row>>
      BY <2>14 DEF EndOfSet
    <3>2. ms \in DOMAIN job.sets /\ row \in 1 .. Len(Rows(ms)) + 1 /\ job.kind = "invert"
      BY <2>2, <3>1 DEF Position, Gridding
    <3>3. row = Len(Rows(ms)) + 1  BY <2>6, <3>1, <3>2
    <3>4. Position'  BY <2>1, <2>3, <2>5, <2>8, <3>1, <3>2, <3>3 DEF Position, Gridding
    <3> QED BY <2>2, <3>1, <3>4 DEF StepInv
  <2>15. CASE JoinWorkers
    <3>1. step = "joinWorkers" /\ pass' = pass  BY <2>15 DEF JoinWorkers
    <3>2. ms \in DOMAIN job.sets /\ job.kind = "invert"  BY <2>2, <3>1 DEF Position, Gridding
    <3>3. CASE ms < Len(job.sets)
      <4>1. ms' = ms + 1 /\ row' = 1 /\ step' = "read"  BY <2>15, <3>3 DEF JoinWorkers, StartWorkers
      <4>2. ms' \in DOMAIN job.sets  BY <2>5, <3>2, <3>3, <4>1
      <4>3. row' \in 1 .. Len(Rows(ms')) + 1  BY <2>6, <4>1, <4>2
      <4>4. Position'  BY <2>1, <2>3, <2>5, <2>8, <3>1, <3>2, <4>1, <4>2, <4>3 DEF Position, Gridding
      <4> QED BY <2>2, <4>1, <4>4 DEF StepInv
    <3>4. CASE ~(ms < Len(job.sets))
      <4>1. StartTransforms /\ step' = "transform"  BY <2>15, <3>4 DEF JoinWorkers, StartTransforms
      <4>2. StackInv'  BY <2>1, <3>1, <4>1, StackStarts
      <4>3. Position'  BY <2>1, <2>8, <3>1, <4>1 DEF Position, Gridding
      <4> QED BY <2>2, <4>1, <4>2, <4>3 DEF StepInv
    <3> QED BY <3>3, <3>4
  <2>16. CASE FinishInversionPass  BY <1>1, <2>1, <2>16, PassEnds DEF FinishInversionPass
  <2>17. CASE FinishTransforms
    <3>1. step' = "queue" /\ ms' = 1 /\ row' = 1 /\ pass' = pass /\ job.kind = "predict"
      BY <2>17 DEF FinishTransforms, StartCalculating
    <3>2. 1 \in DOMAIN job.sets  BY <2>5
    <3>3. 1 \in 1 .. Len(Rows(1)) + 1  BY <2>6, <3>2
    <3>4. Position'  BY <2>1, <2>3, <2>5, <2>8, <3>1, <3>2, <3>3 DEF Position, Gridding
    <3> QED BY <2>2, <3>1, <3>4 DEF StepInv
  <2>18. CASE QueueRow
    <3>1. step = "queue" /\ step' = "queue" /\ row <= Len(Rows(ms)) /\ row' = row + 1 /\ UNCHANGED <<pass, ms>>
      BY <2>18 DEF QueueRow
    <3>2. ms \in DOMAIN job.sets /\ row \in 1 .. Len(Rows(ms)) + 1 /\ job.kind = "predict"  BY <2>2, <3>1 DEF Position
    <3>3. row' \in 1 .. Len(Rows(ms)) + 1  BY <2>6, <3>1, <3>2
    <3>4. Position'  BY <2>1, <2>3, <2>5, <2>8, <3>1, <3>2, <3>3 DEF Position, Gridding
    <3> QED BY <2>2, <3>1, <3>4 DEF StepInv
  <2>19. CASE JoinPrediction
    <3>1. step = "queue" /\ job.kind = "predict" /\ ms \in DOMAIN job.sets
      BY <2>2, <2>19 DEF JoinPrediction, Calculating, Position
    <3>2. CASE ms < Len(job.sets)
      <4>1. ms' = ms + 1 /\ row' = 1 /\ step' = "queue" /\ pass' = pass
        BY <2>19, <3>1, <3>2 DEF JoinPrediction, StartCalculating
      <4>2. ms' \in DOMAIN job.sets  BY <2>5, <3>1, <3>2, <4>1
      <4>3. row' \in 1 .. Len(Rows(ms')) + 1  BY <2>6, <4>1, <4>2
      <4>4. Position'  BY <2>1, <2>3, <2>5, <2>8, <3>1, <4>1, <4>2, <4>3 DEF Position, Gridding
      <4> QED BY <2>2, <4>1, <4>4 DEF StepInv
    <3>3. CASE ~(ms < Len(job.sets))  BY <2>1, <2>19, <3>3, PassEnds DEF JoinPrediction
    <3> QED BY <3>2, <3>3
  <2>20. CASE Finalize
    <3>1. step = "finalize" /\ step' = "done" /\ pass' = pass  BY <2>20 DEF Finalize
    <3>2. Position'  BY <2>1, <2>2, <3>1 DEF Position, Gridding
    <3> QED BY <2>2, <3>1, <3>2 DEF StepInv
  <2>21. ASSUME UNCHANGED <<step, pass, ms, row, channel>>, step # "transform" PROVE StepInv'
    <3>1. Position'  BY <2>1, <2>2, <2>3, <2>4, <2>21 DEF Position, Gridding
    <3> QED BY <1>1, <2>1, <2>2, <2>21, <3>1 DEF StepInv
  <2>22. ASSUME NEW c, TakeSample(c) \/ AddDataSample(c) \/ TakeRow(c) \/ PassOnRow(c) PROVE StepInv'
    BY <2>21, <2>22 DEF TakeSample, AddDataSample, TakeRow, PassOnRow, Working, Calculating
  <2>23. CASE WriteRow  BY <2>21, <2>23 DEF WriteRow, Calculating
  <2>24. ASSUME NEW t \in DOMAIN holding, TakeLayer(t) \/ TransformToImage(t) \/ TransformToGrid(t) PROVE StepInv'
    <3>1. step = "transform" /\ UNCHANGED <<step, pass, ms, row, channel>>
      BY <2>24 DEF TakeLayer, TransformToImage, TransformToGrid, Transforming
    <3>2. StackInv'
      <4>1. CASE TakeLayer(t)  BY <3>1, <4>1, StackTaken
      <4>2. CASE TransformToImage(t) \/ TransformToGrid(t)
        <5>1. holding' = [holding EXCEPT ![t] = Nothing] /\ UNCHANGED <<job, gridder, pass, layers>> /\ StackInv
          BY <1>1, <3>1, <4>2 DEF TransformToImage, TransformToGrid
        <5> QED BY <5>1, StackGiven
      <4> QED BY <2>24, <4>1, <4>2
    <3>3. Position'  BY <2>1, <2>2, <3>1 DEF Position, Gridding
    <3> QED BY <2>2, <3>1, <3>2, <3>3 DEF StepInv
  <2>25. CASE PipelineOver  BY <1>2, <2>25 DEF PipelineOver
  <2> QED BY <1>4, <2>9, <2>10, <2>11, <2>12, <2>13, <2>14, <2>15, <2>16, <2>17, <2>18, <2>19, <2>20, <2>22, <2>23, <2>24, <2>25
           DEF PipelineNext, MainStep, WorkerStep
<1> QED BY <1>2, <1>3, <1>4

----
(* Inverting *)

LEMMA DisjointBags ==
  ASSUME NEW A, NEW B, A \cap B = {}
  PROVE  SetToBag(A) (+) SetToBag(B) = SetToBag(A \cup B)  BY DEF SetToBag, (+)

\* What has a layer, and what is in a pass.
LEMMA ExpectedFacts ==
  ASSUME StepInv, step # "prepare", SamplesInReach, NEW s \in Expected
  PROVE  /\ s \in Samples /\ Layer(s) \in Nat /\ HasLayer(s) /\ Layer(s) < job.nWLayers /\ Counts(s) /\ InPlane(s)
         /\ IsLayerInPass(Layer(s)) => IsRequired(s[1], s[2])
         /\ CpuOf(s) \in Cpus
<1>1. job \in Jobs /\ Limits /\ s \in Samples /\ HasLayer(s) /\ Counts(s)  BY DEF StepInv, Expected
<1>2. Layer(s) \in Nat /\ Layer(s) < job.nWLayers  BY <1>1, SampleFacts, LayerIsNatural DEF Layer, HasLayer
<1> DEFINE w == Rows(s[1])[s[2]].w
           l1 == WToLayer(w[1])
           l2 == WToLayer(w[Len(w)])
<1>3. InPlane(s) /\ IsBetween(Layer(s), l1, l2)  BY DEF SamplesInReach
<1>4. l1 \in Nat /\ l2 \in Nat
  <2>1. s[1] \in DOMAIN job.sets /\ s[2] \in DOMAIN Rows(s[1])  BY <1>1, SampleFacts
  <2>2. w \in Seq(Int) /\ Len(w) \in Nat \ {0}  BY <1>1, <2>1, RowFacts
  <2>3. w[1] \in Int /\ w[Len(w)] \in Int  BY <2>2
  <2> QED BY <1>1, <2>3, LayerIsNatural
<1>5. IsRequired(s[1], s[2]) = AnyInLayerRange(w[1], w[Len(w)])  BY DEF IsRequired
<1> HIDE DEF w
<1>6. AnyInLayerRange(w[1], w[Len(w)]) =
        (\/ IsLayerInPass(l1) \/ IsLayerInPass(l2)
         \/ l1 < RangeStart /\ l2 >= RangeEnd
         \/ l2 < RangeStart /\ l1 >= RangeEnd)  BY DEF AnyInLayerRange
<1> HIDE DEF l1, l2
<1>7. RangeStart \in Nat /\ RangeEnd \in Nat  BY PassFacts
<1>8. IsLayerInPass(Layer(s)) => IsRequired(s[1], s[2])
  BY <1>2, <1>3, <1>4, <1>5, <1>6, <1>7 DEF IsBetween, IsLayerInPass
<1>9. CpuOf(s) \in Cpus
  <2>1. Layer(s) % job.cpus \in 0 .. job.cpus - 1  BY <1>1, <1>2, JobFacts
  <2> QED BY <2>1 DEF CpuOf, Cpus, Layer
<1> QED BY <1>1, <1>2, <1>3, <1>8, <1>9

Inverting ==
  /\ StepInv /\ GriddingInv /\ step # "prepare" /\ SamplesInReach
  /\ job.kind = "invert" /\ InversionInv

LEMMA InRange ==
  ASSUME StepInv, step # "prepare", SamplesInReach, NEW s \in Expected
  PROVE  /\ IsLayerInPass(Layer(s)) <=> Layer(s) - RangeStart \in PassLayers
         /\ \A l \in PassLayers : Layer(s) = l + RangeStart <=> l = Layer(s) - RangeStart
         /\ Layer(s) < RangeEnd <=> (Layer(s) < RangeStart \/ IsLayerInPass(Layer(s)))
BY ExpectedFacts, PassFacts DEF IsLayerInPass, PassLayers

LEMMA InSet ==
  ASSUME job \in Jobs, NEW s \in Samples
  PROVE  /\ s = <<s[1], s[2], s[3]>> /\ s[1] \in Nat \ {0} /\ s[2] \in Nat \ {0} /\ s[3] \in Nat \ {0}
         /\ s[1] <= Len(job.sets) /\ s[2] <= Len(Rows(s[1])) /\ s[3] <= Len(Rows(s[1])[s[2]].w)
<1>1. s[1] \in 1 .. Len(job.sets) /\ s[2] \in 1 .. Len(Rows(s[1]))  BY SampleFacts, JobFacts, RowFacts
<1>2. s[3] \in 1 .. Len(Rows(s[1])[s[2]].w)  BY SampleFacts, RowFacts
<1>3. s = <<s[1], s[2], s[3]>>  BY SampleFacts
<1>4. Len(job.sets) \in Nat /\ Len(Rows(s[1])) \in Nat /\ Len(Rows(s[1])[s[2]].w) \in Nat
  BY SampleFacts, JobFacts, RowFacts
<1> QED BY <1>1, <1>2, <1>3, <1>4

\* The weights of samples are counted when their row is read in their pass.
LEMMA RowIsWeighed ==
  ASSUME Inverting, ReadRow
  PROVE  WeighedSoFar'
<1>1. step = "read" /\ step' = "send" /\ weighed' = weighed (+) WeighRow(ms, row) /\ UNCHANGED <<job, gridder, pass, ms, row>>
  BY DEF ReadRow
<1>2. weighed = SetToBag({s \in Expected : ToBeWeighed(s)})  BY DEF Inverting, InversionInv, WeighedSoFar
<1> DEFINE A == {s \in Expected : ToBeWeighed(s)}
           B == {s \in Expected : s[1] = ms /\ s[2] = row /\ IsLayerInPass(Layer(s))}
<1>3. WeighRow(ms, row) = SetToBag(B)
  <2>1. ASSUME NEW s \in Samples, IsLayerInPass(Layer(s)), Weight(s) # 0 PROVE s \in Expected
    <3>1. Layer(s) \in Nat
      <4>1. job \in Jobs /\ Limits  BY DEF Inverting, StepInv
      <4> QED BY <4>1, SampleFacts, LayerIsNatural DEF Layer
    <3>2. Layer(s) < job.nWLayers  BY <2>1, <3>1, PassFacts, JobFacts DEF Inverting, StepInv, IsLayerInPass
    <3> QED BY <2>1, <3>2 DEF Expected, HasLayer, Counts, Layer, Inverting
  <2>2. \A s \in Expected : s \in Samples /\ Weight(s) # 0  BY DEF Expected, Counts, Inverting
  <2>3. {s \in Samples : s[1] = ms /\ s[2] = row /\ IsInLayerRange(W(s)) /\ Weight(s) # 0} = B
    BY <2>1, <2>2 DEF IsInLayerRange, Layer
  <2> QED BY <2>3 DEF WeighRow
<1>4. A \cap B = {}
  <2> SUFFICES ASSUME NEW s \in Expected, ToBeWeighed(s), s[1] = ms, s[2] = row, IsLayerInPass(Layer(s)) PROVE FALSE
    OBVIOUS
  <2>1. IsWeighed(s)
    <3>1. Layer(s) \in Nat /\ RangeStart \in Nat  BY ExpectedFacts, PassFacts DEF Inverting
    <3> QED BY <1>1, <3>1 DEF ToBeWeighed, IsLayerInPass, Gridding
  <2>2. ms \in Nat /\ row \in Nat  BY DEF Inverting, GriddingInv, Counters
  <2> QED BY <1>1, <2>1, <2>2 DEF IsWeighed
<1>5. weighed' = SetToBag(A \cup B)
  <2> HIDE DEF A, B
  <2> QED BY <1>1, <1>2, <1>3, <1>4, DisjointBags DEF A
<1>6. A \cup B = {s \in Expected : ToBeWeighed(s)'}
  <2>1. ASSUME NEW s \in Expected PROVE ToBeWeighed(s)' <=> ToBeWeighed(s) \/ (s[1] = ms /\ s[2] = row /\ IsLayerInPass(Layer(s)))
    <3>1. ToBeWeighed(s)' <=> Layer(s) < RangeStart \/ (IsLayerInPass(Layer(s)) /\ IsWeighed(s)')
      BY <1>1, SameJob, SamePass DEF ToBeWeighed, Gridding
    <3>2. ToBeWeighed(s) <=> Layer(s) < RangeStart \/ (IsLayerInPass(Layer(s)) /\ IsWeighed(s))
      BY <1>1 DEF ToBeWeighed, Gridding
    <3>3. IsWeighed(s)' <=> IsWeighed(s) \/ (s[1] = ms /\ s[2] = row)  BY <1>1 DEF IsWeighed
    <3> QED BY <3>1, <3>2, <3>3
  <2> QED BY <2>1
<1>7. Expected' = Expected  BY <1>1, SameJob
<1> QED BY <1>5, <1>6, <1>7 DEF WeighedSoFar

LEMMA WeighedKept ==
  ASSUME Inverting, UNCHANGED <<job, gridder, weighed>>, \A s \in Expected : ToBeWeighed(s)' <=> ToBeWeighed(s)
  PROVE  WeighedSoFar'
<1>1. Expected' = Expected  BY SameJob
<1>2. weighed = SetToBag({s \in Expected : ToBeWeighed(s)})  BY DEF Inverting, InversionInv, WeighedSoFar
<1>3. {s \in Expected : ToBeWeighed(s)'} = {s \in Expected : ToBeWeighed(s)}  OBVIOUS
<1> QED BY <1>1, <1>2, <1>3 DEF WeighedSoFar

\* All other steps count nothing, and leave what is to be counted as it is.
LEMMA WeighedStep ==
  ASSUME Inverting, PipelineNext, UNCHANGED <<job, gridder>>
  PROVE  WeighedSoFar'
<1>1. /\ step \in {"startPass", "read", "send", "joinWorkers", "transform", "queue", "finalize", "done"} /\ step # "prepare"
      /\ job.kind = "invert" /\ Position /\ job \in Jobs  BY DEF Inverting, StepInv
<1>2. RangeStart \in Nat /\ RangeEnd \in Nat /\ RangeStart <= RangeEnd /\ pass \in Nat  BY PassFacts DEF Inverting
<1>3. \A s \in Expected :
        /\ s \in Samples /\ Layer(s) \in Nat /\ (IsLayerInPass(Layer(s)) => IsRequired(s[1], s[2]))
        /\ Layer(s) < RangeEnd <=> (Layer(s) < RangeStart \/ IsLayerInPass(Layer(s)))
        /\ s[1] \in Nat \ {0} /\ s[2] \in Nat \ {0} /\ s[3] \in Nat \ {0}
        /\ s[1] <= Len(job.sets) /\ s[2] <= Len(Rows(s[1])) /\ s[3] <= Len(Rows(s[1])[s[2]].w)
  BY <1>1, ExpectedFacts, InRange, InSet DEF Inverting
<1>4. Gridding => ms \in Nat /\ row \in Nat /\ channel \in Nat  BY DEF Inverting, GriddingInv, Counters
<1>5. ASSUME pass' = pass PROVE \A s \in Expected : Layer(s)' = Layer(s) /\ IsLayerInPass(Layer(s))' = IsLayerInPass(Layer(s)) /\ RangeStart' = RangeStart
  BY <1>5, SameJob, SamePass
<1>6. CASE StartInversionPass
  <2>1. step = "startPass" /\ step' = "read" /\ ms' = 1 /\ row' = 1 /\ pass' = pass /\ weighed' = weighed
    BY <1>6 DEF StartInversionPass, StartWorkers
  <2>2. ASSUME NEW s \in Expected PROVE ToBeWeighed(s)' <=> ToBeWeighed(s)
    <3>1. ~IsWeighed(s)'  BY <1>3, <2>1 DEF IsWeighed
    <3> QED BY <1>5, <2>1, <3>1 DEF ToBeWeighed, Gridding
  <2> QED BY <2>1, <2>2, WeighedKept
<1>7. CASE SkipRow
  <2>1. step = "read" /\ step' = "read" /\ row' = row + 1 /\ ~IsRequired(ms, row) /\ UNCHANGED <<pass, ms, weighed>>
    BY <1>7 DEF SkipRow
  <2>2. ASSUME NEW s \in Expected PROVE ToBeWeighed(s)' <=> ToBeWeighed(s)
    <3>1. IsLayerInPass(Layer(s)) => (IsWeighed(s)' <=> IsWeighed(s))  BY <1>3, <1>4, <2>1 DEF IsWeighed, Gridding
    <3> QED BY <1>5, <2>1, <3>1 DEF ToBeWeighed, Gridding
  <2> QED BY <2>1, <2>2, WeighedKept
<1>8. CASE SendSample
  <2>1. step = "send" /\ UNCHANGED <<pass, ms, weighed>> /\ (UNCHANGED <<row, step>> \/ (row' = row + 1 /\ step' = "read"))
    BY <1>8 DEF SendSample
  <2>2. ASSUME NEW s \in Expected PROVE ToBeWeighed(s)' <=> ToBeWeighed(s)
    <3>1. IsWeighed(s)' <=> IsWeighed(s)  BY <1>3, <1>4, <2>1 DEF IsWeighed, Gridding
    <3> QED BY <1>5, <2>1, <3>1 DEF ToBeWeighed, Gridding
  <2> QED BY <2>1, <2>2, WeighedKept
<1>9. CASE EndOfSet
  <2>1. step = "read" /\ step' = "joinWorkers" /\ UNCHANGED <<pass, ms, row, weighed>>  BY <1>9 DEF EndOfSet
  <2>2. ASSUME NEW s \in Expected PROVE ToBeWeighed(s)' <=> ToBeWeighed(s)
    <3>1. IsWeighed(s)' <=> IsWeighed(s)  BY <1>3, <1>4, <2>1 DEF IsWeighed, Gridding
    <3> QED BY <1>5, <2>1, <3>1 DEF ToBeWeighed, Gridding
  <2> QED BY <2>1, <2>2, WeighedKept
<1>10. CASE JoinWorkers
  <2>1. step = "joinWorkers" /\ UNCHANGED <<pass, weighed>>  BY <1>10 DEF JoinWorkers
  <2>2. ms \in DOMAIN job.sets /\ row = Len(Rows(ms)) + 1  BY <1>1, <2>1 DEF Position, Gridding
  <2>3. Len(Rows(ms)) \in Nat /\ Len(job.sets) \in Nat  BY <1>1, <2>2, RowFacts, JobFacts
  <2>4. ASSUME NEW s \in Expected PROVE IsWeighed(s) <=> s[1] <= ms
    <3>1. s[1] = ms => s[2] < row  BY <1>3, <2>2, <2>3
    <3> QED BY <1>3, <1>4, <2>1, <3>1 DEF IsWeighed, Gridding
  <2>5. CASE ms < Len(job.sets)
    <3>1. step' = "read" /\ ms' = ms + 1 /\ row' = 1  BY <1>10, <2>5 DEF JoinWorkers, StartWorkers
    <3>2. ASSUME NEW s \in Expected PROVE ToBeWeighed(s)' <=> ToBeWeighed(s)
      <4>1. IsWeighed(s)' <=> s[1] <= ms  BY <1>3, <1>4, <2>1, <3>1 DEF IsWeighed, Gridding
      <4> QED BY <1>5, <2>1, <2>4, <3>1, <4>1 DEF ToBeWeighed, Gridding
    <3> QED BY <2>1, <3>2, WeighedKept
  <2>6. CASE ~(ms < Len(job.sets))
    <3>1. step' = "transform"  BY <1>10, <2>6 DEF JoinWorkers, StartTransforms
    <3>2. ASSUME NEW s \in Expected PROVE ToBeWeighed(s)' <=> ToBeWeighed(s)
      <4>1. s[1] <= ms  BY <1>3, <1>4, <2>1, <2>3, <2>6 DEF Gridding
      <4> QED BY <1>5, <2>1, <2>4, <3>1, <4>1 DEF ToBeWeighed, Gridding
    <3> QED BY <2>1, <3>2, WeighedKept
  <2> QED BY <2>5, <2>6
<1>11. CASE FinishInversionPass
  <2>1. step = "transform" /\ weighed' = weighed /\ NextPass  BY <1>11 DEF FinishInversionPass, Transforming
  <2>2. CASE pass + 1 < gridder.nPasses
    <3>1. step' = "startPass" /\ pass' = pass + 1  BY <2>1, <2>2 DEF NextPass
    <3>2. RangeStart' = RangeEnd  BY <3>1 DEF RangeStart, RangeEnd, LayerRangeStart
    <3>3. ASSUME NEW s \in Expected PROVE ToBeWeighed(s)' <=> ToBeWeighed(s)
      <4>1. ToBeWeighed(s)' <=> Layer(s) < RangeEnd  BY <3>1, <3>2, SameJob DEF ToBeWeighed
      <4> QED BY <1>3, <2>1, <4>1 DEF ToBeWeighed, Gridding
    <3> QED BY <2>1, <3>3, WeighedKept
  <2>3. CASE ~(pass + 1 < gridder.nPasses)
    <3>1. step' = "finalize" /\ pass' = pass  BY <2>1, <2>3 DEF NextPass
    <3>2. ASSUME NEW s \in Expected PROVE ToBeWeighed(s)' <=> ToBeWeighed(s)
      BY <1>5, <2>1, <3>1 DEF ToBeWeighed, Gridding
    <3> QED BY <2>1, <3>2, WeighedKept
  <2> QED BY <2>2, <2>3
<1>12. CASE Finalize
  <2>1. step = "finalize" /\ step' = "done" /\ UNCHANGED <<pass, weighed>>  BY <1>12 DEF Finalize
  <2>2. ASSUME NEW s \in Expected PROVE ToBeWeighed(s)' <=> ToBeWeighed(s)  BY <1>5, <2>1 DEF ToBeWeighed, Gridding
  <2> QED BY <2>1, <2>2, WeighedKept
<1>13. ASSUME UNCHANGED <<step, pass, ms, row, weighed>> PROVE WeighedSoFar'
  <2>1. ASSUME NEW s \in Expected PROVE ToBeWeighed(s)' <=> ToBeWeighed(s)
    BY <1>5, <1>13 DEF ToBeWeighed, Gridding, IsWeighed
  <2> QED BY <1>13, <2>1, WeighedKept
<1>14. ASSUME NEW c, WorkerStep(c) PROVE WeighedSoFar'
  BY <1>13, <1>14 DEF WorkerStep, TakeSample, AddDataSample, TakeLayer, TransformToImage, TransformToGrid, TakeRow, PassOnRow
<1>15. ~Prepare /\ ~StartPredictionPass /\ ~FinishTransforms /\ ~QueueRow /\ ~JoinPrediction /\ ~WriteRow
  BY <1>1 DEF Prepare, StartPredictionPass, FinishTransforms, QueueRow, JoinPrediction, WriteRow, Calculating, Position
<1>16. CASE PipelineOver  BY <1>13, <1>16 DEF PipelineOver, pipelineVars
<1> QED BY <1>6, <1>7, <1>8, <1>9, <1>10, <1>11, <1>12, <1>14, <1>15, <1>16, RowIsWeighed DEF PipelineNext, MainStep

\* The samples that are waiting are not in the grids yet.
LEMMA GridsKept ==
  ASSUME Inverting, Gridding, UNCHANGED <<job, gridder, pass, grids>>,
         \A s \in Expected : IsLayerInPass(Layer(s)) =>
           ((HandedOut(s) /\ ~Waiting(s))' <=> (HandedOut(s) /\ ~Waiting(s)))
  PROVE  GridsSoFar'
<1>1. Expected' = Expected /\ PassLayers' = PassLayers /\ RangeStart' = RangeStart  BY SameJob, SamePass
<1>2. \A s : Layer(s)' = Layer(s)  BY SameJob
<1>3. ASSUME NEW s \in Expected, NEW l \in PassLayers PROVE IsGridded(s, l)' <=> IsGridded(s, l)
  <2>1. Layer(s) = l + RangeStart => IsLayerInPass(Layer(s))  BY PassFacts DEF Inverting, PassLayers, IsLayerInPass
  <2> QED BY <1>1, <1>2, <2>1 DEF IsGridded
<1>4. grids = [l \in PassLayers |-> SetToBag({s \in Expected : IsGridded(s, l)})]
  BY DEF Inverting, InversionInv, GridsSoFar
<1>5. \A l \in PassLayers : {s \in Expected : IsGridded(s, l)'} = {s \in Expected : IsGridded(s, l)}  BY <1>3
<1> QED BY <1>1, <1>4, <1>5 DEF GridsSoFar

\* Threads that start hold nothing.
LEMMA WorkersStart ==
  ASSUME job \in Jobs, StartWorkers, UNCHANGED <<job, gridder>>
  PROVE  LanesHoldSamples' /\ \A s \in Samples : CpuOf(s) \in Cpus => ~Waiting(s)'
<1>1. lanes' = [c \in Cpus |-> <<>>] /\ holding' = [c \in Cpus |-> Nothing] /\ Cpus' = Cpus /\ \A s : CpuOf(s)' = CpuOf(s)
  BY SameJob DEF StartWorkers
<1>2. \A c \in Cpus : DOMAIN lanes'[c] = {} /\ holding'[c] = Nothing
  <2>1. DOMAIN <<>> = {}  OBVIOUS
  <2> QED BY <1>1, <2>1, Zenon
<1>3. LanesHoldSamples'  BY <1>1, <1>2 DEF LanesHoldSamples
<1>4. ASSUME NEW s \in Samples, CpuOf(s) \in Cpus PROVE ~Waiting(s)'
  <2>1. s # Nothing  BY SampleFacts
  <2> QED BY <1>1, <1>2, <1>4, <2>1 DEF Waiting
<1> QED BY <1>3, <1>4

\* What the threads of an inversion hold.
LEMMA LaneFacts ==
  ASSUME Inverting, Gridding
  PROVE  /\ lanes \in [Cpus -> Seq(SampleIndex)] /\ holding \in [Cpus -> SampleIndex \cup {Nothing}]
         /\ \A c \in Cpus : Len(lanes[c]) \in Nat /\ DOMAIN lanes[c] = 1 .. Len(lanes[c])
         /\ \A c \in Cpus : \A i \in DOMAIN lanes[c] :
              /\ CpuOf(lanes[c][i]) = c /\ lanes[c][i] \in Samples /\ HandedOut(lanes[c][i]) /\ lanes[c][i] # holding[c]
              /\ \A j \in DOMAIN lanes[c] : lanes[c][i] = lanes[c][j] => i = j
         /\ \A c \in Cpus : holding[c] # Nothing => CpuOf(holding[c]) = c /\ holding[c] \in Samples /\ HandedOut(holding[c])
<1>1. LanesByLayer /\ Working  BY DEF Inverting, GriddingInv, Gridding, Working
<1>2. /\ lanes \in [Cpus -> Seq(SampleIndex)] /\ holding \in [Cpus -> SampleIndex \cup {Nothing}]
      /\ \A c \in Cpus : /\ \A i \in DOMAIN lanes[c] : CpuOf(lanes[c][i]) = c
                         /\ holding[c] # Nothing => CpuOf(holding[c]) = c  BY <1>1 DEF LanesByLayer
<1>3. LanesHoldSamples  BY DEF Inverting, InversionInv
<1>4. \A c \in Cpus : Len(lanes[c]) \in Nat /\ DOMAIN lanes[c] = 1 .. Len(lanes[c])  BY <1>2, LenProperties
<1> QED BY <1>2, <1>3, <1>4 DEF LanesHoldSamples

\* The lanes keep what they have, as long as what was handed out stays handed out.
LEMMA LanesKept ==
  ASSUME Inverting, Gridding, UNCHANGED <<job, gridder, lanes, holding>>,
         \A s \in Samples : HandedOut(s) => HandedOut(s)'
  PROVE  LanesHoldSamples' /\ \A s : Waiting(s)' <=> Waiting(s)
<1>1. Cpus' = Cpus /\ Samples' = Samples /\ \A s : CpuOf(s)' = CpuOf(s)  BY SameJob
<1>2. LanesHoldSamples  BY DEF Inverting, InversionInv
<1>3. LanesHoldSamples'  BY <1>1, <1>2 DEF LanesHoldSamples
<1>4. \A s : Waiting(s)' <=> Waiting(s)  BY <1>1 DEF Waiting
<1> QED BY <1>3, <1>4

\* A thread of an inversion and the grids: after the step the samples are where they should be.
GridsAndLanes == (Gridding => LanesHoldSamples /\ GridsSoFar) /\ (step = "transform" => GridsFull)

LEMMA PassIsStarted ==
  ASSUME Inverting, StartInversionPass
  PROVE  GridsAndLanes'
<1>1. /\ step' = "read" /\ ms' = 1 /\ row' = 1 /\ grids' = EmptyGrids /\ StartWorkers
      /\ UNCHANGED <<job, gridder, pass>>  BY DEF StartInversionPass, StartWorkers
<1>2. job \in Jobs /\ Expected' = Expected /\ PassLayers' = PassLayers
  BY <1>1, SameJob, SamePass DEF Inverting, StepInv
<1>3. LanesHoldSamples'  BY <1>1, <1>2, WorkersStart
<1>4. ASSUME NEW s \in Expected, NEW l \in PassLayers PROVE ~IsGridded(s, l)'
  <2>1. s \in Samples  BY DEF Expected
  <2>2. s[1] >= 1 /\ s[2] >= 1 /\ s[1] \in Nat /\ s[2] \in Nat  BY <1>2, <2>1, InSet
  <2> QED BY <1>1, <2>2 DEF IsGridded, HandedOut
<1>5. \A l \in PassLayers : {s \in Expected : IsGridded(s, l)'} = {}  BY <1>4
<1>6. grids' = [l \in PassLayers |-> SetToBag({})]  BY <1>1 DEF EmptyGrids, PassLayers, SetToBag, EmptyBag
<1>7. GridsSoFar'  BY <1>2, <1>5, <1>6 DEF GridsSoFar
<1> QED BY <1>1, <1>3, <1>7 DEF GridsAndLanes, Gridding

\* No sample of the pass is lost with the rows that are not read.
LEMMA RowIsSkipped ==
  ASSUME Inverting, SkipRow
  PROVE  GridsAndLanes'
<1>1. /\ step = "read" /\ step' = "read" /\ row' = row + 1 /\ ms' = ms /\ ~IsRequired(ms, row) /\ Gridding
      /\ UNCHANGED <<job, gridder, pass, lanes, holding, grids>>  BY DEF SkipRow, Gridding
<1>2. job \in Jobs /\ row \in Nat /\ ms \in Nat  BY DEF Inverting, GriddingInv, Counters
<1>3. ASSUME NEW s \in Samples PROVE HandedOut(s)' <=> HandedOut(s) \/ (s[1] = ms /\ s[2] = row)
  BY <1>1, <1>2, <1>3, SampleFacts DEF HandedOut
<1>4. LanesHoldSamples' /\ \A s : Waiting(s)' <=> Waiting(s)  BY <1>1, <1>3, LanesKept
<1>5. ASSUME NEW s \in Expected, IsLayerInPass(Layer(s)) PROVE HandedOut(s)' <=> HandedOut(s)
  BY <1>1, <1>3, <1>5, ExpectedFacts DEF Inverting
<1>6. GridsSoFar'  BY <1>1, <1>4, <1>5, GridsKept
<1> QED BY <1>1, <1>4, <1>6 DEF GridsAndLanes

LEMMA RowIsRead ==
  ASSUME Inverting, ReadRow \/ EndOfSet
  PROVE  GridsAndLanes'
<1>1. /\ step = "read" /\ step' # "transform" /\ row' = row /\ ms' = ms /\ Gridding
      /\ step' = "send" => channel' = 1
      /\ UNCHANGED <<job, gridder, pass, lanes, holding, grids>>  BY DEF ReadRow, EndOfSet, Gridding
<1>2. job \in Jobs /\ row \in Nat /\ ms \in Nat  BY DEF Inverting, GriddingInv, Counters
<1>3. ASSUME NEW s \in Samples PROVE HandedOut(s)' <=> HandedOut(s)  BY <1>1, <1>2, <1>3, InSet DEF HandedOut
<1>4. LanesHoldSamples' /\ \A s : Waiting(s)' <=> Waiting(s)  BY <1>1, <1>3, LanesKept
<1>5. \A s \in Expected : HandedOut(s)' <=> HandedOut(s)  BY <1>3 DEF Expected
<1>6. GridsSoFar'  BY <1>1, <1>4, <1>5, GridsKept
<1> QED BY <1>1, <1>4, <1>6 DEF GridsAndLanes

\* The sample that is sent is handed out by that, and it was not before.
LEMMA SampleGoesToLane ==
  ASSUME Inverting, SendSample
  PROVE  GridsAndLanes'
<1> DEFINE x == SampleAt(ms, row, channel)
<1>1. /\ step = "send" /\ step' \in {"send", "read"} /\ ms' = ms /\ Gridding
      /\ lanes' = [lanes EXCEPT ![CpuOf(x)] = Append(@, x)]
      /\ IF channel < Len(Rows(ms)[row].w)
           THEN channel' = channel + 1 /\ UNCHANGED <<row, step>>
           ELSE row' = row + 1 /\ step' = "read"
      /\ UNCHANGED <<job, gridder, pass, holding, grids>>  BY DEF SendSample, Gridding
<1>2. /\ job \in Jobs /\ row \in Nat /\ ms \in Nat /\ channel \in Nat
      /\ ms \in DOMAIN job.sets /\ row \in DOMAIN Rows(ms) /\ channel \in Channels(ms, row)
  BY <1>1 DEF Inverting, GriddingInv, Counters, StepInv, Position
<1>3. x \in Samples /\ x = <<ms, row, channel>> /\ x # Nothing  BY <1>2, SamplesAreSamples, SampleFacts DEF SampleAt
<1>4. CpuOf(x) \in Cpus
  <2>1. Layer(x) \in Nat /\ job.cpus \in Nat \ {0}
    BY <1>2, <1>3, SampleFacts, LayerIsNatural, JobFacts DEF Layer, Inverting, StepInv
  <2>2. Layer(x) % job.cpus \in 0 .. job.cpus - 1  BY <2>1
  <2> QED BY <2>2 DEF CpuOf, Cpus, Layer
<1>5. ASSUME NEW s \in Samples PROVE HandedOut(s)' <=> HandedOut(s) \/ s = x
  <2>1. s = <<s[1], s[2], s[3]>> /\ s[1] \in Nat /\ s[2] \in Nat /\ s[3] \in Nat  BY <1>2, InSet
  <2>2. s = x <=> s[1] = ms /\ s[2] = row /\ s[3] = channel  BY <1>3, <2>1
  <2>3. s[1] = ms /\ s[2] = row => s[3] <= Len(Rows(ms)[row].w)  BY <1>2, InSet
  <2>4. Len(Rows(ms)[row].w) \in Nat /\ channel <= Len(Rows(ms)[row].w)  BY <1>2, RowFacts
  <2> HIDE DEF x
  <2>5. CASE channel < Len(Rows(ms)[row].w)  BY <1>1, <1>2, <2>1, <2>2, <2>5 DEF HandedOut
  <2>6. CASE ~(channel < Len(Rows(ms)[row].w))
    <3>1. channel = Len(Rows(ms)[row].w)  BY <1>2, <2>4, <2>6
    <3>2. row' = row + 1 /\ step' = "read"  BY <1>1, <2>6
    <3>3. s[1] = ms /\ s[2] = row => (s[3] < channel \/ s = x)  BY <1>2, <2>1, <2>2, <2>3, <3>1
    <3> QED BY <1>1, <1>2, <2>1, <2>2, <3>2, <3>3 DEF HandedOut
  <2> QED BY <2>5, <2>6
<1>6. ~HandedOut(x)  BY <1>2, <1>3 DEF HandedOut
<1>7. /\ lanes \in [Cpus -> Seq(SampleIndex)] /\ holding \in [Cpus -> SampleIndex \cup {Nothing}]
      /\ \A c \in Cpus : Len(lanes[c]) \in Nat /\ DOMAIN lanes[c] = 1 .. Len(lanes[c])
      /\ \A c \in Cpus : \A i \in DOMAIN lanes[c] :
           /\ CpuOf(lanes[c][i]) = c /\ lanes[c][i] \in Samples /\ HandedOut(lanes[c][i]) /\ lanes[c][i] # holding[c]
           /\ \A j \in DOMAIN lanes[c] : lanes[c][i] = lanes[c][j] => i = j
      /\ \A c \in Cpus : holding[c] # Nothing => CpuOf(holding[c]) = c /\ holding[c] \in Samples /\ HandedOut(holding[c])
  BY <1>1, LaneFacts
<1>8. Cpus' = Cpus /\ Samples' = Samples /\ \A s : CpuOf(s)' = CpuOf(s)  BY <1>1, SameJob
<1> HIDE DEF x
<1>9. \A c \in Cpus : lanes'[c] = IF c = CpuOf(x) THEN Append(lanes[c], x) ELSE lanes[c]  BY <1>1, <1>7
<1>10. ASSUME NEW c \in Cpus
       PROVE  /\ \A i \in DOMAIN lanes[c] : i \in DOMAIN Append(lanes[c], x) /\ Append(lanes[c], x)[i] = lanes[c][i]
              /\ Append(lanes[c], x)[Len(lanes[c]) + 1] = x /\ Len(lanes[c]) + 1 \in DOMAIN Append(lanes[c], x)
              /\ \A i \in DOMAIN Append(lanes[c], x) : i \in DOMAIN lanes[c] \/ i = Len(lanes[c]) + 1
  <2>1. lanes[c] \in Seq(SampleIndex) /\ x \in SampleIndex  BY <1>2, <1>3, <1>7 DEF SampleIndex
  <2> QED BY <2>1, Appended
<1>11. ASSUME NEW c \in Cpus
       PROVE  /\ \A i \in DOMAIN lanes'[c] : lanes'[c][i] \in Samples /\ (HandedOut(lanes'[c][i]) \/ lanes'[c][i] = x) /\ lanes'[c][i] # holding[c]
              /\ \A i, j \in DOMAIN lanes'[c] : lanes'[c][i] = lanes'[c][j] => i = j
  <2>1. CASE c # CpuOf(x)
    <3>1. lanes'[c] = lanes[c]  BY <1>9, <2>1
    <3> QED BY <1>5, <1>7, <3>1
  <2>2. CASE c = CpuOf(x)
    <3>1. lanes'[c] = Append(lanes[c], x)  BY <1>9, <2>2
    <3>2. holding[c] # x  BY <1>3, <1>6, <1>7
    <3>3. \A i \in DOMAIN lanes[c] : lanes[c][i] # x  BY <1>6, <1>7
    <3>4. \A i \in DOMAIN lanes'[c] : (i \in DOMAIN lanes[c] /\ lanes'[c][i] = lanes[c][i]) \/ (i = Len(lanes[c]) + 1 /\ lanes'[c][i] = x)
      BY <1>10, <3>1
    <3>5. \A i \in DOMAIN lanes'[c] : lanes'[c][i] \in Samples /\ (HandedOut(lanes'[c][i]) \/ lanes'[c][i] = x) /\ lanes'[c][i] # holding[c]
      BY <1>3, <1>5, <1>7, <3>2, <3>4
    <3>6. \A i, j \in DOMAIN lanes'[c] : lanes'[c][i] = lanes'[c][j] => i = j  BY <1>7, <3>3, <3>4
    <3> QED BY <3>5, <3>6
  <2> QED BY <2>1, <2>2
<1>12. LanesHoldSamples'  BY <1>1, <1>5, <1>7, <1>8, <1>11 DEF LanesHoldSamples
<1>13. ASSUME NEW s \in Expected PROVE Waiting(s)' <=> Waiting(s) \/ s = x
  <2>1. s \in Samples /\ CpuOf(s) \in Cpus  BY ExpectedFacts DEF Inverting
  <2>2. (\E i \in DOMAIN lanes'[CpuOf(s)] : lanes'[CpuOf(s)][i] = s) <=> (s = x \/ \E i \in DOMAIN lanes[CpuOf(s)] : lanes[CpuOf(s)][i] = s)
    <3>1. CASE CpuOf(s) # CpuOf(x)  BY <1>9, <2>1, <3>1
    <3>2. CASE CpuOf(s) = CpuOf(x)
      <4>1. lanes'[CpuOf(s)] = Append(lanes[CpuOf(s)], x)  BY <1>9, <2>1, <3>2
      <4> QED BY <1>10, <2>1, <4>1
    <3> QED BY <3>1, <3>2
  <2> QED BY <1>1, <1>8, <2>2 DEF Waiting
<1>14. ASSUME NEW s \in Expected PROVE (HandedOut(s) /\ ~Waiting(s))' <=> (HandedOut(s) /\ ~Waiting(s))
  <2>1. s \in Samples  BY DEF Expected
  <2> QED BY <1>5, <1>6, <1>13, <2>1
<1>15. GridsSoFar'  BY <1>1, <1>14, GridsKept
<1> QED BY <1>1, <1>12, <1>15 DEF GridsAndLanes

LEMMA SampleLeavesLane ==
  ASSUME Inverting, NEW c \in DOMAIN holding, TakeSample(c)
  PROVE  GridsAndLanes'
<1> DEFINE first == Head(lanes[c])
           others == Tail(lanes[c])
<1>1. /\ Gridding /\ holding[c] = Nothing /\ lanes[c] # <<>>
      /\ holding' = [holding EXCEPT ![c] = first] /\ lanes' = [lanes EXCEPT ![c] = others]
      /\ UNCHANGED <<job, gridder, step, pass, ms, row, channel, grids>>  BY DEF TakeSample, Working, Gridding
<1>2. /\ lanes \in [Cpus -> Seq(SampleIndex)] /\ holding \in [Cpus -> SampleIndex \cup {Nothing}]
      /\ \A d \in Cpus : Len(lanes[d]) \in Nat /\ DOMAIN lanes[d] = 1 .. Len(lanes[d])
      /\ \A d \in Cpus : \A i \in DOMAIN lanes[d] :
           /\ CpuOf(lanes[d][i]) = d /\ lanes[d][i] \in Samples /\ HandedOut(lanes[d][i]) /\ lanes[d][i] # holding[d]
           /\ \A j \in DOMAIN lanes[d] : lanes[d][i] = lanes[d][j] => i = j
      /\ \A d \in Cpus : holding[d] # Nothing => CpuOf(holding[d]) = d /\ holding[d] \in Samples /\ HandedOut(holding[d])
  BY <1>1, LaneFacts
<1>3. Cpus' = Cpus /\ Samples' = Samples /\ \A s : CpuOf(s)' = CpuOf(s)  BY <1>1, SameJob
<1>4. c \in Cpus /\ lanes[c] \in Seq(SampleIndex)  BY <1>2
<1>5. /\ first = lanes[c][1] /\ 1 \in DOMAIN lanes[c]
      /\ \A i \in DOMAIN others : i \in Nat \ {0} /\ i + 1 \in DOMAIN lanes[c] /\ others[i] = lanes[c][i + 1]
      /\ \A i \in DOMAIN lanes[c] : i = 1 \/ (i - 1 \in DOMAIN others /\ others[i - 1] = lanes[c][i])
  BY <1>1, <1>4, WithoutHead
<1> HIDE DEF first, others
<1>7. \A d \in Cpus : /\ lanes'[d] = IF d = c THEN others ELSE lanes[d]
                      /\ holding'[d] = IF d = c THEN first ELSE holding[d]  BY <1>1, <1>2
<1>8. ASSUME NEW d \in Cpus
      PROVE  /\ \A i \in DOMAIN lanes'[d] : lanes'[d][i] \in Samples /\ HandedOut(lanes'[d][i]) /\ lanes'[d][i] # holding'[d]
             /\ \A i, j \in DOMAIN lanes'[d] : lanes'[d][i] = lanes'[d][j] => i = j
             /\ holding'[d] # Nothing => holding'[d] \in Samples /\ HandedOut(holding'[d])
  <2>1. CASE d # c
    <3>1. lanes'[d] = lanes[d] /\ holding'[d] = holding[d]  BY <1>7, <2>1
    <3> QED BY <1>2, <3>1
  <2>2. CASE d = c
    <3>1. lanes'[d] = others /\ holding'[d] = first  BY <1>7, <2>2
    <3>2. first \in Samples /\ HandedOut(first)  BY <1>2, <1>4, <1>5
    <3>3. \A i \in DOMAIN others : others[i] \in Samples /\ HandedOut(others[i])  BY <1>2, <1>4, <1>5
    <3>4. \A i \in DOMAIN others : others[i] # first
      <4> SUFFICES ASSUME NEW i \in DOMAIN others, others[i] = first PROVE FALSE  OBVIOUS
      <4>1. i \in Nat /\ i + 1 \in DOMAIN lanes[c] /\ i # 0 /\ lanes[c][i + 1] = lanes[c][1]  BY <1>4, <1>5
      <4>2. i + 1 = 1  BY <1>2, <1>4, <1>5, <4>1
      <4> QED BY <4>1, <4>2
    <3>5. \A i, j \in DOMAIN others : others[i] = others[j] => i = j
      <4> SUFFICES ASSUME NEW i \in DOMAIN others, NEW j \in DOMAIN others, others[i] = others[j] PROVE i = j  OBVIOUS
      <4>1. i + 1 \in DOMAIN lanes[c] /\ j + 1 \in DOMAIN lanes[c] /\ lanes[c][i + 1] = lanes[c][j + 1] /\ i \in Nat /\ j \in Nat
        BY <1>5
      <4>2. i + 1 = j + 1  BY <1>2, <1>4, <4>1
      <4> QED BY <4>1, <4>2
    <3> QED BY <3>1, <3>2, <3>3, <3>4, <3>5
  <2> QED BY <2>1, <2>2
<1>9. \A s : HandedOut(s)' <=> HandedOut(s)  BY <1>1 DEF HandedOut
<1>10. LanesHoldSamples'  BY <1>3, <1>8, <1>9 DEF LanesHoldSamples
<1>11. ASSUME NEW s \in Expected PROVE Waiting(s)' <=> Waiting(s)
  <2>1. s \in Samples /\ s # Nothing /\ CpuOf(s) \in Cpus  BY ExpectedFacts, SampleFacts DEF Inverting, StepInv
  <2>2. CASE CpuOf(s) # c  BY <1>3, <1>7, <2>1, <2>2 DEF Waiting
  <2>3. CASE CpuOf(s) = c
    <3>1. Waiting(s) <=> \E i \in DOMAIN lanes[c] : lanes[c][i] = s  BY <1>1, <2>1, <2>3 DEF Waiting
    <3>2. Waiting(s)' <=> first = s \/ \E i \in DOMAIN others : others[i] = s  BY <1>3, <1>4, <1>7, <2>3 DEF Waiting
    <3> QED BY <1>5, <3>1, <3>2
  <2> QED BY <2>2, <2>3
<1>12. GridsSoFar'  BY <1>1, <1>9, <1>11, GridsKept
<1> QED BY <1>1, <1>10, <1>12 DEF GridsAndLanes, Gridding

\* A sample that counts is added to the grid of its layer, once.
LEMMA SampleGoesToGrid ==
  ASSUME Inverting, NEW c \in DOMAIN holding, AddDataSample(c)
  PROVE  GridsAndLanes'
<1> DEFINE x == holding[c]
           l0 == Layer(x) - RangeStart
<1>1. /\ Gridding /\ x # Nothing /\ holding' = [holding EXCEPT ![c] = Nothing]
      /\ grids' = IF IsLayerInPass(Layer(x)) /\ InPlane(x) /\ Weight(x) # 0
                    THEN [grids EXCEPT ![l0] = @ (+) SetToBag({x})] ELSE grids
      /\ UNCHANGED <<job, gridder, step, pass, ms, row, channel, lanes>>
  BY DEF AddDataSample, Working, Gridding, IsInLayerRange, Layer
<1>2. /\ lanes \in [Cpus -> Seq(SampleIndex)] /\ holding \in [Cpus -> SampleIndex \cup {Nothing}]
      /\ \A d \in Cpus : Len(lanes[d]) \in Nat /\ DOMAIN lanes[d] = 1 .. Len(lanes[d])
      /\ \A d \in Cpus : \A i \in DOMAIN lanes[d] :
           /\ CpuOf(lanes[d][i]) = d /\ lanes[d][i] \in Samples /\ HandedOut(lanes[d][i]) /\ lanes[d][i] # holding[d]
           /\ \A j \in DOMAIN lanes[d] : lanes[d][i] = lanes[d][j] => i = j
      /\ \A d \in Cpus : holding[d] # Nothing => CpuOf(holding[d]) = d /\ holding[d] \in Samples /\ HandedOut(holding[d])
  BY <1>1, LaneFacts
<1>3. Cpus' = Cpus /\ Samples' = Samples /\ \A s : CpuOf(s)' = CpuOf(s)  BY <1>1, SameJob
<1>4. c \in Cpus /\ x \in Samples /\ CpuOf(x) = c /\ HandedOut(x)  BY <1>1, <1>2
<1> HIDE DEF x
<1>5. \A d \in Cpus : holding'[d] = IF d = c THEN Nothing ELSE holding[d]  BY <1>1, <1>2
<1>6. \A s : HandedOut(s)' <=> HandedOut(s)  BY <1>1 DEF HandedOut
<1>7. LanesHoldSamples'
  <2>1. \A d \in Cpus : \A i \in DOMAIN lanes[d] : lanes[d][i] # holding'[d]
    <3> SUFFICES ASSUME NEW d \in Cpus, NEW i \in DOMAIN lanes[d], lanes[d][i] = holding'[d] PROVE FALSE  OBVIOUS
    <3>1. lanes[d][i] # Nothing  BY <1>2, SampleFacts DEF Inverting, StepInv
    <3> QED BY <1>2, <1>5, <3>1
  <2>2. lanes' = lanes  BY <1>1
  <2> QED BY <1>2, <1>3, <1>5, <1>6, <2>1, <2>2 DEF LanesHoldSamples
<1>8. ASSUME NEW s \in Expected PROVE Waiting(s)' <=> Waiting(s) /\ s # x
  <2>1. s \in Samples /\ s # Nothing /\ CpuOf(s) \in Cpus  BY ExpectedFacts, SampleFacts DEF Inverting, StepInv
  <2>2. CASE CpuOf(s) # c  BY <1>1, <1>3, <1>4, <1>5, <2>1, <2>2 DEF Waiting
  <2>3. CASE CpuOf(s) = c
    <3>1. Waiting(s) <=> s = x \/ \E i \in DOMAIN lanes[c] : lanes[c][i] = s  BY <2>3 DEF Waiting, x
    <3>2. Waiting(s)' <=> \E i \in DOMAIN lanes[c] : lanes[c][i] = s
      BY <1>1, <1>3, <1>4, <1>5, <2>1, <2>3 DEF Waiting
    <3>3. \A i \in DOMAIN lanes[c] : lanes[c][i] # x  BY <1>2, <1>4 DEF x
    <3> QED BY <3>1, <3>2, <3>3
  <2> QED BY <2>2, <2>3
<1>9. x \in Expected => Waiting(x)  BY <1>4 DEF Waiting, x
<1>10. Expected' = Expected /\ PassLayers' = PassLayers /\ RangeStart' = RangeStart /\ \A s : Layer(s)' = Layer(s)
  BY <1>1, SameJob, SamePass
<1>11. grids = [l \in PassLayers |-> SetToBag({s \in Expected : IsGridded(s, l)})]
  BY <1>1 DEF Inverting, InversionInv, GridsSoFar
<1>12. ASSUME NEW s \in Expected, NEW l \in PassLayers
       PROVE  IsGridded(s, l)' <=> IsGridded(s, l) \/ (s = x /\ Layer(x) = l + RangeStart)
  <2>1. IsGridded(s, l)' <=> Layer(s) = l + RangeStart /\ HandedOut(s) /\ ~(Waiting(s) /\ s # x)
    BY <1>6, <1>8, <1>10 DEF IsGridded
  <2>2. IsGridded(s, l) <=> Layer(s) = l + RangeStart /\ HandedOut(s) /\ ~Waiting(s)  BY DEF IsGridded
  <2> QED BY <1>4, <2>1, <2>2
<1>13. CASE x \in Expected /\ IsLayerInPass(Layer(x))
  <2>1. InPlane(x) /\ Weight(x) # 0  BY <1>13, ExpectedFacts DEF Counts, Inverting
  <2>2. grids' = [grids EXCEPT ![l0] = @ (+) SetToBag({x})]  BY <1>1, <1>13, <2>1
  <2>3. l0 \in PassLayers /\ \A l \in PassLayers : Layer(x) = l + RangeStart <=> l = l0
    BY <1>13, InRange DEF Inverting
  <2> DEFINE old(l) == {s \in Expected : IsGridded(s, l)}
             new(l) == {s \in Expected : IsGridded(s, l)'}
  <2> HIDE DEF l0
  <2>4. \A l \in PassLayers : new(l) = IF l = l0 THEN old(l) \cup {x} ELSE old(l)  BY <1>12, <1>13, <2>3
  <2>5. old(l0) \cap {x} = {}  BY <1>9, <1>13 DEF IsGridded
  <2>6. SetToBag(new(l0)) = SetToBag(old(l0)) (+) SetToBag({x})
    <3> HIDE DEF old, new
    <3>1. new(l0) = old(l0) \cup {x}  BY <2>3, <2>4
    <3> QED BY <2>5, <3>1, DisjointBags
  <2>7. grids = [l \in PassLayers |-> SetToBag(old(l))]  BY <1>11
  <2> HIDE DEF old, new
  <2>8. grids' = [l \in PassLayers |-> SetToBag(new(l))]  BY <2>2, <2>3, <2>4, <2>6, <2>7
  <2>9. GridsSoFar'  BY <1>10, <2>8 DEF GridsSoFar, new
  <2> QED BY <1>1, <1>7, <2>9 DEF GridsAndLanes, Gridding
<1>14. CASE ~(x \in Expected /\ IsLayerInPass(Layer(x)))
  <2>1. ~(IsLayerInPass(Layer(x)) /\ InPlane(x) /\ Weight(x) # 0)
    <3> SUFFICES ASSUME IsLayerInPass(Layer(x)), Weight(x) # 0 PROVE x \in Expected  BY <1>14
    <3>1. Layer(x) \in Nat
      <4>1. job \in Jobs /\ Limits  BY DEF Inverting, StepInv
      <4> QED BY <1>4, <4>1, SampleFacts, LayerIsNatural DEF Layer
    <3>2. Layer(x) < job.nWLayers  BY <3>1, PassFacts, JobFacts DEF Inverting, StepInv, IsLayerInPass
    <3> QED BY <1>4, <3>2 DEF Expected, HasLayer, Counts, Layer, Inverting
  <2>2. grids' = grids  BY <1>1, <2>1
  <2>3. ASSUME NEW s \in Expected, NEW l \in PassLayers PROVE IsGridded(s, l)' <=> IsGridded(s, l)
    <3>1. ~(s = x /\ Layer(x) = l + RangeStart)  BY <1>14, PassFacts DEF Inverting, PassLayers, IsLayerInPass
    <3> QED BY <1>12, <3>1
  <2>4. \A l \in PassLayers : {s \in Expected : IsGridded(s, l)'} = {s \in Expected : IsGridded(s, l)}  BY <2>3
  <2>5. GridsSoFar'  BY <1>10, <1>11, <2>2, <2>4 DEF GridsSoFar
  <2> QED BY <1>1, <1>7, <2>5 DEF GridsAndLanes, Gridding
<1> QED BY <1>13, <1>14

\* When the threads are joined all samples of the set are in the grids.
LEMMA SetIsDone ==
  ASSUME Inverting, JoinWorkers
  PROVE  GridsAndLanes'
<1>1. step = "joinWorkers" /\ Gridding /\ WorkersDone /\ UNCHANGED <<job, gridder, pass, grids>>
  BY DEF JoinWorkers, Gridding
<1>2. /\ job \in Jobs /\ ms \in Nat /\ ms \in DOMAIN job.sets /\ row = Len(Rows(ms)) + 1 /\ Len(Rows(ms)) \in Nat
      /\ Len(job.sets) \in Nat /\ DOMAIN job.sets = 1 .. Len(job.sets)
  <2>1. job \in Jobs /\ ms \in Nat /\ ms \in DOMAIN job.sets /\ row = Len(Rows(ms)) + 1
    BY <1>1 DEF Inverting, GriddingInv, Counters, StepInv, Position
  <2> QED BY <2>1, JobFacts, RowFacts
<1>3. ASSUME NEW s \in Samples PROVE HandedOut(s) <=> s[1] <= ms
  <2>1. s[1] \in Nat /\ s[2] \in Nat /\ (s[1] = ms => s[2] <= Len(Rows(ms)))  BY <1>2, InSet
  <2> QED BY <1>1, <1>2, <2>1 DEF HandedOut
<1>4. ASSUME NEW s \in Expected PROVE ~Waiting(s) /\ s \in Samples /\ CpuOf(s) \in Cpus
  <2>1. s \in Samples /\ s # Nothing /\ CpuOf(s) \in Cpus  BY <1>2, ExpectedFacts, SampleFacts DEF Inverting
  <2>2. lanes[CpuOf(s)] = <<>> /\ holding[CpuOf(s)] = Nothing  BY <1>1, <2>1 DEF WorkersDone
  <2>3. DOMAIN lanes[CpuOf(s)] = {}  BY <2>2
  <2> QED BY <2>1, <2>2, <2>3 DEF Waiting
<1>5. CASE ms < Len(job.sets)
  <2>1. step' = "read" /\ ms' = ms + 1 /\ row' = 1 /\ channel' = 1 /\ StartWorkers
    BY <1>5 DEF JoinWorkers, StartWorkers
  <2>2. LanesHoldSamples' /\ \A s \in Samples : CpuOf(s) \in Cpus => ~Waiting(s)'  BY <1>1, <1>2, <2>1, WorkersStart
  <2>3. ASSUME NEW s \in Samples PROVE HandedOut(s)' <=> s[1] <= ms
    <3>1. s[1] \in Nat /\ s[2] \in Nat \ {0}  BY <1>2, InSet
    <3> QED BY <1>2, <2>1, <3>1 DEF HandedOut
  <2>4. GridsSoFar'  BY <1>1, <1>3, <1>4, <2>2, <2>3, GridsKept
  <2> QED BY <2>1, <2>2, <2>4 DEF GridsAndLanes, Gridding
<1>6. CASE ~(ms < Len(job.sets))
  <2>1. step' = "transform"  BY <1>6 DEF JoinWorkers, StartTransforms
  <2>2. ASSUME NEW s \in Expected PROVE HandedOut(s)
    <3>1. s[1] \in 1 .. Len(job.sets)  BY <1>2, <1>4, SampleFacts
    <3> QED BY <1>2, <1>3, <1>4, <1>6, <3>1
  <2>3. grids = [l \in PassLayers |-> SetToBag({s \in Expected : IsGridded(s, l)})]
    BY <1>1 DEF Inverting, InversionInv, GridsSoFar
  <2>4. ASSUME NEW l PROVE {s \in Expected : IsGridded(s, l)} = {s \in Expected : Layer(s) = l + RangeStart}
    BY <1>4, <2>2 DEF IsGridded
  <2>5. GridsFull  BY <2>3, <2>4 DEF GridsFull
  <2>6. GridsFull'
    <3>1. Expected' = Expected /\ PassLayers' = PassLayers /\ RangeStart' = RangeStart /\ \A s : Layer(s)' = Layer(s)
      BY <1>1, SameJob, SamePass
    <3> QED BY <1>1, <2>5, <3>1 DEF GridsFull
  <2> QED BY <2>1, <2>6 DEF GridsAndLanes, Gridding
<1> QED BY <1>5, <1>6

\* The grids of a pass stay as they are while its layers are transformed.
LEMMA GridsStep ==
  ASSUME Inverting, PipelineNext, UNCHANGED <<job, gridder>>
  PROVE  GridsAndLanes'
<1>1. ASSUME step = "transform", UNCHANGED <<grids, step, pass>> PROVE GridsAndLanes'
  <2>1. GridsFull  BY <1>1 DEF Inverting, InversionInv
  <2>2. Expected' = Expected /\ PassLayers' = PassLayers /\ RangeStart' = RangeStart /\ \A s : Layer(s)' = Layer(s)
    BY <1>1, SameJob, SamePass
  <2>3. GridsFull'  BY <1>1, <2>1, <2>2 DEF GridsFull
  <2> QED BY <1>1, <2>3 DEF GridsAndLanes, Gridding
<1>2. ASSUME NEW c, TakeLayer(c) \/ TransformToImage(c) PROVE GridsAndLanes'
  BY <1>1, <1>2 DEF TakeLayer, TransformToImage, Transforming
<1>3. CASE FinishInversionPass  BY <1>3 DEF FinishInversionPass, NextPass, GridsAndLanes, Gridding
<1>4. CASE Finalize  BY <1>4 DEF Finalize, GridsAndLanes, Gridding
<1>5. CASE PipelineOver  BY <1>5 DEF PipelineOver, pipelineVars, GridsAndLanes, Gridding
<1>6. /\ ~Prepare /\ ~StartPredictionPass /\ ~FinishTransforms /\ ~QueueRow /\ ~JoinPrediction /\ ~WriteRow
      /\ \A c : ~TransformToGrid(c) /\ ~TakeRow(c) /\ ~PassOnRow(c)
  BY DEF Inverting, StepInv, Position, Prepare, StartPredictionPass, FinishTransforms, QueueRow, JoinPrediction,
         WriteRow, Calculating, TransformToGrid, TakeRow, PassOnRow
<1> QED BY <1>2, <1>3, <1>4, <1>5, <1>6, PassIsStarted, RowIsSkipped, RowIsRead, SampleGoesToLane, SampleLeavesLane,
           SampleGoesToGrid, SetIsDone DEF PipelineNext, MainStep, WorkerStep

LEMMA ImagesKept ==
  ASSUME Inverting, step # "done", UNCHANGED <<job, gridder, images>>,
         \A s \in Expected : InImages(s)' <=> InImages(s)
  PROVE  ImagesSoFar'
<1>1. Expected' = Expected /\ Threads2D' = Threads2D /\ \A s : Layer(s)' = Layer(s)  BY SameJob
<1>2. ImagesSoFar  BY DEF Inverting, InversionInv
<1>3. {s \in Expected : InImages(s)'} = {s \in Expected : InImages(s)}  OBVIOUS
<1>4. {<<s, Layer(s)'>> : s \in {s \in Expected' : InImages(s)'}} = {<<s, Layer(s)>> : s \in {s \in Expected : InImages(s)}}
  BY <1>1, <1>3
<1> QED BY <1>1, <1>2, <1>4 DEF ImagesSoFar

\* The thread that transforms a layer adds all of its samples to its image, where none of them was.
LEMMA LayerGoesToImage ==
  ASSUME Inverting, NEW t \in DOMAIN holding, TransformToImage(t)
  PROVE  ImagesSoFar'
<1> DEFINE l == holding[t][1]
           S == {s \in Expected : Layer(s) = l + RangeStart}
           C == {<<s, Layer(s)>> : s \in S}
           corrected == [p \in {<<s, LayerOf(l)>> : s \in DOMAIN grids[l]} |-> grids[l][p[1]]]
           D(u) == DOMAIN images[u]
<1>1. /\ step = "transform" /\ holding[t] # Nothing /\ images' = [images EXCEPT ![t] = @ (+) corrected]
      /\ holding' = [holding EXCEPT ![t] = Nothing]
      /\ UNCHANGED <<job, gridder, step, pass, layers, grids>>  BY DEF TransformToImage, Transforming
<1>2. /\ t \in FFTThreads /\ l \in PassLayers /\ ~IsTransformed(l)
      /\ \A k : IsTransformed(k)' <=> IsTransformed(k) \/ k = l  BY <1>1, LayerIsTransformed DEF Inverting
<1>3. t \in Threads2D  BY <1>2, PassFacts DEF Inverting
<1>4. ImagesSoFar  BY <1>1 DEF Inverting, InversionInv
<1>5. grids[l] = SetToBag(S)  BY <1>1, <1>2 DEF Inverting, InversionInv, GridsFull
<1>6. corrected = SetToBag(C)
  <2>1. DOMAIN grids[l] = S /\ \A s \in S : grids[l][s] = 1  BY <1>5 DEF SetToBag
  <2> HIDE DEF l
  <2>2. {<<s, LayerOf(l)>> : s \in DOMAIN grids[l]} = C  BY <2>1 DEF LayerOf
  <2>3. \A p \in C : grids[l][p[1]] = 1  BY <2>1
  <2>4. corrected = [p \in C |-> 1]  BY <2>2, <2>3
  <2> QED BY <2>4 DEF SetToBag
<1> HIDE DEF l, S, C, corrected
<1>7. \A s \in Expected : Layer(s) \in Nat  BY ExpectedFacts DEF Inverting
<1>8. RangeStart \in Nat /\ RangeEnd \in Nat /\ l \in Nat  BY <1>2, PassFacts DEF Inverting, PassLayers
<1>9. ASSUME NEW s \in Expected, Layer(s) = l + RangeStart PROVE ~InImages(s)
  <2>1. ~(Layer(s) < RangeStart) /\ Layer(s) - RangeStart = l  BY <1>8, <1>9
  <2> QED BY <1>1, <1>2, <2>1 DEF InImages
<1>10. \A u \in Threads2D : D(u) \subseteq {<<s, Layer(s)>> : s \in {s \in Expected : InImages(s)}}
  BY <1>4 DEF ImagesSoFar
<1>11. \A u \in Threads2D : D(u) \cap C = {}
  <2> SUFFICES ASSUME NEW u \in Threads2D, NEW p \in D(u), p \in C PROVE FALSE  OBVIOUS
  <2>1. PICK s \in Expected : p = <<s, Layer(s)>> /\ InImages(s)  BY <1>10
  <2>2. PICK v \in S : p = <<v, Layer(v)>>  BY DEF C
  <2>3. s = v  BY <2>1, <2>2
  <2> QED BY <1>9, <2>1, <2>2, <2>3 DEF S
<1>12. images \in [Threads2D -> {SetToBag(D(u)) : u \in Threads2D}] /\ \A u \in Threads2D : images[u] = SetToBag(D(u))
  BY <1>4 DEF ImagesSoFar
<1>13. \A u \in Threads2D : images'[u] = IF u = t THEN SetToBag(D(u) \cup C) ELSE SetToBag(D(u))
  <2>1. images[t] (+) corrected = SetToBag(D(t) \cup C)
    <3> HIDE DEF D
    <3> QED BY <1>3, <1>6, <1>11, <1>12, DisjointBags
  <2> HIDE DEF D
  <2> QED BY <1>1, <1>12, <2>1
<1>14. \A u \in Threads2D : DOMAIN images'[u] = IF u = t THEN D(u) \cup C ELSE D(u)
  <2>1. \A A : DOMAIN SetToBag(A) = A  BY DEF SetToBag
  <2> HIDE DEF D
  <2> QED BY <1>13, <2>1
<1>15. Expected' = Expected /\ Threads2D' = Threads2D /\ \A s : Layer(s)' = Layer(s)  BY <1>1, SameJob
<1>16. images' = [u \in Threads2D |-> SetToBag(DOMAIN images'[u])]
  <2>1. DOMAIN images' = Threads2D /\ images' = [u \in Threads2D |-> images'[u]]  BY <1>1, <1>12
  <2>2. \A u \in Threads2D : images'[u] = SetToBag(DOMAIN images'[u])
    <3> HIDE DEF D
    <3> QED BY <1>13, <1>14
  <2> QED BY <2>1, <2>2
<1>17. \A u, v \in Threads2D : u # v => DOMAIN images'[u] \cap DOMAIN images'[v] = {}
  <2>1. \A u, v \in Threads2D : u # v => D(u) \cap D(v) = {}  BY <1>4 DEF ImagesSoFar
  <2> HIDE DEF D
  <2> QED BY <1>11, <1>14, <2>1
<1>18. UNION {DOMAIN images'[u] : u \in Threads2D} = (UNION {D(u) : u \in Threads2D}) \cup C
  <2> HIDE DEF D
  <2> DEFINE before == UNION {D(u) : u \in Threads2D}
             after == UNION {DOMAIN images'[u] : u \in Threads2D}
  <2>1. \A p : p \in before <=> \E u \in Threads2D : p \in D(u)  OBVIOUS
  <2>2. \A p : p \in after <=> \E u \in Threads2D : p \in DOMAIN images'[u]  OBVIOUS
  <2> HIDE DEF before, after
  <2>3. \A p : p \in after <=> p \in before \cup C  BY <1>3, <1>14, <2>1, <2>2
  <2>4. after = before \cup C  BY <2>3
  <2> QED BY <2>4 DEF before, after
<1>19. ASSUME NEW s \in Expected PROVE InImages(s)' <=> InImages(s) \/ Layer(s) = l + RangeStart
  <2>1. RangeStart' = RangeStart /\ IsLayerInPass(Layer(s))' = IsLayerInPass(Layer(s)) /\ FFTThreads' = FFTThreads
    BY <1>1, <1>15, SamePass
  <2>3. InImages(s)' <=> Layer(s) < RangeStart \/ (IsLayerInPass(Layer(s)) /\ IsTransformed(Layer(s) - RangeStart)')
    BY <1>1, <1>15, <2>1 DEF InImages, IsTransformed
  <2>4. InImages(s) <=> Layer(s) < RangeStart \/ (IsLayerInPass(Layer(s)) /\ IsTransformed(Layer(s) - RangeStart))
    BY <1>1 DEF InImages
  <2>5. Layer(s) - RangeStart = l <=> Layer(s) = l + RangeStart  BY <1>7, <1>8
  <2>6. Layer(s) = l + RangeStart => IsLayerInPass(Layer(s))
    BY <1>2, <1>8, PassFacts DEF IsLayerInPass, PassLayers, Inverting
  <2>7. IsTransformed(Layer(s) - RangeStart)' <=> IsTransformed(Layer(s) - RangeStart) \/ Layer(s) - RangeStart = l
    BY <1>2, <1>15, <2>1
  <2> QED BY <2>3, <2>4, <2>5, <2>6, <2>7
<1>20. {<<s, Layer(s)>> : s \in {s \in Expected : InImages(s)'}} = {<<s, Layer(s)>> : s \in {s \in Expected : InImages(s)}} \cup C
  <2>1. {s \in Expected : InImages(s)'} = {s \in Expected : InImages(s)} \cup S  BY <1>19 DEF S
  <2> QED BY <2>1 DEF C
<1>21. UNION {D(u) : u \in Threads2D} = {<<s, Layer(s)>> : s \in {s \in Expected : InImages(s)}}
  BY <1>4 DEF ImagesSoFar
<1>22. UNION {DOMAIN images'[u] : u \in Threads2D} = {<<s, Layer(s)'>> : s \in {s \in Expected' : InImages(s)'}}
  <2> DEFINE before == {<<s, Layer(s)>> : s \in {s \in Expected : InImages(s)}}
             now == {<<s, Layer(s)>> : s \in {s \in Expected : InImages(s)'}}
             after == {<<s, Layer(s)'>> : s \in {s \in Expected' : InImages(s)'}}
             old == UNION {D(u) : u \in Threads2D}
  <2>1. after = now  BY <1>15
  <2>2. now = before \cup C /\ old = before  BY <1>20, <1>21
  <2>3. UNION {DOMAIN images'[u] : u \in Threads2D} = old \cup C  BY <1>18
  <2> HIDE DEF before, now, after, old
  <2>4. UNION {DOMAIN images'[u] : u \in Threads2D} = after  BY <2>1, <2>2, <2>3
  <2> QED BY <2>4 DEF after
<1> QED BY <1>15, <1>16, <1>17, <1>22 DEF ImagesSoFar

LEMMA ImagesStep ==
  ASSUME Inverting, PipelineNext, UNCHANGED <<job, gridder>>, step' # "done"
  PROVE  ImagesSoFar'
<1>1. /\ step \in {"startPass", "read", "send", "joinWorkers", "transform", "queue", "finalize", "done"} /\ step # "prepare"
      /\ job.kind = "invert" /\ Position /\ job \in Jobs  BY DEF Inverting, StepInv
<1>2. RangeStart \in Nat /\ RangeEnd \in Nat /\ RangeStart <= RangeEnd /\ pass \in Nat  BY PassFacts DEF Inverting
<1>3. \A s \in Expected : /\ Layer(s) \in Nat /\ (IsLayerInPass(Layer(s)) <=> Layer(s) - RangeStart \in PassLayers)
                          /\ Layer(s) < RangeEnd <=> (Layer(s) < RangeStart \/ IsLayerInPass(Layer(s)))
  BY ExpectedFacts, InRange DEF Inverting
<1>4. ASSUME pass' = pass
      PROVE  /\ \A s : Layer(s)' = Layer(s) /\ IsLayerInPass(Layer(s))' = IsLayerInPass(Layer(s))
             /\ RangeStart' = RangeStart /\ PassLayers' = PassLayers /\ FFTThreads' = FFTThreads
  BY <1>4, SameJob, SamePass
<1>5. ASSUME UNCHANGED <<pass, images>>, step \notin {"transform", "finalize", "done"}, step' \notin {"transform", "finalize"}
      PROVE  ImagesSoFar'
  <2>1. \A s \in Expected : InImages(s)' <=> InImages(s)  BY <1>4, <1>5 DEF InImages
  <2> QED BY <1>5, <2>1, ImagesKept
<1>6. CASE StartInversionPass \/ SkipRow \/ ReadRow \/ SendSample \/ EndOfSet
  BY <1>5, <1>6 DEF StartInversionPass, SkipRow, ReadRow, SendSample, EndOfSet
<1>7. ASSUME NEW c, TakeSample(c) \/ AddDataSample(c) PROVE ImagesSoFar'
  BY <1>5, <1>7 DEF TakeSample, AddDataSample, Working
<1>8. CASE JoinWorkers
  <2>1. CASE ms < Len(job.sets)  BY <1>5, <1>8, <2>1 DEF JoinWorkers, StartWorkers
  <2>2. CASE ~(ms < Len(job.sets))
    <3>1. step = "joinWorkers" /\ step' = "transform" /\ layers' = PassLayers /\ UNCHANGED <<pass, images>>
      BY <1>8, <2>2 DEF JoinWorkers, StartTransforms, PassLayers
    <3>2. ASSUME NEW s \in Expected PROVE InImages(s)' <=> InImages(s)
      <4>1. IsLayerInPass(Layer(s)) => ~IsTransformed(Layer(s) - RangeStart)'  BY <1>3, <1>4, <3>1 DEF IsTransformed
      <4>2. InImages(s)' <=> Layer(s) < RangeStart \/ (IsLayerInPass(Layer(s)) /\ IsTransformed(Layer(s) - RangeStart)')
        BY <1>4, <3>1 DEF InImages, IsTransformed
      <4> QED BY <3>1, <4>1, <4>2 DEF InImages
    <3> QED BY <3>1, <3>2, ImagesKept
  <2> QED BY <2>1, <2>2
<1>9. ASSUME NEW t \in DOMAIN holding, TakeLayer(t) PROVE ImagesSoFar'
  <2>1. step = "transform" /\ step' = "transform" /\ UNCHANGED <<pass, images>>  BY <1>9 DEF TakeLayer, Transforming
  <2>5. \A k : IsTransformed(k)' <=> IsTransformed(k)  BY <1>9, <2>1, TransformedKept DEF Inverting
  <2>6. ASSUME NEW s \in Expected PROVE InImages(s)' <=> InImages(s)
    <3>1. InImages(s)' <=> Layer(s) < RangeStart \/ (IsLayerInPass(Layer(s)) /\ IsTransformed(Layer(s) - RangeStart)')
      BY <1>4, <2>1 DEF InImages, IsTransformed
    <3>2. IsTransformed(Layer(s) - RangeStart)' <=> IsTransformed(Layer(s) - RangeStart)  BY <1>4, <2>1, <2>5
    <3> QED BY <2>1, <3>1, <3>2 DEF InImages
  <2> QED BY <2>1, <2>6, ImagesKept
<1>10. CASE FinishInversionPass
  <2>1. step = "transform" /\ images' = images /\ NextPass /\ layers = {} /\ \A t \in FFTThreads : holding[t] = Nothing
    BY <1>10 DEF FinishInversionPass, Transforming, TransformsDone
  <2>2. ASSUME NEW s \in Expected PROVE InImages(s) <=> Layer(s) < RangeEnd
    <3>1. IsTransformed(Layer(s) - RangeStart)  BY <2>1 DEF IsTransformed, Nothing
    <3> QED BY <1>3, <2>1, <3>1 DEF InImages
  <2>3. CASE pass + 1 < gridder.nPasses
    <3>1. step' = "startPass" /\ pass' = pass + 1  BY <2>1, <2>3 DEF NextPass
    <3>2. RangeStart' = RangeEnd  BY <3>1 DEF RangeStart, RangeEnd, LayerRangeStart
    <3>3. ASSUME NEW s \in Expected PROVE InImages(s)' <=> InImages(s)
      <4>1. InImages(s)' <=> Layer(s) < RangeEnd  BY <3>1, <3>2, SameJob DEF InImages
      <4> QED BY <2>2, <4>1
    <3> QED BY <2>1, <3>3, ImagesKept
  <2>4. CASE ~(pass + 1 < gridder.nPasses)
    <3>1. step' = "finalize" /\ pass' = pass  BY <2>1, <2>4 DEF NextPass
    <3>2. ASSUME NEW s \in Expected PROVE InImages(s)' <=> InImages(s)
      <4>1. InImages(s)' <=> Layer(s) < RangeStart \/ IsLayerInPass(Layer(s))  BY <1>4, <3>1 DEF InImages
      <4> QED BY <1>3, <2>2, <4>1
    <3> QED BY <2>1, <3>2, ImagesKept
  <2> QED BY <2>3, <2>4
<1>11. ~Finalize /\ ~PipelineOver  BY DEF Finalize, PipelineOver, pipelineVars
<1>12. /\ ~Prepare /\ ~StartPredictionPass /\ ~FinishTransforms /\ ~QueueRow /\ ~JoinPrediction /\ ~WriteRow
       /\ \A c : ~TransformToGrid(c) /\ ~TakeRow(c) /\ ~PassOnRow(c)
  BY <1>1 DEF Position, Prepare, StartPredictionPass, FinishTransforms, QueueRow, JoinPrediction,
         WriteRow, Calculating, TransformToGrid, TakeRow, PassOnRow
<1> QED BY <1>6, <1>7, <1>8, <1>9, <1>10, <1>11, <1>12, LayerGoesToImage DEF PipelineNext, MainStep, WorkerStep

\* What the threads hold together up to thread t.
Together(t) == UNION {DOMAIN images[u] : u \in 0 .. t}

\* A function that adds up the images of the threads, one after another.
AddsUp(f) ==
  f = [t \in Threads2D |-> IF t = 0 THEN images[0] ELSE f[t - 1] (+) images[t]]

LEMMA TogetherAddsUp ==
  ASSUME gridder.nFFTThreads \in Nat \ {0},
         images = [t \in Threads2D |-> SetToBag(DOMAIN images[t])],
         \A t, u \in Threads2D : t # u => DOMAIN images[t] \cap DOMAIN images[u] = {}
  PROVE  AddsUp([t \in Threads2D |-> SetToBag(Together(t))])
<1> DEFINE F == [t \in Threads2D |-> SetToBag(Together(t))]
<1>1. images[0] = SetToBag(Together(0)) /\ 0 \in Threads2D
  <2>1. 0 \in Threads2D  BY DEF Threads2D
  <2>2. Together(0) = DOMAIN images[0]  BY DEF Together
  <2> QED BY <2>1, <2>2
<1>2. ASSUME NEW t \in Threads2D, t # 0 PROVE SetToBag(Together(t)) = F[t - 1] (+) images[t]
  <2>1. t \in Nat /\ t - 1 \in Threads2D  BY <1>2 DEF Threads2D
  <2>2. 0 .. t = (0 .. t - 1) \cup {t} /\ 0 .. t - 1 \subseteq Threads2D /\ t \notin 0 .. t - 1
    BY <1>2, <2>1 DEF Threads2D
  <2>3. Together(t) = Together(t - 1) \cup DOMAIN images[t]  BY <2>2 DEF Together
  <2>4. Together(t - 1) \cap DOMAIN images[t] = {}
    <3>1. \A u \in 0 .. t - 1 : DOMAIN images[u] \cap DOMAIN images[t] = {}  BY <2>2
    <3> QED BY <3>1 DEF Together
  <2>5. SetToBag(Together(t - 1)) (+) SetToBag(DOMAIN images[t]) = SetToBag(Together(t))  BY <2>3, <2>4, DisjointBags
  <2>6. F[t - 1] = SetToBag(Together(t - 1)) /\ images[t] = SetToBag(DOMAIN images[t])  BY <2>1
  <2> QED BY <2>5, <2>6
<1>3. \A t \in Threads2D : F[t] = SetToBag(Together(t))  OBVIOUS
<1> HIDE DEF F
<1>4. \A t \in Threads2D : F[t] = IF t = 0 THEN images[0] ELSE F[t - 1] (+) images[t]  BY <1>1, <1>2, <1>3
<1>5. F = [t \in Threads2D |-> F[t]]  BY DEF F
<1>6. AddsUp(F)  BY <1>4, <1>5 DEF AddsUp
<1> QED BY <1>6 DEF F

\* There is one such function: two of them differ nowhere, as they would differ first at some thread.
LEMMA OneSum ==
  ASSUME gridder.nFFTThreads \in Nat \ {0}, NEW f, NEW g, AddsUp(f), AddsUp(g)
  PROVE  f = g
<1> DEFINE Differ == {t \in Threads2D : f[t] # g[t]}
<1>1. Threads2D \subseteq Nat  BY DEF Threads2D
<1>2. \A t \in Threads2D : /\ f[t] = IF t = 0 THEN images[0] ELSE f[t - 1] (+) images[t]
                           /\ g[t] = IF t = 0 THEN images[0] ELSE g[t - 1] (+) images[t]  BY DEF AddsUp
<1>3. f = [t \in Threads2D |-> f[t]] /\ g = [t \in Threads2D |-> g[t]]  BY DEF AddsUp
<1>4. Differ = {}
  <2> SUFFICES ASSUME Differ # {} PROVE FALSE  OBVIOUS
  <2>0. Differ \subseteq Nat  BY <1>1
  <2> HIDE DEF Differ
  <2>1. PICK t \in Differ : \A u \in Differ : t <= u  BY <2>0, LeastElement
  <2>2. t \in Threads2D /\ f[t] # g[t] /\ t \in Nat  BY <1>1, <2>1 DEF Differ
  <2>3. t # 0  BY <1>2, <2>2
  <2>4. t - 1 \in Threads2D /\ ~(t <= t - 1)  BY <2>2, <2>3 DEF Threads2D
  <2>5. f[t - 1] = g[t - 1]  BY <2>1, <2>4 DEF Differ
  <2> QED BY <1>2, <2>2, <2>3, <2>5
<1> QED BY <1>3, <1>4

LEMMA ImagesAreSummed ==
  ASSUME gridder.nFFTThreads \in Nat \ {0},
         images = [t \in Threads2D |-> SetToBag(DOMAIN images[t])],
         \A t, u \in Threads2D : t # u => DOMAIN images[t] \cap DOMAIN images[u] = {}
  PROVE  SumOfImages = SetToBag(UNION {DOMAIN images[t] : t \in Threads2D})
<1> DEFINE F == [t \in Threads2D |-> SetToBag(Together(t))]
           last == gridder.nFFTThreads - 1
           sum == CHOOSE f : AddsUp(f)
<1>1. AddsUp(F)  BY TogetherAddsUp
<1> HIDE DEF F
<1>2. AddsUp(sum)  BY <1>1
<1>3. SumOfImages = sum[last]  BY DEF SumOfImages, AddsUp, Threads2D
<1> HIDE DEF sum
<1>4. sum = F  BY <1>1, <1>2, OneSum
<1>5. last \in Threads2D /\ 0 .. last = Threads2D  BY DEF Threads2D
<1>6. F[last] = SetToBag(Together(last))  BY <1>5 DEF F
<1>7. Together(last) = UNION {DOMAIN images[t] : t \in Threads2D}  BY <1>5 DEF Together
<1> QED BY <1>3, <1>4, <1>6, <1>7

\* An image of an inversion holds every sample that counts, once.
LEMMA SamplesAreInImage ==
  ASSUME Inverting, Finalize
  PROVE  EachSampleOnce'
<1>1. /\ step = "finalize" /\ step' = "done" /\ images' = [images EXCEPT ![0] = SumOfImages]
      /\ UNCHANGED <<job, gridder, pass, weighed>> /\ job.kind = "invert"  BY DEF Finalize, Inverting
<1>2. pass = gridder.nPasses - 1 /\ gridder.nFFTThreads \in Nat \ {0} /\ ImagesSoFar /\ WeighedSoFar
  BY <1>1 DEF Inverting, StepInv, Position, Limits, InversionInv
<1>3. RangeEnd = job.nWLayers  BY <1>2, PassFacts DEF Inverting
<1>4. ASSUME NEW s \in Expected PROVE InImages(s) /\ ToBeWeighed(s)
  <2>1. Layer(s) < RangeStart \/ IsLayerInPass(Layer(s))  BY <1>3, ExpectedFacts, InRange DEF Inverting
  <2> QED BY <1>1, <2>1 DEF InImages, ToBeWeighed, Gridding
<1>5. {s \in Expected : InImages(s)} = Expected /\ {s \in Expected : ToBeWeighed(s)} = Expected  BY <1>4
<1>6. weighed = SetToBag(Expected)  BY <1>2, <1>5 DEF WeighedSoFar
<1>7. SumOfImages = SetToBag({<<s, Layer(s)>> : s \in Expected})
  <2>1. UNION {DOMAIN images[t] : t \in Threads2D} = {<<s, Layer(s)>> : s \in Expected}  BY <1>2, <1>5 DEF ImagesSoFar
  <2>2. SumOfImages = SetToBag(UNION {DOMAIN images[t] : t \in Threads2D})  BY <1>2, ImagesAreSummed DEF ImagesSoFar
  <2> QED BY <2>1, <2>2
<1>8. images'[0] = SumOfImages
  <2>1. 0 \in DOMAIN images  BY <1>2, PassFacts DEF ImagesSoFar, Inverting
  <2> QED BY <1>1, <2>1
<1>9. Expected = {s \in Samples : HasLayer(s) /\ Weight(s) # 0}  BY <1>1 DEF Expected, Counts
<1> DEFINE gridded == {s \in Samples : HasLayer(s) /\ Weight(s) # 0}
<1>10. /\ Samples' = Samples /\ \A s : (HasLayer(s) <=> HasLayer(s)') /\ Weight(s)' = Weight(s) /\ W(s)' = W(s)
       /\ \A w : WToLayer(w)' = WToLayer(w)
  <2>1. \A w : WToLayer(w)' = WToLayer(w)  BY <1>1 DEF WToLayer
  <2>2. \A s : W(s)' = W(s) /\ Weight(s)' = Weight(s)  BY <1>1 DEF W, Weight
  <2> QED BY <1>1, <2>1, <2>2, SameJob DEF HasLayer
<1>11. gridded' = gridded  BY <1>10
<1>12. {<<s, WToLayer(W(s))>> : s \in gridded}' = {<<s, Layer(s)>> : s \in gridded}  BY <1>10, <1>11 DEF Layer
<1>13. EachSampleGriddedOnce'  BY <1>6, <1>7, <1>8, <1>9, <1>11, <1>12, <1>1 DEF EachSampleGriddedOnce
<1>14. EachSamplePredictedOnce'  BY <1>1 DEF EachSamplePredictedOnce
<1> QED BY <1>13, <1>14 DEF EachSampleOnce

----
(* Predicting *)

Predicting ==
  /\ StepInv /\ step # "prepare" /\ SamplesInReach
  /\ job.kind = "predict" /\ PredictionInv

LEMMA PredictedKept ==
  ASSUME Predicting, UNCHANGED <<job, gridder, predicted>>, \A s \in Expected : IsPredicted(s)' <=> IsPredicted(s)
  PROVE  PredictedSoFar'
<1>1. Expected' = Expected /\ Samples' = Samples /\ \A s : Layer(s)' = Layer(s)  BY SameJob
<1>2. \A s : IsPredicted(s)' <=> IsPredicted(s)  BY <1>1 DEF IsPredicted
<1>3. predicted = [s \in Samples |-> IF IsPredicted(s) THEN <<SetToBag({Layer(s)})>> ELSE <<>>]
  BY DEF Predicting, PredictionInv, PredictedSoFar
<1> QED BY <1>1, <1>2, <1>3 DEF PredictedSoFar

LEMMA PassIsPrepared ==
  ASSUME Predicting, StartPredictionPass
  PROVE  PredictionInv'
<1>1. /\ step = "startPass" /\ step' = "transform" /\ grids' = EmptyGrids /\ layers' = PassLayers
      /\ UNCHANGED <<job, gridder, pass, predicted>>  BY DEF StartPredictionPass, StartTransforms, PassLayers
<1>2. /\ \A s : Layer(s)' = Layer(s)
      /\ Expected' = Expected /\ RangeStart' = RangeStart /\ PassLayers' = PassLayers  BY <1>1, SameJob, SamePass
<1>3. \A s \in Expected : IsPredicted(s)' <=> IsPredicted(s)  BY <1>1, <1>2 DEF IsPredicted
<1>4. \A l \in PassLayers : ~IsTransformed(l)'  BY <1>1 DEF IsTransformed
<1>5. GridsOfModel'  BY <1>1, <1>2, <1>4 DEF GridsOfModel, EmptyGrids, PassLayers
<1> QED BY <1>1, <1>3, <1>5, PredictedKept DEF PredictionInv

\* While the layers are transformed their grids get the model.
LEMMA GridsAreMade ==
  ASSUME Predicting, NEW t \in DOMAIN holding, TakeLayer(t) \/ TransformToGrid(t)
  PROVE  PredictionInv'
<1>1. step = "transform" /\ UNCHANGED <<job, gridder, step, pass, predicted>>
  BY DEF TakeLayer, TransformToGrid, Transforming
<1>2. /\ \A s : Layer(s)' = Layer(s)
      /\ Expected' = Expected /\ RangeStart' = RangeStart /\ PassLayers' = PassLayers  BY <1>1, SameJob, SamePass
<1>3. \A s \in Expected : IsPredicted(s)' <=> IsPredicted(s)  BY <1>1, <1>2 DEF IsPredicted
<1>4. grids = [l \in PassLayers |-> IF IsTransformed(l) THEN SetToBag({l + RangeStart}) ELSE EmptyBag]
  BY <1>1 DEF Predicting, PredictionInv, GridsOfModel
<1>5. GridsOfModel'
  <2>1. CASE TakeLayer(t)
    <3>1. \A k : IsTransformed(k)' <=> IsTransformed(k)  BY <1>1, <2>1, TransformedKept DEF Predicting
    <3>2. grids' = grids  BY <2>1 DEF TakeLayer
    <3> QED BY <1>1, <1>2, <1>4, <3>1, <3>2 DEF GridsOfModel
  <2>2. CASE TransformToGrid(t)
    <3> DEFINE l == holding[t][1]
    <3>1. /\ holding[t] # Nothing /\ holding' = [holding EXCEPT ![t] = Nothing] /\ layers' = layers
          /\ grids' = [grids EXCEPT ![l] = SetToBag({l + RangeStart})]  BY <2>2 DEF TransformToGrid, LayerOf
    <3>2. l \in PassLayers /\ \A k : IsTransformed(k)' <=> IsTransformed(k) \/ k = l
      BY <1>1, <3>1, LayerIsTransformed DEF Predicting
    <3> HIDE DEF l
    <3>3. grids' = [k \in PassLayers |-> IF IsTransformed(k) \/ k = l THEN SetToBag({k + RangeStart}) ELSE EmptyBag]
      BY <1>4, <3>1, <3>2
    <3> QED BY <1>1, <1>2, <3>2, <3>3 DEF GridsOfModel
  <2> QED BY <2>1, <2>2
<1> QED BY <1>1, <1>3, <1>5, PredictedKept DEF PredictionInv

\* Threads that start have no rows.
LEMMA CalculatorsStart ==
  ASSUME StartCalculating, UNCHANGED <<job, gridder>>
  PROVE  RowsOnTheirWay' /\ \A r : ~IsOnItsWay(r)'
<1>1. lanes' = [lane \in {"calc", "write"} |-> <<>>] /\ holding' = [c \in Cpus |-> Nothing] /\ Cpus' = Cpus
  BY SameJob DEF StartCalculating
<1>2. lanes'["calc"] = <<>> /\ lanes'["write"] = <<>> /\ DOMAIN lanes' = {"calc", "write"}  BY <1>1
<1>3. DOMAIN lanes'["calc"] = {} /\ DOMAIN lanes'["write"] = {}  BY <1>2
<1>4. HeldRows' = {}  BY <1>1 DEF HeldRows
<1>5. lanes'["calc"] \in Seq(1 .. row' - 1) /\ lanes'["write"] \in Seq(RowsToWrite')  BY <1>2
<1>6. holding' \in [Cpus' -> {Nothing} \cup RowsToWrite']  BY <1>1
<1>7. RowsOnTheirWay'  BY <1>2, <1>3, <1>4, <1>5, <1>6 DEF RowsOnTheirWay
<1>8. \A r : ~IsOnItsWay(r)'  BY <1>3, <1>4 DEF IsOnItsWay
<1> QED BY <1>7, <1>8

LEMMA RowsAreNext ==
  ASSUME Predicting, FinishTransforms
  PROVE  PredictionInv'
<1>1. /\ step = "transform" /\ step' = "queue" /\ ms' = 1 /\ row' = 1 /\ StartCalculating
      /\ layers = {} /\ (\A t \in FFTThreads : holding[t] = Nothing)
      /\ UNCHANGED <<job, gridder, pass, grids, predicted>>
  BY DEF FinishTransforms, Transforming, TransformsDone, StartCalculating
<1>2. /\ \A s : Layer(s)' = Layer(s)
      /\ Expected' = Expected /\ RangeStart' = RangeStart /\ PassLayers' = PassLayers  BY <1>1, SameJob, SamePass
<1>3. ASSUME NEW s \in Expected PROVE IsPredicted(s)' <=> IsPredicted(s)
  <2>1. s[1] \in Nat \ {0} /\ s[2] \in Nat \ {0}  BY InSet DEF Predicting, StepInv, Expected
  <2>2. ~RowIsWritten(s)'  BY <1>1, <2>1 DEF RowIsWritten
  <2> QED BY <1>1, <1>2, <2>2 DEF IsPredicted
<1>4. \A l : IsTransformed(l)  BY <1>1 DEF IsTransformed, Nothing
<1>5. grids = [l \in PassLayers |-> IF IsTransformed(l) THEN SetToBag({l + RangeStart}) ELSE EmptyBag]
  BY <1>1 DEF Predicting, PredictionInv, GridsOfModel
<1>6. GridsOfModel'  BY <1>1, <1>2, <1>4, <1>5 DEF GridsOfModel
<1>7. RowsOnTheirWay'  BY <1>1, CalculatorsStart
<1> QED BY <1>1, <1>3, <1>6, <1>7, PredictedKept DEF PredictionInv

Queueing == Predicting /\ step = "queue"

LEMMA QueueFacts ==
  ASSUME Queueing
  PROVE  /\ job \in Jobs /\ ms \in DOMAIN job.sets /\ ms \in Nat /\ row \in Nat \ {0}
         /\ row <= Len(Rows(ms)) + 1 /\ Len(Rows(ms)) \in Nat /\ RowsOnTheirWay
         /\ DOMAIN job.sets = 1 .. Len(job.sets) /\ Len(job.sets) \in Nat
<1>1. job \in Jobs /\ ms \in DOMAIN job.sets /\ row \in 1 .. Len(Rows(ms)) + 1 /\ RowsOnTheirWay
  BY DEF Queueing, Predicting, StepInv, Position, PredictionInv
<1>2. Len(Rows(ms)) \in Nat /\ DOMAIN job.sets = 1 .. Len(job.sets) /\ Len(job.sets) \in Nat
  BY <1>1, RowFacts, JobFacts
<1> QED BY <1>1, <1>2

\* What a row is predicted from does not change before the rows of the set are written.
LEMMA SameModel ==
  ASSUME Queueing, UNCHANGED <<job, gridder, step, pass, ms, grids>>
  PROVE  /\ \A r : SampleData(r)' = SampleData(r)
         /\ GridsOfModel' /\ Cpus' = Cpus /\ Expected' = Expected /\ \A s : Layer(s)' = Layer(s)
         /\ \A s : IsLayerInPass(Layer(s))' = IsLayerInPass(Layer(s))
         /\ RangeStart' = RangeStart
<1>1. /\ Cpus' = Cpus /\ Expected' = Expected /\ \A s : Layer(s)' = Layer(s) /\ W(s)' = W(s) /\ InPlane(s)' = InPlane(s)
      /\ RangeStart' = RangeStart /\ PassLayers' = PassLayers
      /\ \A l : IsLayerInPass(l)' = IsLayerInPass(l)  BY SameJob, SamePass
<1>2. \A r : Channels(ms, r)' = Channels(ms, r) /\ \A ch : SampleAt(ms, r, ch)' = SampleAt(ms, r, ch)
  BY DEF Channels, SampleAt
<1>3. \A w : WToLayer(w)' = WToLayer(w)  BY DEF WToLayer
<1>4. \A w : IsInLayerRange(w)' = IsInLayerRange(w)  BY <1>1, <1>3 DEF IsInLayerRange
<1>5. \A s : SampleDataSample(s)' = SampleDataSample(s)  BY <1>1, <1>3, <1>4 DEF SampleDataSample, NotANumber
<1>6. \A r : SampleData(r)' = SampleData(r)  BY <1>2, <1>5 DEF SampleData
<1>7. GridsOfModel'  BY <1>1 DEF Queueing, Predicting, PredictionInv, GridsOfModel
<1> QED BY <1>1, <1>6, <1>7

\* Nothing is written by the steps that move rows.
LEMMA RowsAreMoved ==
  ASSUME Queueing, UNCHANGED <<job, gridder, step, pass, ms, grids, predicted>>, RowsOnTheirWay',
         \A s \in Expected : IsLayerInPass(Layer(s)) => (RowIsWritten(s)' <=> RowIsWritten(s))
  PROVE  PredictionInv'
<1>1. GridsOfModel' /\ \A s : IsLayerInPass(Layer(s))' = IsLayerInPass(Layer(s))  BY SameModel
<1>2. /\ \A s : Layer(s)' = Layer(s)
      /\ Expected' = Expected /\ RangeStart' = RangeStart  BY SameModel
<1>3. \A s \in Expected : IsPredicted(s)' <=> IsPredicted(s)  BY <1>1, <1>2 DEF IsPredicted, Queueing
<1>4. PredictedSoFar'  BY <1>3, PredictedKept DEF Queueing
<1> QED BY <1>1, <1>4 DEF PredictionInv

\* The rows of a lane, or of the threads' hands.
LEMMA WayFacts ==
  ASSUME RowsOnTheirWay, row \in Nat
  PROVE  /\ DOMAIN lanes = {"calc", "write"} /\ lanes["calc"] \in Seq(1 .. row - 1) /\ lanes["write"] \in Seq(RowsToWrite)
         /\ \A i \in DOMAIN lanes["calc"] : lanes["calc"][i] \in 1 .. row - 1
         /\ \A j \in DOMAIN lanes["write"] : lanes["write"][j] \in RowsToWrite /\ lanes["write"][j][1] \in 1 .. row - 1
         /\ holding \in [Cpus -> {Nothing} \cup RowsToWrite] /\ HeldRows \subseteq Cpus
         /\ \A c \in HeldRows : holding[c] \in RowsToWrite /\ holding[c][1] \in 1 .. row - 1
<1>1. /\ DOMAIN lanes = {"calc", "write"} /\ lanes["calc"] \in Seq(1 .. row - 1) /\ lanes["write"] \in Seq(RowsToWrite)
      /\ holding \in [Cpus -> {Nothing} \cup RowsToWrite]  BY DEF RowsOnTheirWay
<1>2. \A v \in RowsToWrite : v[1] \in 1 .. row - 1  BY DEF RowsToWrite
<1>3. \A i \in DOMAIN lanes["calc"] : lanes["calc"][i] \in 1 .. row - 1  BY <1>1
<1>4. \A j \in DOMAIN lanes["write"] : lanes["write"][j] \in RowsToWrite  BY <1>1
<1>5. HeldRows \subseteq Cpus /\ \A c \in HeldRows : holding[c] \in RowsToWrite  BY <1>1 DEF HeldRows
<1> QED BY <1>1, <1>2, <1>3, <1>4, <1>5

LEMMA SeqOfMore ==
  ASSUME NEW A, NEW B, A \subseteq B
  PROVE  Seq(A) \subseteq Seq(B)  OBVIOUS

\* A row is queued behind those that are on their way; one that is not required has no sample of the pass.
LEMMA RowIsQueued ==
  ASSUME Queueing, QueueRow
  PROVE  PredictionInv'
<1> DEFINE calc == lanes["calc"]
           write == lanes["write"]
<1>1. /\ row <= Len(Rows(ms)) /\ row' = row + 1
      /\ IF IsRequired(ms, row) THEN lanes' = [lanes EXCEPT !["calc"] = Append(calc, row)] ELSE UNCHANGED lanes
      /\ UNCHANGED <<job, gridder, step, pass, ms, holding, grids, predicted>>  BY DEF QueueRow
<1>2. row \in Nat \ {0} /\ ms \in Nat /\ job \in Jobs /\ RowsOnTheirWay  BY QueueFacts
<1>3. /\ DOMAIN lanes = {"calc", "write"} /\ calc \in Seq(1 .. row - 1) /\ write \in Seq(RowsToWrite)
      /\ \A i \in DOMAIN calc : calc[i] \in 1 .. row - 1
      /\ \A j \in DOMAIN write : write[j][1] \in 1 .. row - 1
      /\ holding \in [Cpus -> {Nothing} \cup RowsToWrite] /\ HeldRows \subseteq Cpus
      /\ \A c \in HeldRows : holding[c][1] \in 1 .. row - 1  BY <1>2, WayFacts
<1>4. (\A r : SampleData(r)' = SampleData(r)) /\ Cpus' = Cpus  BY <1>1, SameModel
<1>5. HeldRows' = HeldRows  BY <1>1, <1>4 DEF HeldRows
<1>6. RowsToWrite \subseteq RowsToWrite' /\ 1 .. row - 1 \subseteq 1 .. row' - 1 /\ row \in 1 .. row' - 1
  BY <1>1, <1>2, <1>4 DEF RowsToWrite
<1>7. write \in Seq(RowsToWrite') /\ calc \in Seq(1 .. row' - 1)
  <2>1. Seq(RowsToWrite) \subseteq Seq(RowsToWrite') /\ Seq(1 .. row - 1) \subseteq Seq(1 .. row' - 1)
    BY <1>6, SeqOfMore
  <2> QED BY <1>3, <2>1
<1>8. holding \in [Cpus -> {Nothing} \cup RowsToWrite']  BY <1>3, <1>6
<1> HIDE DEF calc, write
<1>9. /\ \A i, j \in DOMAIN calc : calc[i] = calc[j] => i = j
      /\ \A i, j \in DOMAIN write : write[i][1] = write[j][1] => i = j
      /\ \A c, d \in HeldRows : holding[c][1] = holding[d][1] => c = d
      /\ \A i \in DOMAIN calc : /\ \A j \in DOMAIN write : calc[i] # write[j][1]
                                /\ \A c \in HeldRows : calc[i] # holding[c][1]
      /\ \A j \in DOMAIN write : \A c \in HeldRows : write[j][1] # holding[c][1]
  BY <1>2 DEF RowsOnTheirWay, calc, write
<1>10. CASE IsRequired(ms, row)
  <2> DEFINE longer == Append(calc, row)
  <2>1. lanes'["calc"] = longer /\ lanes'["write"] = write /\ DOMAIN lanes' = {"calc", "write"}
    BY <1>1, <1>3, <1>10 DEF calc, write
  <2>2. /\ longer \in Seq(1 .. row' - 1) /\ Len(calc) \in Nat /\ DOMAIN calc = 1 .. Len(calc)
        /\ \A i \in DOMAIN calc : i \in DOMAIN longer /\ longer[i] = calc[i]
        /\ Len(calc) + 1 \in DOMAIN longer /\ longer[Len(calc) + 1] = row
        /\ \A i \in DOMAIN longer : i \in DOMAIN calc \/ i = Len(calc) + 1  BY <1>6, <1>7, Appended
  <2> HIDE DEF longer
  <2>3. \A i \in DOMAIN longer : (i \in DOMAIN calc /\ longer[i] = calc[i]) \/ (i = Len(calc) + 1 /\ longer[i] = row)
    BY <2>2
  <2>4. ~(row \in 1 .. row - 1)  BY <1>2
  <2>5. \A i, j \in DOMAIN longer : longer[i] = longer[j] => i = j  BY <1>3, <1>9, <2>3, <2>4
  <2>6. \A i \in DOMAIN longer : /\ \A j \in DOMAIN write : longer[i] # write[j][1]
                                 /\ \A c \in HeldRows : longer[i] # holding[c][1]  BY <1>3, <1>9, <2>3, <2>4
  <2>7. RowsOnTheirWay'  BY <1>1, <1>4, <1>5, <1>7, <1>8, <1>9, <2>1, <2>2, <2>5, <2>6 DEF RowsOnTheirWay
  <2>8. \A r : IsOnItsWay(r)' <=> IsOnItsWay(r) \/ r = row
    <3> SUFFICES ASSUME NEW r PROVE IsOnItsWay(r)' <=> IsOnItsWay(r) \/ r = row  OBVIOUS
    <3> DEFINE elsewhere == (\E j \in DOMAIN write : write[j][1] = r) \/ (\E c \in HeldRows : holding[c][1] = r)
    <3>1. (\E i \in DOMAIN longer : longer[i] = r) <=> (r = row \/ \E i \in DOMAIN calc : calc[i] = r)  BY <2>2, <2>3
    <3>2. IsOnItsWay(r)' <=> (\E i \in DOMAIN longer : longer[i] = r) \/ elsewhere  BY <1>1, <1>5, <2>1 DEF IsOnItsWay
    <3>3. IsOnItsWay(r) <=> (\E i \in DOMAIN calc : calc[i] = r) \/ elsewhere  BY DEF IsOnItsWay, calc, write
    <3> HIDE DEF elsewhere
    <3> QED BY <3>1, <3>2, <3>3
  <2>9. ASSUME NEW s \in Expected PROVE RowIsWritten(s)' <=> RowIsWritten(s)
    <3>1. s[1] \in Nat /\ s[2] \in Nat  BY <1>2, InSet DEF Expected
    <3>2. IsOnItsWay(s[2])' <=> IsOnItsWay(s[2]) \/ s[2] = row  BY <2>8
    <3> QED BY <1>1, <1>2, <3>1, <3>2 DEF RowIsWritten
  <2> QED BY <1>1, <2>7, <2>9, RowsAreMoved
<1>11. CASE ~IsRequired(ms, row)
  <2>1. lanes' = lanes  BY <1>1, <1>11
  <2>2. RowsOnTheirWay'  BY <1>1, <1>3, <1>4, <1>5, <1>7, <1>8, <1>9, <2>1 DEF RowsOnTheirWay, calc, write
  <2>3. \A r : IsOnItsWay(r)' <=> IsOnItsWay(r)  BY <1>1, <1>5, <2>1 DEF IsOnItsWay
  <2>4. ASSUME NEW s \in Expected, IsLayerInPass(Layer(s)) PROVE RowIsWritten(s)' <=> RowIsWritten(s)
    <3>1. s[1] \in Nat /\ s[2] \in Nat  BY <1>2, InSet DEF Expected
    <3>2. ~(s[1] = ms /\ s[2] = row)  BY <1>11, <2>4, ExpectedFacts DEF Queueing, Predicting
    <3>3. IsOnItsWay(s[2])' <=> IsOnItsWay(s[2])  BY <2>3
    <3> QED BY <1>1, <1>2, <3>1, <3>2, <3>3 DEF RowIsWritten
  <2> QED BY <1>1, <2>2, <2>4, RowsAreMoved
<1> QED BY <1>10, <1>11

LEMMA RowIsTaken ==
  ASSUME Queueing, NEW c \in DOMAIN holding, TakeRow(c)
  PROVE  PredictionInv'
<1> DEFINE calc == lanes["calc"]
           write == lanes["write"]
           first == Head(calc)
           others == Tail(calc)
           taken == <<first, SampleData(first)>>
<1>1. /\ holding[c] = Nothing /\ calc # <<>> /\ holding' = [holding EXCEPT ![c] = taken]
      /\ lanes' = [lanes EXCEPT !["calc"] = others]
      /\ UNCHANGED <<job, gridder, step, pass, ms, row, grids, predicted>>  BY DEF TakeRow
<1>2. row \in Nat \ {0} /\ ms \in Nat /\ job \in Jobs /\ RowsOnTheirWay  BY QueueFacts
<1>3. /\ DOMAIN lanes = {"calc", "write"} /\ calc \in Seq(1 .. row - 1) /\ write \in Seq(RowsToWrite)
      /\ holding \in [Cpus -> {Nothing} \cup RowsToWrite] /\ HeldRows \subseteq Cpus /\ c \in Cpus /\ c \notin HeldRows
  BY <1>1, <1>2, WayFacts DEF HeldRows
<1>4. (\A r : SampleData(r)' = SampleData(r)) /\ Cpus' = Cpus  BY <1>1, SameModel
<1>5. RowsToWrite' = RowsToWrite  BY <1>1, <1>4 DEF RowsToWrite
<1>6. /\ others \in Seq(1 .. row - 1) /\ first \in 1 .. row - 1 /\ first = calc[1] /\ 1 \in DOMAIN calc
      /\ \A i \in DOMAIN others : i \in Nat \ {0} /\ i + 1 \in DOMAIN calc /\ others[i] = calc[i + 1]
      /\ \A i \in DOMAIN calc : i = 1 \/ (i - 1 \in DOMAIN others /\ others[i - 1] = calc[i])
  <2>1. calc \in Seq(1 .. row - 1) /\ calc # <<>>  BY <1>1, <1>3
  <2> HIDE DEF calc
  <2> QED BY <2>1, WithoutHead
<1>7. taken \in RowsToWrite /\ taken # Nothing /\ taken[1] = first  BY <1>6 DEF RowsToWrite, Nothing
<1>8. lanes'["calc"] = others /\ lanes'["write"] = write /\ DOMAIN lanes' = {"calc", "write"}  BY <1>1, <1>3
<1>9. /\ \A i, j \in DOMAIN calc : calc[i] = calc[j] => i = j
      /\ \A i, j \in DOMAIN write : write[i][1] = write[j][1] => i = j
      /\ \A d, e \in HeldRows : holding[d][1] = holding[e][1] => d = e
      /\ \A i \in DOMAIN calc : /\ \A j \in DOMAIN write : calc[i] # write[j][1]
                                /\ \A d \in HeldRows : calc[i] # holding[d][1]
      /\ \A j \in DOMAIN write : \A d \in HeldRows : write[j][1] # holding[d][1]  BY <1>2 DEF RowsOnTheirWay
<1> HIDE DEF calc, write, first, others, taken
<1>10. \A d \in Cpus : holding'[d] = IF d = c THEN taken ELSE holding[d]  BY <1>1, <1>3
<1>11. holding' \in [Cpus -> {Nothing} \cup RowsToWrite]  BY <1>1, <1>3, <1>7
<1>12. HeldRows' = HeldRows \cup {c}  BY <1>3, <1>4, <1>7, <1>10 DEF HeldRows
<1>13. \A d \in HeldRows' : (d = c /\ holding'[d][1] = first) \/ (d \in HeldRows /\ d # c /\ holding'[d][1] = holding[d][1])
  BY <1>3, <1>7, <1>10, <1>12
<1>14. ASSUME NEW i \in DOMAIN others, NEW j \in DOMAIN others, others[i] = others[j] PROVE i = j
  <2>1. i + 1 \in DOMAIN calc /\ j + 1 \in DOMAIN calc /\ calc[i + 1] = calc[j + 1] /\ i \in Nat /\ j \in Nat
    BY <1>6, <1>14
  <2>2. i + 1 = j + 1  BY <1>9, <2>1
  <2> QED BY <2>1, <2>2
<1>15. ASSUME NEW i \in DOMAIN others
       PROVE  others[i] # first /\ \E k \in DOMAIN calc : others[i] = calc[k]
  <2>1. i + 1 \in DOMAIN calc /\ others[i] = calc[i + 1] /\ i \in Nat \ {0}  BY <1>6
  <2>2. i + 1 # 1  BY <2>1
  <2> QED BY <1>6, <1>9, <2>1, <2>2
<1>16. \A d, e \in HeldRows' : holding'[d][1] = holding'[e][1] => d = e  BY <1>6, <1>9, <1>13
<1>17. \A i \in DOMAIN others : /\ \A j \in DOMAIN write : others[i] # write[j][1]
                                /\ \A d \in HeldRows' : others[i] # holding'[d][1]  BY <1>9, <1>13, <1>15
<1>18. \A j \in DOMAIN write : \A d \in HeldRows' : write[j][1] # holding'[d][1]  BY <1>6, <1>9, <1>13
<1>19. RowsOnTheirWay'
  BY <1>1, <1>3, <1>4, <1>5, <1>6, <1>8, <1>9, <1>11, <1>14, <1>16, <1>17, <1>18 DEF RowsOnTheirWay
<1>20. ASSUME NEW r PROVE IsOnItsWay(r)' <=> IsOnItsWay(r)
  <2> DEFINE queued == \E i \in DOMAIN calc : calc[i] = r
             held == \E d \in HeldRows : holding[d][1] = r
             written == \E j \in DOMAIN write : write[j][1] = r
  <2>1. (\E i \in DOMAIN others : others[i] = r) \/ r = first <=> queued  BY <1>6
  <2>2. (\E d \in HeldRows' : holding'[d][1] = r) <=> r = first \/ held  BY <1>3, <1>7, <1>10, <1>12, <1>13
  <2>3. IsOnItsWay(r)' <=> (\E i \in DOMAIN others : others[i] = r) \/ written \/ (\E d \in HeldRows' : holding'[d][1] = r)
    BY <1>8 DEF IsOnItsWay
  <2>4. IsOnItsWay(r) <=> queued \/ written \/ held  BY DEF IsOnItsWay, calc, write
  <2> HIDE DEF queued, held, written
  <2> QED BY <2>1, <2>2, <2>3, <2>4
<1>21. ASSUME NEW s \in Expected PROVE RowIsWritten(s)' <=> RowIsWritten(s)
  <2>1. IsOnItsWay(s[2])' <=> IsOnItsWay(s[2])  BY <1>20
  <2> QED BY <1>1, <2>1 DEF RowIsWritten
<1> QED BY <1>1, <1>19, <1>21, RowsAreMoved

LEMMA RowIsPassedOn ==
  ASSUME Queueing, NEW c \in DOMAIN holding, PassOnRow(c)
  PROVE  PredictionInv'
<1> DEFINE calc == lanes["calc"]
           write == lanes["write"]
           given == holding[c]
           longer == Append(write, given)
<1>1. /\ given # Nothing /\ holding' = [holding EXCEPT ![c] = Nothing] /\ lanes' = [lanes EXCEPT !["write"] = longer]
      /\ UNCHANGED <<job, gridder, step, pass, ms, row, grids, predicted>>  BY DEF PassOnRow
<1>2. row \in Nat \ {0} /\ ms \in Nat /\ job \in Jobs /\ RowsOnTheirWay  BY QueueFacts
<1>3. /\ DOMAIN lanes = {"calc", "write"} /\ calc \in Seq(1 .. row - 1) /\ write \in Seq(RowsToWrite)
      /\ holding \in [Cpus -> {Nothing} \cup RowsToWrite] /\ HeldRows \subseteq Cpus /\ c \in Cpus /\ c \in HeldRows
      /\ given \in RowsToWrite  BY <1>1, <1>2, WayFacts DEF HeldRows
<1>4. (\A r : SampleData(r)' = SampleData(r)) /\ Cpus' = Cpus  BY <1>1, SameModel
<1>5. RowsToWrite' = RowsToWrite  BY <1>1, <1>4 DEF RowsToWrite
<1>6. /\ longer \in Seq(RowsToWrite) /\ Len(write) \in Nat /\ DOMAIN write = 1 .. Len(write)
      /\ \A i \in DOMAIN write : i \in DOMAIN longer /\ longer[i] = write[i]
      /\ Len(write) + 1 \in DOMAIN longer /\ longer[Len(write) + 1] = given
      /\ \A i \in DOMAIN longer : i \in DOMAIN write \/ i = Len(write) + 1  BY <1>3, Appended
<1>7. \A i \in DOMAIN longer : (i \in DOMAIN write /\ longer[i] = write[i]) \/ (i = Len(write) + 1 /\ longer[i] = given)
  BY <1>6
<1>8. lanes'["calc"] = calc /\ lanes'["write"] = longer /\ DOMAIN lanes' = {"calc", "write"}  BY <1>1, <1>3
<1>9. /\ \A i, j \in DOMAIN calc : calc[i] = calc[j] => i = j
      /\ \A i, j \in DOMAIN write : write[i][1] = write[j][1] => i = j
      /\ \A d, e \in HeldRows : holding[d][1] = holding[e][1] => d = e
      /\ \A i \in DOMAIN calc : /\ \A j \in DOMAIN write : calc[i] # write[j][1]
                                /\ \A d \in HeldRows : calc[i] # holding[d][1]
      /\ \A j \in DOMAIN write : \A d \in HeldRows : write[j][1] # holding[d][1]  BY <1>2 DEF RowsOnTheirWay
<1>10. \A i \in DOMAIN calc : calc[i] # given[1]  BY <1>3, <1>9
<1>11. \A j \in DOMAIN write : write[j][1] # given[1]  BY <1>3, <1>9
<1>12. \A d \in HeldRows : d # c => holding[d][1] # given[1]  BY <1>3, <1>9
<1> HIDE DEF calc, write, given, longer
<1>13. \A d \in Cpus : holding'[d] = IF d = c THEN Nothing ELSE holding[d]  BY <1>1, <1>3
<1>14. holding' \in [Cpus -> {Nothing} \cup RowsToWrite]  BY <1>1, <1>3
<1>15. HeldRows' = HeldRows \ {c}  BY <1>3, <1>4, <1>13 DEF HeldRows
<1>16. \A d \in HeldRows' : d \in HeldRows /\ d # c /\ holding'[d][1] = holding[d][1]  BY <1>3, <1>13, <1>15
<1>17. \A i, j \in DOMAIN longer : longer[i][1] = longer[j][1] => i = j  BY <1>7, <1>9, <1>11
<1>18. \A i \in DOMAIN calc : /\ \A j \in DOMAIN longer : calc[i] # longer[j][1]
                              /\ \A d \in HeldRows' : calc[i] # holding'[d][1]  BY <1>7, <1>9, <1>10, <1>16
<1>19. \A j \in DOMAIN longer : \A d \in HeldRows' : longer[j][1] # holding'[d][1]  BY <1>7, <1>9, <1>12, <1>16
<1>20. \A d, e \in HeldRows' : holding'[d][1] = holding'[e][1] => d = e  BY <1>9, <1>16
<1>21. RowsOnTheirWay'
  BY <1>1, <1>3, <1>4, <1>5, <1>6, <1>8, <1>9, <1>14, <1>17, <1>18, <1>19, <1>20 DEF RowsOnTheirWay
<1>22. ASSUME NEW r PROVE IsOnItsWay(r)' <=> IsOnItsWay(r)
  <2> DEFINE queued == \E i \in DOMAIN calc : calc[i] = r
             held == \E d \in HeldRows : holding[d][1] = r
             written == \E j \in DOMAIN write : write[j][1] = r
  <2>1. (\E j \in DOMAIN longer : longer[j][1] = r) <=> written \/ r = given[1]  BY <1>6, <1>7
  <2>2. (\E d \in HeldRows' : holding'[d][1] = r) \/ r = given[1] <=> held  BY <1>3, <1>15, <1>16 DEF given
  <2>3. IsOnItsWay(r)' <=> queued \/ (\E j \in DOMAIN longer : longer[j][1] = r) \/ (\E d \in HeldRows' : holding'[d][1] = r)
    BY <1>8 DEF IsOnItsWay
  <2>4. IsOnItsWay(r) <=> queued \/ written \/ held  BY DEF IsOnItsWay, calc, write
  <2> HIDE DEF queued, held, written
  <2> QED BY <2>1, <2>2, <2>3, <2>4
<1>23. ASSUME NEW s \in Expected PROVE RowIsWritten(s)' <=> RowIsWritten(s)
  <2>1. IsOnItsWay(s[2])' <=> IsOnItsWay(s[2])  BY <1>22
  <2> QED BY <1>1, <2>1 DEF RowIsWritten
<1> QED BY <1>1, <1>21, <1>23, RowsAreMoved

\* What is calculated for a sample: the model of its layer, if it is one of the pass.
LEMMA ModelOfSample ==
  ASSUME Queueing, NEW s \in Samples
  PROVE  /\ IF s \in Expected /\ IsLayerInPass(Layer(s))
              THEN SampleDataSample(s) = SetToBag({Layer(s)}) /\ IsWritten(SampleDataSample(s))
              ELSE ~IsWritten(SampleDataSample(s))
<1>1. job \in Jobs /\ Limits  BY DEF Queueing, Predicting, StepInv
<1>2. Layer(s) \in Nat  BY <1>1, SampleFacts, LayerIsNatural DEF Layer
<1>3. IsLayerInPass(Layer(s)) => HasLayer(s)
  <2>1. RangeEnd \in Nat /\ RangeEnd <= job.nWLayers /\ job.nWLayers \in Nat
    BY <1>1, PassFacts, JobFacts DEF Queueing, Predicting
  <2> QED BY <1>2, <2>1 DEF IsLayerInPass, HasLayer, Layer
<1>4. s \in Expected /\ IsLayerInPass(Layer(s)) <=> IsLayerInPass(Layer(s)) /\ InPlane(s)
  BY <1>3 DEF Expected, Counts, Queueing, Predicting
<1>5. SampleDataSample(s) = IF IsLayerInPass(Layer(s)) /\ InPlane(s) THEN grids[Layer(s) - RangeStart] ELSE EmptyBag
  BY DEF SampleDataSample, IsInLayerRange, Layer, NotANumber
<1>6. CASE s \in Expected /\ IsLayerInPass(Layer(s))
  <2>1. Layer(s) - RangeStart \in PassLayers /\ (Layer(s) - RangeStart) + RangeStart = Layer(s)
    <3>1. RangeStart \in Nat  BY PassFacts DEF Queueing, Predicting
    <3> QED BY <1>2, <1>6, <3>1, InRange DEF Queueing, Predicting
  <2>2. grids = [l \in PassLayers |-> SetToBag({l + RangeStart})]
    BY DEF Queueing, Predicting, PredictionInv, GridsOfModel
  <2>3. grids[Layer(s) - RangeStart] = SetToBag({Layer(s)})  BY <2>1, <2>2
  <2>4. \A x : SetToBag({x}) # EmptyBag
    <3> SUFFICES ASSUME NEW x, SetToBag({x}) = EmptyBag PROVE FALSE  OBVIOUS
    <3>1. DOMAIN SetToBag({x}) = {x} /\ DOMAIN EmptyBag = {}  BY DEF SetToBag, EmptyBag
    <3> QED BY <3>1
  <2> QED BY <1>4, <1>5, <1>6, <2>3, <2>4 DEF IsWritten, NotANumber
<1>7. CASE ~(s \in Expected /\ IsLayerInPass(Layer(s)))  BY <1>4, <1>5, <1>7 DEF IsWritten, NotANumber
<1> QED BY <1>6, <1>7

\* A row that is written leaves the last place that it had, and its samples were not written before.
LEMMA RowReachesModel ==
  ASSUME Queueing, WriteRow
  PROVE  PredictionInv'
<1> DEFINE calc == lanes["calc"]
           write == lanes["write"]
           first == Head(write)
           others == Tail(write)
           r == first[1]
           values == first[2]
<1>1. /\ write # <<>> /\ lanes' = [lanes EXCEPT !["write"] = others]
      /\ predicted' = [s \in Samples |-> IF s[1] = ms /\ s[2] = r /\ IsWritten(values[s[3]])
                                           THEN Append(predicted[s], values[s[3]]) ELSE predicted[s]]
      /\ UNCHANGED <<job, gridder, step, pass, ms, row, holding, grids>>  BY DEF WriteRow
<1>2. row \in Nat \ {0} /\ ms \in Nat /\ job \in Jobs /\ RowsOnTheirWay  BY QueueFacts
<1>3. /\ DOMAIN lanes = {"calc", "write"} /\ calc \in Seq(1 .. row - 1) /\ write \in Seq(RowsToWrite)
      /\ holding \in [Cpus -> {Nothing} \cup RowsToWrite]  BY <1>2, WayFacts
<1>4. (\A k : SampleData(k)' = SampleData(k)) /\ Cpus' = Cpus  BY <1>1, SameModel
<1>5. RowsToWrite' = RowsToWrite /\ HeldRows' = HeldRows  BY <1>1, <1>4 DEF RowsToWrite, HeldRows
<1>6. /\ others \in Seq(RowsToWrite) /\ first \in RowsToWrite /\ first = write[1] /\ 1 \in DOMAIN write
      /\ \A i \in DOMAIN others : i \in Nat \ {0} /\ i + 1 \in DOMAIN write /\ others[i] = write[i + 1]
      /\ \A i \in DOMAIN write : i = 1 \/ (i - 1 \in DOMAIN others /\ others[i - 1] = write[i])
  <2>1. write \in Seq(RowsToWrite) /\ write # <<>>  BY <1>1, <1>3
  <2> HIDE DEF write
  <2> QED BY <2>1, WithoutHead
<1>7. r \in 1 .. row - 1 /\ values = SampleData(r)
  <2> HIDE DEF first
  <2>1. PICK k \in 1 .. row - 1 : first = <<k, SampleData(k)>>  BY <1>6 DEF RowsToWrite
  <2> QED BY <2>1
<1>8. lanes'["calc"] = calc /\ lanes'["write"] = others /\ DOMAIN lanes' = {"calc", "write"}  BY <1>1, <1>3
<1>9. /\ \A i, j \in DOMAIN calc : calc[i] = calc[j] => i = j
      /\ \A i, j \in DOMAIN write : write[i][1] = write[j][1] => i = j
      /\ \A d, e \in HeldRows : holding[d][1] = holding[e][1] => d = e
      /\ \A i \in DOMAIN calc : /\ \A j \in DOMAIN write : calc[i] # write[j][1]
                                /\ \A d \in HeldRows : calc[i] # holding[d][1]
      /\ \A j \in DOMAIN write : \A d \in HeldRows : write[j][1] # holding[d][1]  BY <1>2 DEF RowsOnTheirWay
<1>10. r = write[1][1]  BY <1>6
<1> HIDE DEF calc, write, first, others, r, values
<1>11. ASSUME NEW i \in DOMAIN others, NEW j \in DOMAIN others, others[i][1] = others[j][1] PROVE i = j
  <2>1. i + 1 \in DOMAIN write /\ j + 1 \in DOMAIN write /\ write[i + 1][1] = write[j + 1][1] /\ i \in Nat /\ j \in Nat
    BY <1>6, <1>11
  <2>2. i + 1 = j + 1  BY <1>9, <2>1
  <2> QED BY <2>1, <2>2
<1>12. ASSUME NEW i \in DOMAIN others
       PROVE  others[i][1] # r /\ \E k \in DOMAIN write : others[i] = write[k]
  <2>1. i + 1 \in DOMAIN write /\ others[i] = write[i + 1] /\ i \in Nat \ {0}  BY <1>6
  <2>2. i + 1 # 1  BY <2>1
  <2> QED BY <1>6, <1>9, <1>10, <2>1, <2>2
<1>13. \A i \in DOMAIN calc : \A j \in DOMAIN others : calc[i] # others[j][1]  BY <1>9, <1>12
<1>14. \A j \in DOMAIN others : \A d \in HeldRows : others[j][1] # holding[d][1]  BY <1>9, <1>12
<1>15. RowsOnTheirWay'  BY <1>1, <1>3, <1>4, <1>5, <1>6, <1>8, <1>9, <1>11, <1>13, <1>14 DEF RowsOnTheirWay
<1>16. ASSUME NEW k PROVE IsOnItsWay(k)' <=> IsOnItsWay(k) /\ k # r
  <2> DEFINE queued == \E i \in DOMAIN calc : calc[i] = k
             held == \E d \in HeldRows : holding[d][1] = k
             written == \E j \in DOMAIN write : write[j][1] = k
  <2>1. (\E j \in DOMAIN others : others[j][1] = k) <=> written /\ k # r  BY <1>6, <1>10, <1>12
  <2>2. queued => k # r  BY <1>6, <1>9, <1>10
  <2>3. held => k # r  BY <1>6, <1>9, <1>10
  <2>4. IsOnItsWay(k)' <=> queued \/ (\E j \in DOMAIN others : others[j][1] = k) \/ held
    BY <1>1, <1>5, <1>8 DEF IsOnItsWay
  <2>5. IsOnItsWay(k) <=> queued \/ written \/ held  BY DEF IsOnItsWay, calc, write
  <2> HIDE DEF queued, held, written
  <2> QED BY <2>1, <2>2, <2>3, <2>4, <2>5
<1>17. IsOnItsWay(r)  BY <1>6, <1>10 DEF IsOnItsWay, write
<1>18. GridsOfModel' /\ Expected' = Expected /\ (\A s : Layer(s)' = Layer(s)) /\ RangeStart' = RangeStart
       /\ (\A s : IsLayerInPass(Layer(s))' = IsLayerInPass(Layer(s))) /\ Samples' = Samples
  BY <1>1, SameModel, SameJob
<1>19. predicted = [s \in Samples |-> IF IsPredicted(s) THEN <<SetToBag({Layer(s)})>> ELSE <<>>]
  BY DEF Queueing, Predicting, PredictionInv, PredictedSoFar
<1>20. \A s \in Expected : Layer(s) \in Nat /\ RangeStart \in Nat
  BY ExpectedFacts, PassFacts DEF Queueing, Predicting
<1>21. \A s \in Expected : /\ IsPredicted(s) <=> Layer(s) < RangeStart \/ (IsLayerInPass(Layer(s)) /\ RowIsWritten(s))
                           /\ IsPredicted(s)' <=> Layer(s) < RangeStart \/ (IsLayerInPass(Layer(s)) /\ RowIsWritten(s)')
  BY <1>1, <1>18 DEF IsPredicted, Queueing
<1>22. ASSUME NEW s \in Samples PROVE predicted'[s] = IF IsPredicted(s)' THEN <<SetToBag({Layer(s)})>> ELSE <<>>
  <2>1. predicted'[s] = IF s[1] = ms /\ s[2] = r /\ IsWritten(values[s[3]]) THEN Append(predicted[s], values[s[3]]) ELSE predicted[s]
    BY <1>1
  <2>2. IsOnItsWay(s[2])' <=> IsOnItsWay(s[2]) /\ s[2] # r  BY <1>16
  <2>3. RowIsWritten(s)' <=> RowIsWritten(s) \/ (s[1] = ms /\ s[2] = r)
    <3>1. s[1] \in Nat /\ s[2] \in Nat  BY <1>2, InSet
    <3>2. r < row  BY <1>2, <1>7
    <3> QED BY <1>1, <1>2, <2>2, <3>1, <3>2 DEF RowIsWritten
  <2>4. CASE s[1] = ms /\ s[2] = r
    <3>1. values[s[3]] = SampleDataSample(s)
      <4>1. s = <<s[1], s[2], s[3]>> /\ s[3] \in Channels(ms, r)  BY <1>2, <2>4, SampleFacts
      <4>2. s = SampleAt(ms, r, s[3])  BY <2>4, <4>1 DEF SampleAt
      <4> QED BY <1>7, <4>1, <4>2 DEF SampleData
    <3>2. CASE s \in Expected /\ IsLayerInPass(Layer(s))
      <4>1. values[s[3]] = SetToBag({Layer(s)}) /\ IsWritten(values[s[3]])  BY <3>1, <3>2, ModelOfSample
      <4>2. ~RowIsWritten(s)  BY <1>2, <1>17, <2>4 DEF RowIsWritten
      <4>3. ~IsPredicted(s) /\ IsPredicted(s)'  BY <1>20, <1>21, <2>3, <2>4, <3>2, <4>2 DEF IsLayerInPass
      <4>4. predicted[s] = <<>>  BY <1>19, <4>3
      <4>5. \A v : Append(<<>>, v) = <<v>>  OBVIOUS
      <4> QED BY <2>1, <2>4, <4>1, <4>3, <4>4, <4>5
    <3>3. CASE ~(s \in Expected /\ IsLayerInPass(Layer(s)))
      <4>1. ~IsWritten(values[s[3]])  BY <3>1, <3>3, ModelOfSample
      <4>2. IsPredicted(s)' <=> IsPredicted(s)  BY <1>18, <1>21, <3>3 DEF IsPredicted
      <4> QED BY <1>19, <2>1, <4>1, <4>2
    <3> QED BY <3>2, <3>3
  <2>5. CASE ~(s[1] = ms /\ s[2] = r)
    <3>1. IsPredicted(s)' <=> IsPredicted(s)  BY <1>18, <1>21, <2>3, <2>5 DEF IsPredicted
    <3> QED BY <1>19, <2>1, <2>5, <3>1
  <2> QED BY <2>4, <2>5
<1>23. predicted' = [s \in Samples |-> predicted'[s]]  BY <1>1
<1>24. PredictedSoFar'  BY <1>18, <1>22, <1>23 DEF PredictedSoFar
<1> QED BY <1>1, <1>15, <1>18, <1>24 DEF PredictionInv

\* A set is left when all of its rows were written.
LEMMA SetIsPredicted ==
  ASSUME Queueing, JoinPrediction
  PROVE  PredictionInv'
<1>1. /\ row > Len(Rows(ms)) /\ lanes["calc"] = <<>> /\ lanes["write"] = <<>> /\ \A c \in Cpus : holding[c] = Nothing
      /\ UNCHANGED <<job, gridder, grids, predicted>>  BY DEF JoinPrediction, PredictionDone
<1>2. /\ row \in Nat \ {0} /\ ms \in Nat /\ job \in Jobs /\ RowsOnTheirWay /\ ms \in DOMAIN job.sets
      /\ Len(Rows(ms)) \in Nat /\ row <= Len(Rows(ms)) + 1 /\ DOMAIN job.sets = 1 .. Len(job.sets) /\ Len(job.sets) \in Nat
  BY QueueFacts
<1>3. \A k : ~IsOnItsWay(k)
  <2>1. DOMAIN lanes["calc"] = {} /\ DOMAIN lanes["write"] = {}  BY <1>1
  <2>2. HeldRows = {}  BY <1>1 DEF HeldRows
  <2> QED BY <2>1, <2>2 DEF IsOnItsWay
<1>4. ASSUME NEW s \in Expected PROVE RowIsWritten(s) <=> s[1] <= ms
  <2>1. s[1] \in Nat /\ s[2] \in Nat /\ (s[1] = ms => s[2] <= Len(Rows(ms)))  BY <1>2, InSet DEF Expected
  <2> QED BY <1>1, <1>2, <1>3, <2>1 DEF RowIsWritten
<1>5. /\ (\A s : Layer(s)' = Layer(s)) /\ Expected' = Expected  BY <1>1, SameJob
<1>6. CASE ms < Len(job.sets)
  <2>1. ms' = ms + 1 /\ row' = 1 /\ StartCalculating /\ UNCHANGED <<step, pass>> /\ step = "queue"
    BY <1>6 DEF JoinPrediction, StartCalculating, Queueing
  <2>2. RowsOnTheirWay'  BY <1>1, <2>1, CalculatorsStart
  <2>3. PassLayers' = PassLayers /\ RangeStart' = RangeStart /\ \A l : IsLayerInPass(l)' = IsLayerInPass(l)
    BY <1>1, <2>1, SamePass
  <2>4. ASSUME NEW s \in Expected PROVE IsPredicted(s)' <=> IsPredicted(s)
    <3>1. RowIsWritten(s)' <=> s[1] <= ms
      <4>1. s[1] \in Nat /\ s[2] \in Nat \ {0}  BY <1>2, InSet DEF Expected
      <4> QED BY <1>2, <2>1, <4>1 DEF RowIsWritten
    <3>2. IsLayerInPass(Layer(s))' = IsLayerInPass(Layer(s))  BY <1>5, <2>3
    <3> QED BY <1>4, <1>5, <2>1, <2>3, <3>1, <3>2 DEF IsPredicted
  <2>5. PredictedSoFar'  BY <1>1, <2>4, PredictedKept DEF Queueing
  <2>6. GridsOfModel'  BY <1>1, <2>1, <2>3 DEF Queueing, Predicting, PredictionInv, GridsOfModel
  <2> QED BY <2>1, <2>2, <2>5, <2>6 DEF PredictionInv
<1>7. CASE ~(ms < Len(job.sets))
  <2>1. NextPass /\ step = "queue"  BY <1>7 DEF JoinPrediction, Queueing
  <2>2. ASSUME NEW s \in Expected PROVE IsPredicted(s) <=> Layer(s) < RangeEnd
    <3>1. s[1] <= ms
      <4>1. s[1] \in 1 .. Len(job.sets)  BY <1>2, SampleFacts DEF Expected
      <4> QED BY <1>2, <1>7, <4>1
    <3>2. Layer(s) < RangeEnd <=> (Layer(s) < RangeStart \/ IsLayerInPass(Layer(s)))
      BY InRange DEF Queueing, Predicting
    <3> QED BY <1>4, <2>1, <3>1, <3>2 DEF IsPredicted
  <2>3. CASE pass + 1 < gridder.nPasses
    <3>1. step' = "startPass" /\ pass' = pass + 1  BY <2>1, <2>3 DEF NextPass
    <3>2. RangeStart' = RangeEnd  BY <1>1, <3>1 DEF RangeStart, RangeEnd, LayerRangeStart
    <3>3. \A s \in Expected : IsPredicted(s)' <=> IsPredicted(s)  BY <1>5, <2>2, <3>1, <3>2 DEF IsPredicted
    <3> QED BY <1>1, <3>1, <3>3, PredictedKept DEF PredictionInv, Queueing
  <2>4. CASE ~(pass + 1 < gridder.nPasses)
    <3>1. step' = "finalize" /\ pass' = pass  BY <2>1, <2>4 DEF NextPass
    <3>2. RangeStart' = RangeStart /\ \A l : IsLayerInPass(l)' = IsLayerInPass(l)  BY <1>1, <3>1, SamePass
    <3>3. ASSUME NEW s \in Expected PROVE IsPredicted(s)' <=> IsPredicted(s)
      <4>1. IsPredicted(s)' <=> Layer(s) < RangeStart \/ IsLayerInPass(Layer(s))  BY <1>5, <3>1, <3>2 DEF IsPredicted
      <4> QED BY <2>2, <4>1, InRange DEF Queueing, Predicting
    <3> QED BY <1>1, <3>1, <3>3, PredictedKept DEF PredictionInv, Queueing
  <2> QED BY <2>3, <2>4
<1> QED BY <1>6, <1>7

LEMMA AllIsPredicted ==
  ASSUME Predicting, Finalize
  PROVE  PredictionInv' /\ EachSampleOnce'
<1>1. step = "finalize" /\ step' = "done" /\ UNCHANGED <<job, gridder, pass, predicted>> /\ job.kind = "predict"
  BY DEF Finalize, Predicting
<1>2. /\ (\A s : Layer(s)' = Layer(s)) /\ Expected' = Expected /\ Samples' = Samples /\ RangeStart' = RangeStart
      /\ \A l : IsLayerInPass(l)' = IsLayerInPass(l)  BY <1>1, SameJob, SamePass
<1>3. \A s \in Expected : IsPredicted(s)' <=> IsPredicted(s)  BY <1>1, <1>2 DEF IsPredicted
<1>4. PredictionInv'  BY <1>1, <1>3, PredictedKept DEF PredictionInv
<1>5. RangeEnd = job.nWLayers
  <2>1. pass = gridder.nPasses - 1  BY <1>1 DEF Predicting, StepInv, Position
  <2> QED BY <2>1, PassFacts DEF Predicting
<1>6. ASSUME NEW s \in Samples PROVE IsPredicted(s) <=> HasLayer(s) /\ InPlane(s)
  <2>1. s \in Expected <=> HasLayer(s) /\ InPlane(s)  BY <1>1 DEF Expected, Counts
  <2>2. s \in Expected => Layer(s) < RangeStart \/ IsLayerInPass(Layer(s))
    BY <1>5, ExpectedFacts, InRange DEF Predicting
  <2> QED BY <1>1, <2>1, <2>2 DEF IsPredicted
<1>7. predicted = [s \in Samples |-> IF IsPredicted(s) THEN <<SetToBag({Layer(s)})>> ELSE <<>>]
  BY DEF Predicting, PredictionInv, PredictedSoFar
<1>8. \A s \in Samples : predicted[s] = IF HasLayer(s) /\ InPlane(s) THEN <<SetToBag({Layer(s)})>> ELSE <<>>
  BY <1>6, <1>7
<1>9. \A s : (HasLayer(s)' <=> HasLayer(s)) /\ InPlane(s)' = InPlane(s) /\ WToLayer(W(s))' = Layer(s)
  <2>1. \A w : WToLayer(w)' = WToLayer(w)  BY <1>1 DEF WToLayer
  <2>2. \A s : W(s)' = W(s) /\ InPlane(s)' = InPlane(s)  BY <1>1, SameJob
  <2> QED BY <1>1, <2>1, <2>2 DEF HasLayer, Layer
<1>10. EachSamplePredictedOnce'  BY <1>1, <1>2, <1>8, <1>9 DEF EachSamplePredictedOnce
<1>11. EachSampleGriddedOnce'  BY <1>1 DEF EachSampleGriddedOnce
<1> QED BY <1>4, <1>10, <1>11 DEF EachSampleOnce

LEMMA PredictionStep ==
  ASSUME Predicting, PipelineNext, ~PipelineOver
  PROVE  PredictionInv' /\ (step' = "done" => EachSampleOnce')
<1>1. /\ step \in {"startPass", "read", "send", "joinWorkers", "transform", "queue", "finalize", "done"} /\ step # "prepare"
      /\ job.kind = "predict" /\ Position  BY DEF Predicting, StepInv
<1>2. ~Prepare /\ ~StartInversionPass /\ ~SkipRow /\ ~ReadRow /\ ~SendSample /\ ~EndOfSet /\ ~JoinWorkers /\ ~FinishInversionPass
      /\ \A c : ~TakeSample(c) /\ ~AddDataSample(c) /\ ~TransformToImage(c)
  BY <1>1 DEF Position, Gridding, Prepare, StartInversionPass, SkipRow, ReadRow, SendSample, EndOfSet, JoinWorkers, FinishInversionPass,
         TakeSample, AddDataSample, TransformToImage, Working
<1>3. CASE StartPredictionPass  BY <1>3, PassIsPrepared DEF StartPredictionPass, StartTransforms
<1>4. CASE FinishTransforms  BY <1>4, RowsAreNext DEF FinishTransforms
<1>5. CASE QueueRow  BY <1>5, RowIsQueued DEF QueueRow, Queueing
<1>6. CASE JoinPrediction  BY <1>6, SetIsPredicted DEF JoinPrediction, Calculating, NextPass, Queueing
<1>7. CASE Finalize  BY <1>7, AllIsPredicted
<1>8. CASE WriteRow  BY <1>8, RowReachesModel DEF WriteRow, Calculating, Queueing
<1>9. ASSUME NEW c \in DOMAIN holding, TakeLayer(c) \/ TransformToGrid(c)
      PROVE  PredictionInv' /\ (step' = "done" => EachSampleOnce')
  BY <1>9, GridsAreMade DEF TakeLayer, TransformToGrid, Transforming
<1>10. ASSUME NEW c \in DOMAIN holding, TakeRow(c) \/ PassOnRow(c)
      PROVE  PredictionInv' /\ (step' = "done" => EachSampleOnce')
  BY <1>10, RowIsTaken, RowIsPassedOn DEF TakeRow, PassOnRow, Calculating, Queueing
<1> QED BY <1>2, <1>3, <1>4, <1>5, <1>6, <1>7, <1>8, <1>9, <1>10 DEF PipelineNext, MainStep, WorkerStep

----
(* Every step of the pipelines *)

LEMMA InversionKept ==
  ASSUME Inverting, UNCHANGED pipelineVars
  PROVE  InversionInv'
<1>1. UNCHANGED <<job, gridder, step, pass, ms, row, channel, lanes, holding, grids, images, layers, weighed>>
  BY DEF pipelineVars
<1>2. /\ (\A s : Layer(s)' = Layer(s)) /\ Expected' = Expected /\ RangeStart' = RangeStart /\ PassLayers' = PassLayers
      /\ FFTThreads' = FFTThreads /\ \A l : IsLayerInPass(l)' = IsLayerInPass(l)  BY <1>1, SameJob, SamePass
<1>3. \A s : (HandedOut(s)' <=> HandedOut(s)) /\ (IsWeighed(s)' <=> IsWeighed(s))  BY <1>1 DEF HandedOut, IsWeighed
<1>4. \A l : IsTransformed(l)' <=> IsTransformed(l)  BY <1>1, <1>2 DEF IsTransformed
<1>5. WeighedSoFar'
  <2>1. \A s \in Expected : ToBeWeighed(s)' <=> ToBeWeighed(s)  BY <1>1, <1>2, <1>3 DEF ToBeWeighed, Gridding
  <2> QED BY <1>1, <2>1, WeighedKept
<1>6. ASSUME step # "done" PROVE ImagesSoFar'
  <2>1. ASSUME NEW s \in Expected PROVE InImages(s)' <=> InImages(s)
    <3>1. IsTransformed(Layer(s) - RangeStart)' <=> IsTransformed(Layer(s) - RangeStart)  BY <1>2, <1>4
    <3> QED BY <1>1, <1>2, <3>1 DEF InImages
  <2> QED BY <1>1, <1>6, <2>1, ImagesKept
<1>7. ASSUME Gridding PROVE LanesHoldSamples' /\ GridsSoFar'
  <2>1. LanesHoldSamples' /\ \A s : Waiting(s)' <=> Waiting(s)  BY <1>1, <1>3, <1>7, LanesKept
  <2>2. GridsSoFar'  BY <1>1, <1>3, <1>7, <2>1, GridsKept
  <2> QED BY <2>1, <2>2
<1>8. ASSUME step = "transform" PROVE GridsFull'
  <2>1. GridsFull  BY <1>8 DEF Inverting, InversionInv
  <2> QED BY <1>1, <1>2, <2>1 DEF GridsFull
<1> QED BY <1>1, <1>5, <1>6, <1>7, <1>8 DEF InversionInv, Gridding

LEMMA PredictionKept ==
  ASSUME Predicting, UNCHANGED pipelineVars
  PROVE  PredictionInv'
<1>1. UNCHANGED <<job, gridder, step, pass, ms, row, channel, lanes, holding, grids, layers, predicted>>
  BY DEF pipelineVars
<1>2. /\ (\A s : Layer(s)' = Layer(s)) /\ Expected' = Expected /\ RangeStart' = RangeStart /\ PassLayers' = PassLayers
      /\ FFTThreads' = FFTThreads /\ Cpus' = Cpus /\ \A l : IsLayerInPass(l)' = IsLayerInPass(l)
  BY <1>1, SameJob, SamePass
<1>3. HeldRows' = HeldRows  BY <1>1, <1>2 DEF HeldRows
<1>4. \A r : IsOnItsWay(r)' <=> IsOnItsWay(r)  BY <1>1, <1>3 DEF IsOnItsWay
<1>5. ASSUME NEW s \in Expected PROVE IsPredicted(s)' <=> IsPredicted(s)
  <2>1. IsOnItsWay(s[2])' <=> IsOnItsWay(s[2])  BY <1>4
  <2>2. RowIsWritten(s)' <=> RowIsWritten(s)  BY <1>1, <2>1 DEF RowIsWritten
  <2> QED BY <1>1, <1>2, <2>2 DEF IsPredicted
<1>6. PredictedSoFar'  BY <1>1, <1>5, PredictedKept
<1>7. ASSUME step = "transform" \/ step = "queue" PROVE GridsOfModel'
  <2>1. \A l : IsTransformed(l)' <=> IsTransformed(l)  BY <1>1, <1>2 DEF IsTransformed
  <2>2. GridsOfModel  BY <1>7 DEF Predicting, PredictionInv
  <2> QED BY <1>1, <1>2, <2>1, <2>2 DEF GridsOfModel
<1>8. ASSUME step = "queue" PROVE RowsOnTheirWay'
  <2>1. \A r : SampleData(r)' = SampleData(r)  BY <1>1, <1>8, SameModel DEF Queueing
  <2>2. RowsToWrite' = RowsToWrite  BY <1>1, <2>1 DEF RowsToWrite
  <2>3. RowsOnTheirWay  BY <1>8, QueueFacts DEF Queueing
  <2> QED BY <1>1, <1>2, <1>3, <2>2, <2>3 DEF RowsOnTheirWay
<1> QED BY <1>1, <1>6, <1>7, <1>8 DEF PredictionInv

\* Nothing was done for the samples before the first pass.
NothingDone ==
  /\ StepInv /\ step = "startPass" /\ pass = 0 /\ weighed = EmptyBag
  /\ predicted = [s \in Samples |-> <<>>] /\ images = [t \in Threads2D |-> EmptyBag]

LEMMA SamplesAtStart == NothingDone => SamplesInv
<1> SUFFICES ASSUME NothingDone, SamplesInReach PROVE InversionInv /\ PredictionInv  BY DEF NothingDone, SamplesInv
<1>1. StepInv /\ step = "startPass" /\ job \in Jobs /\ Limits  BY DEF NothingDone, StepInv
<1>2. RangeStart = 0  BY <1>1, Ranges DEF NothingDone, RangeStart
<1>3. ASSUME NEW s \in Expected PROVE ~(Layer(s) < RangeStart)  BY <1>1, <1>2, ExpectedFacts
<1>4. \A s \in Expected : ~ToBeWeighed(s) /\ ~InImages(s) /\ ~IsPredicted(s)
  BY <1>1, <1>3 DEF ToBeWeighed, InImages, IsPredicted
<1>5. EmptyBag = SetToBag({}) /\ DOMAIN EmptyBag = {}  BY DEF EmptyBag, SetToBag
<1>6. WeighedSoFar
  <2>1. {s \in Expected : ToBeWeighed(s)} = {}  BY <1>4
  <2> QED BY <1>5, <2>1 DEF WeighedSoFar, NothingDone
<1>7. ImagesSoFar
  <2>1. \A t \in Threads2D : DOMAIN images[t] = {} /\ images[t] = EmptyBag  BY <1>5 DEF NothingDone
  <2>2. images = [t \in Threads2D |-> SetToBag(DOMAIN images[t])]  BY <1>5, <2>1 DEF NothingDone
  <2>3. {<<s, Layer(s)>> : s \in {s \in Expected : InImages(s)}} = {}  BY <1>4
  <2>4. UNION {DOMAIN images[t] : t \in Threads2D} = {}  BY <2>1
  <2> QED BY <2>1, <2>2, <2>3, <2>4 DEF ImagesSoFar
<1>8. PredictedSoFar
  <2>1. \A s : ~IsPredicted(s)  BY <1>4 DEF IsPredicted
  <2> QED BY <2>1 DEF PredictedSoFar, NothingDone
<1> QED BY <1>1, <1>6, <1>7, <1>8 DEF InversionInv, PredictionInv, Gridding

LEMMA SamplesStart ==
  ASSUME StepInv, Prepare, StepInv'
  PROVE  SamplesInv'
<1>1. /\ step = "prepare" /\ step' = "startPass" /\ pass' = 0 /\ weighed' = EmptyBag /\ job' = job
      /\ predicted' = [s \in Samples |-> <<>>] /\ gridder' = PrepareWLayers
      /\ images' = [t \in 0 .. PrepareWLayers.nFFTThreads - 1 |-> EmptyBag]  BY DEF Prepare, StepInv
<1>2. Samples' = Samples  BY <1>1 DEF Samples, SampleAt, Channels, Rows
<1>3. images' = [t \in Threads2D' |-> EmptyBag]  BY <1>1 DEF Threads2D
<1>4. NothingDone'  BY <1>1, <1>2, <1>3 DEF NothingDone
<1>5. NothingDone' => SamplesInv'  BY SamplesAtStart, PTL
<1> QED BY <1>4, <1>5

LEMMA SamplesStep ==
  ASSUME StepInv, GriddingInv, SamplesInv, [PipelineNext]_pipelineVars, StepInv'
  PROVE  SamplesInv'
<1>1. CASE Prepare  BY <1>1, SamplesStart
<1>2. CASE UNCHANGED pipelineVars
  <2> SUFFICES ASSUME step' # "prepare", SamplesInReach' PROVE (job'.kind = "invert" => InversionInv')
                 /\ (job'.kind = "predict" => PredictionInv') /\ (step' = "done" => EachSampleOnce')
    BY DEF SamplesInv
  <2>1. UNCHANGED <<job, gridder, step, weighed, images, predicted>>  BY <1>2 DEF pipelineVars
  <2>2. step # "prepare" /\ SamplesInReach  BY <2>1, SameJob
  <2>3. job.kind = "invert" => InversionInv'  BY <1>2, <2>2, InversionKept DEF Inverting, SamplesInv
  <2>4. job.kind = "predict" => PredictionInv'  BY <1>2, <2>2, PredictionKept DEF Predicting, SamplesInv
  <2>5. EachSampleOnce => EachSampleOnce'
    <3>1. \A w : WToLayer(w)' = WToLayer(w)  BY <2>1 DEF WToLayer
    <3>2. Samples' = Samples /\ \A s : W(s)' = W(s) /\ Weight(s)' = Weight(s) /\ InPlane(s)' = InPlane(s)
      BY <2>1, SameJob DEF Weight, W
    <3>3. \A s : (HasLayer(s)' <=> HasLayer(s)) /\ WToLayer(W(s))' = WToLayer(W(s))  BY <2>1, <3>1, <3>2 DEF HasLayer
    <3>4. EachSampleGriddedOnce => EachSampleGriddedOnce'  BY <2>1, <3>2, <3>3 DEF EachSampleGriddedOnce
    <3>5. EachSamplePredictedOnce => EachSamplePredictedOnce'  BY <2>1, <3>2, <3>3 DEF EachSamplePredictedOnce
    <3> QED BY <3>4, <3>5 DEF EachSampleOnce
  <2> QED BY <2>1, <2>2, <2>3, <2>4, <2>5 DEF SamplesInv
<1>3. CASE PipelineNext /\ ~Prepare /\ ~PipelineOver
  <2>1. step # "prepare" /\ UNCHANGED <<job, gridder>>
    BY <1>3 DEF PipelineNext, MainStep, StartInversionPass, StartPredictionPass, SkipRow, ReadRow, SendSample, EndOfSet,
         JoinWorkers, FinishInversionPass, FinishTransforms, QueueRow, JoinPrediction, Finalize,
         WorkerStep, TakeSample, AddDataSample, TakeLayer, TransformToImage, TransformToGrid, TakeRow, PassOnRow,
         WriteRow, Working, Transforming, Calculating
  <2> SUFFICES ASSUME SamplesInReach' PROVE (job.kind = "invert" => InversionInv')
                 /\ (job.kind = "predict" => PredictionInv') /\ (step' = "done" => EachSampleOnce')
    BY <2>1 DEF SamplesInv
  <2>2. SamplesInReach  BY <2>1, SameJob
  <2>3. CASE job.kind = "invert"
    <3>1. Inverting  BY <2>1, <2>2, <2>3 DEF Inverting, SamplesInv
    <3>2. WeighedSoFar' /\ GridsAndLanes' /\ (step' # "done" => ImagesSoFar')
      BY <1>3, <2>1, <3>1, WeighedStep, GridsStep, ImagesStep
    <3>3. InversionInv'  BY <3>2 DEF InversionInv, GridsAndLanes
    <3>4. step' = "done" => Finalize \/ step = "done"
      BY <1>3 DEF PipelineNext, MainStep, StartInversionPass, StartPredictionPass, SkipRow, ReadRow, SendSample, EndOfSet,
         JoinWorkers, FinishInversionPass, FinishTransforms, QueueRow, JoinPrediction, StartWorkers, StartTransforms, StartCalculating,
         NextPass, WorkerStep, TakeSample, AddDataSample, TakeLayer, TransformToImage, TransformToGrid, TakeRow, PassOnRow, WriteRow
    <3>5. step # "done"
      BY <1>3 DEF PipelineNext, MainStep, Prepare, StartInversionPass, StartPredictionPass, SkipRow, ReadRow, SendSample, EndOfSet,
         JoinWorkers, FinishInversionPass, FinishTransforms, QueueRow, JoinPrediction, Finalize, WorkerStep, TakeSample, AddDataSample,
         TakeLayer, TransformToImage, TransformToGrid, TakeRow, PassOnRow, WriteRow, Working, Transforming, Calculating
    <3> QED BY <2>3, <3>1, <3>3, <3>4, <3>5, SamplesAreInImage
  <2>4. CASE job.kind = "predict"
    <3>1. Predicting  BY <2>1, <2>2, <2>4 DEF Predicting, SamplesInv
    <3> QED BY <1>3, <2>4, <3>1, PredictionStep
  <2>5. job.kind \in {"invert", "predict"}  BY JobFacts DEF StepInv
  <2> QED BY <2>3, <2>4, <2>5
<1> QED BY <1>1, <1>2, <1>3 DEF PipelineOver

\* Every weighted sample gets into the image and the weight sum once, corrected for its own
\* layer, and every sample in the plane is predicted once, from its own layer, for any rows,
\* layers, passes, threads and memory, as long as the samples are in reach: a sample that
\* counts lies in the plane, and its layer between those of the first and last channel of
\* its row, by which alone a pass decides whether to read the row
\* (wsmsgridder.cpp, wstackinggridder.cpp).
THEOREM EachSampleIsGriddedAndPredictedOnce == PipelineSpec => [](SamplesInReach => EachSampleOnce)
<1> DEFINE Inv == StepInv /\ GriddingInv /\ SamplesInv
<1>1. PipelineInit => Inv  BY StepStarts, GriddingStarts DEF SamplesInv, PipelineInit
<1>2. Inv /\ [PipelineNext]_pipelineVars => Inv'
  <2> SUFFICES ASSUME StepInv, GriddingInv, SamplesInv, [PipelineNext]_pipelineVars PROVE Inv'  OBVIOUS
  <2>1. StepInv'  BY StepKept
  <2>2. GriddingInv'  BY CountersStep, PassesStep, LanesStep DEF GriddingInv
  <2> QED BY <2>1, <2>2, SamplesStep
<1>3. Inv => (SamplesInReach => EachSampleOnce)
  <2>1. step # "done" => EachSampleOnce  BY DEF EachSampleOnce, EachSampleGriddedOnce, EachSamplePredictedOnce
  <2> QED BY <2>1 DEF SamplesInv
<1> QED BY <1>1, <1>2, <1>3, PTL DEF PipelineSpec

----
\* The deconvolution tools.  In a round, thread t has the image, or the
\* slice, number Turn(t); where it is with it, from the lane of its tasks
\* to that of its results, tells what the buffers of its task hold.
Busy == owner \in {"prepare", "write", "read"}
Subtracting == toolCall.op = "subtract"
TransformingImages == toolCall.op \in {"transform", "transform one scale"}

\* Images of the rounds before this one; a subtraction has one round.
Before == IF Subtracting THEN 0 ELSE imageIndex - 1 - nextThread
Turn(t) == Before + t + 1
Task(t) == TaskFor(Turn(t), t)
ScaleOf(i) == <<toolCall.scales[i]>>

\* Where a thread is with its task.
Resting(t) == taskLanes[t] = <<>> /\ resultLanes[t] = <<>> /\ toolThread[t].at = "idle"
Queued(t) == taskLanes[t] = <<Task(t)>> /\ resultLanes[t] = <<>> /\ toolThread[t].at = "idle"
At(t, place) ==
  taskLanes[t] = <<>> /\ resultLanes[t] = <<>> /\ toolThread[t].at = place /\ toolThread[t].task = Task(t)
Answered(t) ==
  /\ taskLanes[t] = <<>> /\ toolThread[t].at = "idle"
  /\ resultLanes[t] # <<>>
  /\ ~ Subtracting => resultLanes[t] = <<[image |-> ScaleOf(Turn(t)), mask |-> Turn(t)]>>

\* What its image and its kernel are then.
Untouched(t) == ~ Subtracting => memory[Task(t).image] = <<>>
Convolved(t) == ~ Subtracting => memory[Task(t).image] = ScaleOf(Turn(t))
KernelMade(t) == ~ Subtracting => memory[Task(t).scratch] = ScaleOf(Turn(t))

AtWork(t) ==
  \/ Untouched(t) /\ Queued(t)
  \/ Untouched(t) /\ At(t, "prepare") /\ toolCall.op \in {"find peaks", "transform"}
  \/ Untouched(t) /\ At(t, "finish") /\ KernelMade(t)
  \/ Convolved(t) /\ At(t, "answer")
  \/ Convolved(t) /\ Answered(t)

InRound(t) == readThread <= t /\ t < nextThread
Rounds == \A t \in ToolLanes : IF InRound(t) THEN AtWork(t) ELSE Resting(t)

KernelOfAll == toolCall.op = "transform one scale" => memory[Kernel] = ScaleOf(1)

\* Images that no thread had yet are as they were, those whose result was read are done.
ImagesInOrder ==
  TransformingImages => \A i \in DOMAIN toolCall.scales :
    /\ i >= imageIndex => memory[ImageBuffer(i)] = <<>>
    /\ i <= Before + readThread => memory[ImageBuffer(i)] = ScaleOf(i)

PeaksInOrder ==
  toolCall.op = "find peaks" =>
    /\ results = [i \in 1 .. Before + readThread |-> [image |-> ScaleOf(i), mask |-> i]]
    /\ owner = "write" => memory[CopyOf(nextThread)] = <<>>

\* A slice was cut by the owner, or by the thread whose turn it was.
Cut(x) ==
  \/ x = ToolThreads /\ imageIndex > ToolThreads
  \/ \E t \in ToolLanes :
       x = t + 1 /\ (t < readThread \/ (t < nextThread /\ (toolThread[t].at = "answer" \/ resultLanes[t] # <<>>)))
Among(s, x) == \E i \in DOMAIN s : s[i] = x
SlicesOnce ==
  Subtracting =>
    LET s == memory[ImageBuffer(1)]
    IN  /\ s \in Seq(1 .. ToolThreads)
        /\ \A i, j \in DOMAIN s : s[i] = s[j] => i = j
        /\ \A x \in 1 .. ToolThreads : Among(s, x) <=> Cut(x)

\* How far the owner is.
OwnerOK ==
  /\ owner \in {"idle", "prepare", "write", "read", "join", "gone"}
  /\ imageIndex \in Nat \ {0} /\ nextThread \in Nat /\ readThread \in Nat
  /\ Busy => toolCall \in ToolCalls
  /\ owner = "idle" => nextThread = 0 /\ readThread = 0
  /\ owner \in {"prepare", "write"} => nextThread < ToolThreads /\ readThread = 0
  /\ owner = "write" => imageIndex <= Count /\ ~ IsOwn
  /\ Busy => imageIndex <= Count + 1 /\ nextThread <= ToolThreads /\ readThread <= nextThread
  /\ Busy /\ ~ Subtracting => nextThread < imageIndex
  /\ Busy /\ Subtracting => \/ imageIndex = nextThread + 1 /\ nextThread < ToolThreads /\ owner # "read"
                            \/ imageIndex = ToolThreads + 1 /\ nextThread = ToolThreads - 1 /\ owner # "write"

Arrays ==
  /\ taskLanes = [t \in ToolLanes |-> taskLanes[t]] /\ resultLanes = [t \in ToolLanes |-> resultLanes[t]]
  /\ toolThread = [t \in ToolLanes |-> [at |-> toolThread[t].at, task |-> toolThread[t].task]]
  /\ memory = [b \in BuffersOf(toolCall) |-> memory[b]]

ToolsInv ==
  /\ OwnerOK /\ Arrays
  /\ owner = "idle" => (\A t \in ToolLanes : Resting(t)) /\ CallsDoTheirWork
  /\ Busy => Rounds /\ KernelOfAll /\ ImagesInOrder /\ PeaksInOrder /\ SlicesOnce

----
(* What the invariant says of the buffers of a task *)

LEMMA ThreadsOfTools == ToolThreads \in Nat \ {0} /\ ToolLanes = 0 .. ToolThreads - 1
  BY ToolsAssumption DEF ToolsAssumption, ToolLanes

LEMMA CallIsKnown ==
  ASSUME OwnerOK, Busy
  PROVE  /\ toolCall.op \in {"find peaks", "transform", "transform one scale", "subtract"}
         /\ toolCall.scales \in Seq(Nat) /\ Len(toolCall.scales) \in Nat
         /\ DOMAIN toolCall.scales = 1 .. Len(toolCall.scales)
         /\ toolCall.op = "transform one scale" => \A i \in DOMAIN toolCall.scales : toolCall.scales[i] = toolCall.scales[1]
         /\ Count \in Nat /\ Count = IF Subtracting THEN ToolThreads ELSE Len(toolCall.scales)
BY ToolsAssumption, LenProperties DEF ToolsAssumption, OwnerOK, Count, Subtracting

\* The threads of a round have images of the call, each another one.
LEMMA Turns ==
  ASSUME OwnerOK, Busy
  PROVE  /\ Before \in Nat
         /\ \A t \in ToolLanes : Turn(t) \in Nat /\ Turn(t) = Before + t + 1
         /\ \A t, u \in ToolLanes : t # u => Turn(t) # Turn(u)
         /\ \A t \in ToolLanes : t < nextThread => Turn(t) < imageIndex /\ Turn(t) <= Count /\ Turn(t) # 0
         /\ ~ Subtracting => \A t \in ToolLanes : t < nextThread => Turn(t) \in DOMAIN toolCall.scales
         /\ Subtracting => \A t \in ToolLanes : t < nextThread => Turn(t) = t + 1 /\ t + 1 < ToolThreads
<1>1. /\ imageIndex \in Nat \ {0} /\ nextThread \in Nat
      /\ ~ Subtracting => nextThread < imageIndex
      /\ imageIndex <= Count + 1 /\ nextThread <= ToolThreads
      /\ Subtracting => \/ imageIndex = nextThread + 1 /\ nextThread < ToolThreads
                        \/ imageIndex = ToolThreads + 1 /\ nextThread = ToolThreads - 1  BY DEF OwnerOK
<1>2. Before \in Nat /\ (~ Subtracting => Before = imageIndex - 1 - nextThread) /\ (Subtracting => Before = 0)
  BY <1>1 DEF Before
<1>3. \A t \in ToolLanes : t \in Nat  BY ThreadsOfTools
<1>4. \A t \in ToolLanes : Turn(t) \in Nat /\ Turn(t) = Before + t + 1  BY <1>2, <1>3 DEF Turn
<1>5. \A t, u \in ToolLanes : t # u => Turn(t) # Turn(u)  BY <1>2, <1>3, <1>4
<1>6. Count \in Nat /\ (Subtracting => Count = ToolThreads)
      /\ (~ Subtracting => Count = Len(toolCall.scales) /\ DOMAIN toolCall.scales = 1 .. Len(toolCall.scales))
  BY CallIsKnown
<1>7. ASSUME NEW t \in ToolLanes, t < nextThread
      PROVE  Turn(t) < imageIndex /\ Turn(t) <= Count /\ Turn(t) # 0
             /\ (~ Subtracting => Turn(t) \in DOMAIN toolCall.scales)
             /\ (Subtracting => Turn(t) = t + 1 /\ t + 1 < ToolThreads)
  <2>1. CASE Subtracting
    <3>1. nextThread <= ToolThreads - 1
      <4>1. t \in 0 .. ToolThreads - 1 /\ ToolThreads \in Nat  BY ThreadsOfTools
      <4>2. CASE imageIndex = nextThread + 1 /\ nextThread < ToolThreads  BY <1>1, <4>1, <4>2
      <4>3. CASE nextThread = ToolThreads - 1  BY <1>1, <4>1, <4>3
      <4>4. QED BY <1>1, <2>1, <4>2, <4>3
    <3>2. nextThread < imageIndex  BY <1>1, <2>1, ThreadsOfTools
    <3>3. Turn(t) = t + 1 /\ t \in Nat  BY <1>2, <1>3, <1>4, <2>1
    <3>4. QED BY <1>1, <1>6, <1>7, <2>1, <3>1, <3>2, <3>3, ThreadsOfTools
  <2>2. CASE ~ Subtracting
    <3>1. Turn(t) = imageIndex - 1 - nextThread + t + 1 /\ t \in Nat  BY <1>1, <1>2, <1>3, <1>4, <2>2
    <3>2. Turn(t) < imageIndex /\ Turn(t) # 0 /\ Turn(t) \in Nat  BY <1>1, <1>4, <1>7, <2>2, <3>1
    <3>3. Turn(t) <= Count  BY <1>1, <1>6, <3>2
    <3>4. QED BY <1>6, <2>2, <3>2, <3>3
  <2>3. QED BY <2>1, <2>2
<1>8. QED BY <1>2, <1>4, <1>5, <1>7

LEMMA TaskFields ==
  ASSUME NEW t
  PROVE  /\ Task(t).op = toolCall.op /\ Task(t).mask = Turn(t)
         /\ toolCall.op = "find peaks" => Task(t).image = CopyOf(t)
         /\ Subtracting => Task(t).image = ImageBuffer(1) /\ Task(t).scale = Turn(t)
         /\ TransformingImages => Task(t).image = ImageBuffer(Turn(t))
         /\ toolCall.op = "transform one scale" => Task(t).scratch = Kernel
         /\ toolCall.op # "transform one scale" => Task(t).scratch = ScratchOf(t)
         /\ ~ Subtracting => Task(t).scale = toolCall.scales[Turn(t)]
BY DEF Task, TaskFor, Subtracting, TransformingImages

\* Different buffers are different.
LEMMA DistinctBuffers ==
  /\ \A i, j : (ImageBuffer(i) = ImageBuffer(j) => i = j) /\ (CopyOf(i) = CopyOf(j) => i = j)
               /\ (ScratchOf(i) = ScratchOf(j) => i = j)
  /\ \A i, j : ImageBuffer(i) # CopyOf(j) /\ ImageBuffer(i) # ScratchOf(j) /\ CopyOf(i) # ScratchOf(j)
               /\ ImageBuffer(i) # Kernel /\ CopyOf(i) # Kernel /\ ScratchOf(i) # Kernel
BY DEF ImageBuffer, CopyOf, ScratchOf, Kernel

\* The task of a thread of the round has buffers of the call.
LEMMA TaskBuffers ==
  ASSUME OwnerOK, Busy, NEW t \in ToolLanes, t < nextThread
  PROVE  /\ Task(t).image \in BuffersOf(toolCall)
         /\ Task(t).scratch \in BuffersOf(toolCall)
         /\ ~ Subtracting => Task(t).image # Task(t).scratch /\ Task(t).image # Kernel
<1>1. Subtracting \/ TransformingImages \/ toolCall.op = "find peaks"
  BY CallIsKnown DEF Subtracting, TransformingImages
<1>2. /\ ImageBuffer(1) \in BuffersOf(toolCall) /\ Kernel \in BuffersOf(toolCall)
      /\ CopyOf(t) \in BuffersOf(toolCall) /\ ScratchOf(t) \in BuffersOf(toolCall)
      /\ \A i \in DOMAIN toolCall.scales : ImageBuffer(i) \in BuffersOf(toolCall)  BY DEF BuffersOf
<1>3. ~ Subtracting => Turn(t) \in DOMAIN toolCall.scales  BY Turns
<1>4. TransformingImages => ~ Subtracting  BY DEF Subtracting, TransformingImages
<1>5. Task(t).scratch \in {Kernel, ScratchOf(t)}  BY TaskFields
<1>6. CASE Subtracting  BY <1>2, <1>5, <1>6, TaskFields
<1>7. CASE TransformingImages
  <2>1. Task(t).image = ImageBuffer(Turn(t))  BY <1>7, TaskFields
  <2>2. QED BY <1>2, <1>3, <1>4, <1>5, <1>7, <2>1, DistinctBuffers
<1>8. CASE toolCall.op = "find peaks"
  <2>1. Task(t).image = CopyOf(t)  BY <1>8, TaskFields
  <2>2. QED BY <1>2, <1>5, <2>1, DistinctBuffers
<1>9. QED BY <1>1, <1>6, <1>7, <1>8

\* No thread's task touches what another thread of the round works on.
LEMMA TasksApart ==
  ASSUME OwnerOK, Busy, ~ Subtracting, NEW t \in ToolLanes, NEW u \in ToolLanes, t # u
  PROVE  /\ Task(t).image # Task(u).image /\ Task(t).image # Task(u).scratch
         /\ ScratchOf(t) # Task(u).image /\ ScratchOf(t) # Task(u).scratch
<1>1. TransformingImages \/ toolCall.op = "find peaks"  BY CallIsKnown DEF Subtracting, TransformingImages
<1>2. Turn(t) # Turn(u)  BY Turns
<1>3. Task(u).scratch \in {Kernel, ScratchOf(u)}  BY TaskFields
<1>4. CASE TransformingImages
  <2>1. Task(t).image = ImageBuffer(Turn(t)) /\ Task(u).image = ImageBuffer(Turn(u))  BY <1>4, TaskFields
  <2>2. QED BY <1>2, <1>3, <2>1, DistinctBuffers
<1>5. CASE toolCall.op = "find peaks"
  <2>1. Task(t).image = CopyOf(t) /\ Task(u).image = CopyOf(u)  BY <1>5, TaskFields
  <2>2. QED BY <1>3, <2>1, DistinctBuffers
<1>6. QED BY <1>1, <1>4, <1>5

\* The same call, the same turn.
LEMMA SameTasks ==
  ASSUME UNCHANGED toolCall, Before' = Before
  PROVE  /\ \A t : Turn(t)' = Turn(t) /\ Task(t)' = Task(t)
         /\ \A i : ScaleOf(i)' = ScaleOf(i)
         /\ Subtracting' = Subtracting /\ TransformingImages' = TransformingImages /\ Count' = Count
BY DEF Turn, Task, TaskFor, ScaleOf, Subtracting, TransformingImages, Count

\* What a thread has done stays done while nobody else touches its lanes and buffers.
LEMMA StillAtWork ==
  ASSUME NEW t \in ToolLanes, UNCHANGED toolCall, Before' = Before, AtWork(t),
         taskLanes'[t] = taskLanes[t], resultLanes'[t] = resultLanes[t], toolThread'[t] = toolThread[t],
         ~ Subtracting => /\ memory'[Task(t).image] = memory[Task(t).image]
                          /\ memory'[Task(t).scratch] = memory[Task(t).scratch]
  PROVE  AtWork(t)'
<1>1. Turn(t)' = Turn(t) /\ Task(t)' = Task(t) /\ ScaleOf(Turn(t))' = ScaleOf(Turn(t)) /\ Subtracting' = Subtracting
  <2>1. \A i : ScaleOf(i)' = ScaleOf(i)  BY SameTasks
  <2>2. Turn(t)' = Turn(t) /\ Task(t)' = Task(t) /\ Subtracting' = Subtracting  BY SameTasks
  <2>3. QED BY <2>1, <2>2 DEF ScaleOf
<1>2. (Untouched(t) => Untouched(t)') /\ (Convolved(t) => Convolved(t)') /\ (KernelMade(t) => KernelMade(t)')
  BY <1>1 DEF Untouched, Convolved, KernelMade
<1>3. (Queued(t) => Queued(t)') /\ (Answered(t) => Answered(t)')  BY <1>1 DEF Queued, Answered
<1>4. \A place : At(t, place) => At(t, place)'  BY <1>1 DEF At
<1>5. QED BY <1>2, <1>3, <1>4 DEF AtWork

\* One more slice.
LEMMA OneMore ==
  ASSUME NEW S, NEW s \in Seq(S), NEW x \in S, \A i, j \in DOMAIN s : s[i] = s[j] => i = j, ~ Among(s, x),
         NEW r, r = Append(s, x) \/ r = s \o <<x>>
  PROVE  /\ r \in Seq(S) /\ \A i, j \in DOMAIN r : r[i] = r[j] => i = j
         /\ \A y : Among(r, y) <=> (Among(s, y) \/ y = x)
<1>1. Len(s) \in Nat /\ DOMAIN s = 1 .. Len(s)  BY LenProperties
<1>2. <<x>> \in Seq(S) /\ Len(<<x>>) = 1 /\ <<x>>[1] = x  OBVIOUS
<1>3. /\ r \in Seq(S) /\ DOMAIN r = 1 .. Len(s) + 1
      /\ \A i \in 1 .. Len(s) : r[i] = s[i]
      /\ r[Len(s) + 1] = x
  <2>1. CASE r = Append(s, x)  BY <1>1, <2>1, AppendProperties, LenProperties
  <2>2. CASE r = s \o <<x>>
    <3>1. r \in Seq(S) /\ Len(r) = Len(s) + 1  BY <1>1, <1>2, <2>2, ConcatProperties
    <3>2. /\ \A i \in 1 .. Len(s) : r[i] = s[i]
          /\ r[Len(s) + 1] = x  BY <1>1, <1>2, <2>2, ConcatProperties
    <3>3. QED BY <3>1, <3>2, LenProperties
  <2>3. QED BY <2>1, <2>2
<1>4. \A i \in 1 .. Len(s) : i \in DOMAIN s /\ s[i] # x  BY <1>1 DEF Among
<1>5. \A i \in DOMAIN r : (i \in DOMAIN s /\ r[i] = s[i]) \/ (i = Len(s) + 1 /\ r[i] = x)  BY <1>1, <1>3
<1>6. \A i, j \in DOMAIN r : r[i] = r[j] => i = j  BY <1>1, <1>4, <1>5
<1>7. \A y : Among(r, y) <=> (Among(s, y) \/ y = x)
  <2> TAKE y
  <2>1. Among(r, y) => Among(s, y) \/ y = x  BY <1>5 DEF Among
  <2>2. Among(s, y) => Among(r, y)  BY <1>1, <1>3 DEF Among
  <2>3. y = x => Among(r, y)
    <3>1. Len(s) + 1 \in DOMAIN r  BY <1>1, <1>3
    <3>2. QED BY <1>3, <3>1 DEF Among
  <2>4. QED BY <2>1, <2>2, <2>3
<1>8. QED BY <1>3, <1>6, <1>7

\* Slices that are all different and all there are as many as there are threads.
LEMMA AllSlices ==
  ASSUME NEW n \in Nat, NEW s \in Seq(1 .. n), \A i, j \in DOMAIN s : s[i] = s[j] => i = j,
         \A x \in 1 .. n : Among(s, x)
  PROVE  Len(s) = n /\ ToSet(s) = 1 .. n
<1>1. Len(s) \in Nat /\ DOMAIN s = 1 .. Len(s) /\ s \in [1 .. Len(s) -> 1 .. n]  BY LenProperties
<1>2. ToSet(s) = 1 .. n  BY <1>1 DEF ToSet, Among
<1>3. s \in Bijection(1 .. Len(s), 1 .. n)  BY <1>1 DEF Bijection, Injection, Surjection, IsInjective, Among
<1>4. IsFiniteSet(1 .. Len(s)) /\ Cardinality(1 .. Len(s)) = Len(s) /\ Cardinality(1 .. n) = n
  <2>1. ASSUME NEW k \in Nat PROVE IsFiniteSet(1 .. k) /\ Cardinality(1 .. k) = k
    <3>1. 1 \in Int /\ k \in Int  OBVIOUS
    <3>2. IsFiniteSet(1 .. k) /\ Cardinality(1 .. k) = IF 1 > k THEN 0 ELSE k - 1 + 1  BY <3>1, FS_Interval
    <3>3. (IF 1 > k THEN 0 ELSE k - 1 + 1) = k  OBVIOUS
    <3>4. QED BY <3>2, <3>3
  <2>2. QED BY <1>1, <2>1
<1>5. Cardinality(1 .. n) = Cardinality(1 .. Len(s))  BY <1>3, <1>4, FS_Bijection DEF ExistsBijection
<1>6. QED BY <1>2, <1>4, <1>5

----
(* A step of a thread *)

LEMMA BusyInv ==
  ASSUME ToolsInv, Busy
  PROVE  OwnerOK /\ Arrays /\ Rounds /\ KernelOfAll /\ ImagesInOrder /\ PeaksInOrder /\ SlicesOnce  BY DEF ToolsInv

\* A thread that is not resting has its turn.
LEMMA HasTurn ==
  ASSUME ToolsInv, Busy, NEW t \in ToolLanes, ~ Resting(t)
  PROVE  /\ InRound(t) /\ AtWork(t) /\ readThread <= t /\ t < nextThread
         /\ t \in Nat /\ readThread \in Nat /\ nextThread \in Nat /\ imageIndex \in Nat
<1>1. InRound(t) /\ AtWork(t)  BY BusyInv DEF Rounds
<1>2. t \in Nat /\ readThread \in Nat /\ nextThread \in Nat /\ imageIndex \in Nat
  BY BusyInv, ThreadsOfTools DEF OwnerOK
<1>3. QED BY <1>1, <1>2 DEF InRound

\* The threads of the round, when one of them goes on.
LEMMA RoundGoesOn ==
  ASSUME ToolsInv, Busy, NEW t \in ToolLanes, AtWork(t)', InRound(t),
         UNCHANGED <<toolCall, owner, imageIndex, nextThread, readThread>>,
         \A u \in ToolLanes \ {t} : /\ taskLanes'[u] = taskLanes[u] /\ resultLanes'[u] = resultLanes[u]
                                    /\ toolThread'[u] = toolThread[u],
         ~ Subtracting => \A u \in ToolLanes \ {t} : InRound(u) =>
                            /\ memory'[Task(u).image] = memory[Task(u).image]
                            /\ memory'[Task(u).scratch] = memory[Task(u).scratch]
  PROVE  OwnerOK' /\ Busy' /\ Rounds'
<1>1. OwnerOK' /\ Busy'  BY BusyInv DEF OwnerOK, Busy, Subtracting, Count, IsOwn
<1>2. Before' = Before  BY DEF Before, Subtracting
<1>3. ASSUME NEW u \in ToolLanes PROVE IF InRound(u)' THEN AtWork(u)' ELSE Resting(u)'
  <2>1. InRound(u)' = InRound(u)  BY DEF InRound
  <2>2. CASE u = t  BY <2>1, <2>2
  <2>3. CASE u # t /\ InRound(u)
    <3>1. AtWork(u)  BY <2>3, BusyInv DEF Rounds
    <3>2. AtWork(u)'  BY <1>2, <2>3, <3>1, StillAtWork
    <3>3. QED BY <2>1, <2>3, <3>2
  <2>4. CASE u # t /\ ~ InRound(u)
    <3>1. Resting(u)  BY <2>4, BusyInv DEF Rounds
    <3>2. Resting(u)'  BY <2>4, <3>1 DEF Resting
    <3>3. QED BY <2>1, <2>4, <3>2
  <2>5. QED BY <2>2, <2>3, <2>4
<1>4. QED BY <1>1, <1>3 DEF Rounds

\* What lies outside of the buffers of a thread's task does not change under it.
LEMMA BuffersKept ==
  ASSUME ToolsInv, Busy, NEW t \in ToolLanes, readThread <= t, t < nextThread,
         UNCHANGED <<toolCall, owner, imageIndex, nextThread, readThread, results>>,
         ~ Subtracting => \A b \in BuffersOf(toolCall) : b # Task(t).image /\ b # ScratchOf(t) => memory'[b] = memory[b]
  PROVE  KernelOfAll' /\ ImagesInOrder' /\ PeaksInOrder'
<1>0. /\ Before' = Before /\ \A i : ScaleOf(i)' = ScaleOf(i)
      /\ OwnerOK /\ KernelOfAll /\ ImagesInOrder /\ PeaksInOrder  BY BusyInv DEF Before, Subtracting, ScaleOf
<1>a. /\ imageIndex \in Nat /\ nextThread \in Nat /\ readThread \in Nat /\ Before \in Nat
      /\ Turn(t) \in Nat /\ Turn(t) = Before + t + 1 /\ Turn(t) < imageIndex /\ t \in Nat
  BY <1>0, Turns, ThreadsOfTools DEF OwnerOK
<1>1. KernelOfAll'
  <2>1. SUFFICES ASSUME toolCall.op = "transform one scale" PROVE memory'[Kernel] = memory[Kernel]
    BY <1>0 DEF KernelOfAll, ScaleOf
  <2>2. ~ Subtracting /\ Kernel \in BuffersOf(toolCall)  BY <2>1 DEF Subtracting, BuffersOf
  <2>3. Kernel # Task(t).image /\ Kernel # ScratchOf(t)  BY <1>0, <2>2, TaskBuffers, DistinctBuffers
  <2>4. QED BY <2>2, <2>3
<1>2. ImagesInOrder'
  <2>1. SUFFICES ASSUME TransformingImages, NEW i \in DOMAIN toolCall.scales
                 PROVE  /\ i >= imageIndex => memory'[ImageBuffer(i)] = <<>>
                        /\ i <= Before + readThread => memory'[ImageBuffer(i)] = ScaleOf(i)
    BY <1>0 DEF ImagesInOrder, TransformingImages, ScaleOf
  <2>2. /\ i >= imageIndex => memory[ImageBuffer(i)] = <<>>
        /\ i <= Before + readThread => memory[ImageBuffer(i)] = ScaleOf(i)  BY <1>0, <2>1 DEF ImagesInOrder
  <2>3. ~ Subtracting /\ ImageBuffer(i) \in BuffersOf(toolCall) /\ i \in Nat
    <3>1. ~ Subtracting  BY <2>1 DEF Subtracting, TransformingImages
    <3>2. ImageBuffer(i) \in BuffersOf(toolCall)  BY DEF BuffersOf
    <3>3. DOMAIN toolCall.scales = 1 .. Len(toolCall.scales)  BY <1>0, CallIsKnown
    <3>4. i \in Nat  BY <3>3
    <3>5. QED BY <3>1, <3>2, <3>4
  <2>4. i >= imageIndex \/ i <= Before + readThread => i # Turn(t)  BY <1>a, <2>3
  <2>5. Task(t).image = ImageBuffer(Turn(t))  BY <2>1, TaskFields
  <2>6. i >= imageIndex \/ i <= Before + readThread => memory'[ImageBuffer(i)] = memory[ImageBuffer(i)]
    BY <2>3, <2>4, <2>5, DistinctBuffers
  <2>7. QED BY <2>2, <2>6
<1>3. PeaksInOrder'
  <2>1. SUFFICES ASSUME toolCall.op = "find peaks", owner = "write"
                 PROVE  memory'[CopyOf(nextThread)] = memory[CopyOf(nextThread)]  BY <1>0 DEF PeaksInOrder, ScaleOf
  <2>2. nextThread \in ToolLanes
    <3>1. nextThread < ToolThreads  BY <1>0, <2>1 DEF OwnerOK
    <3>2. QED BY <1>a, <3>1, ThreadsOfTools
  <2>3. CopyOf(nextThread) \in BuffersOf(toolCall) /\ ~ Subtracting  BY <2>1, <2>2 DEF BuffersOf, Subtracting
  <2>4. Task(t).image = CopyOf(t) /\ t # nextThread
    <3>1. t # nextThread  BY <1>a
    <3>2. QED BY <2>1, <3>1, TaskFields
  <2>5. QED BY <2>3, <2>4, DistinctBuffers
<1>4. QED BY <1>1, <1>2, <1>3

\* A thread that neither ends a slice nor hands in its result.
LEMMA SlicesKept ==
  ASSUME ToolsInv, Busy, UNCHANGED <<toolCall, imageIndex, nextThread, readThread>>,
         Subtracting => memory'[ImageBuffer(1)] = memory[ImageBuffer(1)],
         Subtracting => \A u \in ToolLanes :
           (toolThread'[u].at = "answer" \/ resultLanes'[u] # <<>>) <=> (toolThread[u].at = "answer" \/ resultLanes[u] # <<>>)
  PROVE  SlicesOnce'
<1> SUFFICES ASSUME Subtracting PROVE SlicesOnce'  BY DEF SlicesOnce, Subtracting
<1>1. \A x : Cut(x)' <=> Cut(x)  BY DEF Cut
<1>2. QED BY <1>1, BusyInv DEF SlicesOnce, Subtracting

\* The whole of the invariant while a call is on its way.
LEMMA StillBusy ==
  ASSUME Busy', OwnerOK', Arrays', Rounds', KernelOfAll', ImagesInOrder', PeaksInOrder', SlicesOnce'
  PROVE  ToolsInv'  BY DEF ToolsInv, Busy

LEMMA ThreadMoves ==
  ASSUME Arrays, NEW t \in ToolLanes, NEW place, ThreadGoes(t, place)
  PROVE  /\ toolThread'[t].at = place /\ toolThread'[t].task = toolThread[t].task
         /\ \A u \in ToolLanes \ {t} : toolThread'[u] = toolThread[u]
         /\ toolThread' = [u \in ToolLanes |-> [at |-> toolThread'[u].at, task |-> toolThread'[u].task]]
<1> DEFINE then(u) == IF u = t THEN [at |-> place, task |-> toolThread[t].task]
                      ELSE [at |-> toolThread[u].at, task |-> toolThread[u].task]
<1>1. toolThread = [u \in ToolLanes |-> [at |-> toolThread[u].at, task |-> toolThread[u].task]]  BY DEF Arrays
<1>2. toolThread' = [u \in ToolLanes |-> IF u = t THEN [toolThread[t] EXCEPT !.at = place] ELSE toolThread[u]]
  BY <1>1 DEF ThreadGoes
<1>3. [toolThread[t] EXCEPT !.at = place] = [at |-> place, task |-> toolThread[t].task]  BY <1>1
<1>4. toolThread' = [u \in ToolLanes |-> then(u)]  BY <1>1, <1>2, <1>3
<1>5. \A u \in ToolLanes : toolThread'[u] = then(u)  BY <1>4
<1>6. QED BY <1>1, <1>4, <1>5

\* A lane or a buffer is changed at one place.
LEMMA ChangedAt ==
  ASSUME NEW S, NEW f, f = [x \in S |-> f[x]], NEW a \in S, NEW v, NEW g, g = [f EXCEPT ![a] = v]
  PROVE  /\ g = [x \in S |-> g[x]] /\ g[a] = v
         /\ \A x \in S \ {a} : g[x] = f[x]  OBVIOUS

LEMMA TakingATask ==
  ASSUME ToolsInv, Busy, NEW t \in ToolLanes, TakeToolTask(t)
  PROVE  ToolsInv'
<1>1. /\ toolThread[t].at = "idle" /\ taskLanes[t] # <<>> /\ taskLanes' = [taskLanes EXCEPT ![t] = <<>>]
      /\ toolThread' = [toolThread EXCEPT ![t] = [task |-> Head(taskLanes[t]),
           at |-> IF Head(taskLanes[t]).op \in {"find peaks", "transform"} THEN "prepare" ELSE "finish"]]
      /\ UNCHANGED <<toolCall, owner, imageIndex, nextThread, readThread, resultLanes, memory, results>>
  BY DEF TakeToolTask
<1>2. InRound(t) /\ AtWork(t) /\ readThread <= t /\ t < nextThread  BY <1>1, HasTurn DEF Resting
<1>3. Queued(t) /\ Untouched(t)  BY <1>1, <1>2 DEF AtWork, At, Answered
<1>4. Head(taskLanes[t]) = Task(t)  BY <1>3 DEF Queued
<1>5. Arrays  BY BusyInv
<1>6. /\ taskLanes' = [u \in ToolLanes |-> taskLanes'[u]] /\ taskLanes'[t] = <<>>
      /\ \A u \in ToolLanes \ {t} : taskLanes'[u] = taskLanes[u]  BY <1>1, <1>5, ChangedAt DEF Arrays
<1> DEFINE place == IF toolCall.op \in {"find peaks", "transform"} THEN "prepare" ELSE "finish"
<1>7. Task(t).op = toolCall.op  BY TaskFields
<1>8. toolThread' = [toolThread EXCEPT ![t] = [task |-> Task(t), at |-> place]]  BY <1>1, <1>4, <1>7
<1>9. /\ toolThread'[t].at = place /\ toolThread'[t].task = Task(t)
      /\ \A u \in ToolLanes \ {t} : toolThread'[u] = toolThread[u]
      /\ toolThread' = [u \in ToolLanes |-> [at |-> toolThread'[u].at, task |-> toolThread'[u].task]]
  <2> DEFINE then(u) == IF u = t THEN [at |-> place, task |-> Task(t)]
                        ELSE [at |-> toolThread[u].at, task |-> toolThread[u].task]
  <2>1. toolThread = [u \in ToolLanes |-> [at |-> toolThread[u].at, task |-> toolThread[u].task]]  BY <1>5 DEF Arrays
  <2> HIDE DEF place
  <2>2. toolThread' = [u \in ToolLanes |-> then(u)]  BY <1>8, <2>1
  <2>3. \A u \in ToolLanes : toolThread'[u] = then(u)  BY <2>2
  <2>4. QED BY <2>1, <2>2, <2>3
<1>10. Arrays'  BY <1>1, <1>5, <1>6, <1>9 DEF Arrays
<1>11. AtWork(t)'
  <2>1. Before' = Before  BY <1>1 DEF Before, Subtracting
  <2>2. Task(t)' = Task(t) /\ Turn(t)' = Turn(t) /\ Subtracting' = Subtracting  BY <1>1, <2>1, SameTasks
  <2>3. Untouched(t)'  BY <1>1, <1>3, <2>2 DEF Untouched
  <2>4. At(t, place)'
    <3>1. resultLanes[t] = <<>>  BY <1>3 DEF Queued
    <3>2. QED BY <1>1, <1>6, <1>9, <2>2, <3>1 DEF At
  <2>5. CASE toolCall.op \in {"find peaks", "transform"}  BY <1>1, <2>3, <2>4, <2>5 DEF AtWork
  <2>6. CASE toolCall.op \notin {"find peaks", "transform"}
    <3>1. KernelMade(t)
      <4>1. SUFFICES ASSUME ~ Subtracting PROVE memory[Task(t).scratch] = ScaleOf(Turn(t))  BY DEF KernelMade
      <4>2. toolCall.op = "transform one scale"  BY <2>6, <4>1, BusyInv, CallIsKnown DEF Subtracting
      <4>3. Task(t).scratch = Kernel /\ memory[Kernel] = ScaleOf(1)  BY <4>2, BusyInv, TaskFields DEF KernelOfAll
      <4>4. toolCall.scales[Turn(t)] = toolCall.scales[1]  BY <1>2, <4>1, <4>2, BusyInv, CallIsKnown, Turns
      <4>5. QED BY <4>3, <4>4 DEF ScaleOf
    <3>2. KernelMade(t)'  BY <1>1, <2>2, <3>1 DEF KernelMade, ScaleOf
    <3>3. At(t, "finish")'  BY <1>1, <2>4, <2>6
    <3>4. QED BY <2>3, <3>2, <3>3 DEF AtWork
  <2>7. QED BY <2>5, <2>6
<1>12. OwnerOK' /\ Busy' /\ Rounds'  BY <1>1, <1>2, <1>6, <1>9, <1>11, RoundGoesOn
<1>13. KernelOfAll' /\ ImagesInOrder' /\ PeaksInOrder'  BY <1>1, <1>2, BuffersKept
<1>14. SlicesOnce'
  <2>1. \A u \in ToolLanes : toolThread'[u].at = "answer" <=> toolThread[u].at = "answer"  BY <1>1, <1>9
  <2>2. QED BY <1>1, <2>1, SlicesKept
<1>15. QED BY <1>10, <1>12, <1>13, <1>14, StillBusy

LEMMA MakingAKernel ==
  ASSUME ToolsInv, Busy, NEW t \in ToolLanes, PrepareTransform(t)
  PROVE  ToolsInv'
<1>1. /\ toolThread[t].at = "prepare" /\ ThreadGoes(t, "finish")
      /\ memory' = [memory EXCEPT ![toolThread[t].task.scratch] = <<toolThread[t].task.scale>>]
      /\ UNCHANGED <<toolCall, owner, imageIndex, nextThread, readThread, taskLanes, resultLanes, results>>
  BY DEF PrepareTransform
<1>2. InRound(t) /\ AtWork(t) /\ readThread <= t /\ t < nextThread  BY <1>1, HasTurn DEF Resting
<1>3. Untouched(t) /\ At(t, "prepare") /\ toolCall.op \in {"find peaks", "transform"}
  BY <1>1, <1>2 DEF AtWork, At, Answered, Queued
<1>4. OwnerOK /\ Arrays  BY BusyInv
<1>5. /\ ~ Subtracting /\ toolThread[t].task = Task(t) /\ Task(t).scratch = ScratchOf(t)
      /\ Task(t).scale = toolCall.scales[Turn(t)]  BY <1>3, TaskFields DEF Subtracting, At
<1>6. memory' = [memory EXCEPT ![ScratchOf(t)] = ScaleOf(Turn(t))]  BY <1>1, <1>5 DEF ScaleOf
<1>7. ScratchOf(t) \in BuffersOf(toolCall) /\ Task(t).image \in BuffersOf(toolCall) /\ Task(t).image # ScratchOf(t)
  BY <1>2, <1>4, <1>5, TaskBuffers
<1>8. /\ memory' = [b \in BuffersOf(toolCall) |-> memory'[b]] /\ memory'[ScratchOf(t)] = ScaleOf(Turn(t))
      /\ \A b \in BuffersOf(toolCall) : b # ScratchOf(t) => memory'[b] = memory[b]
  BY <1>4, <1>6, <1>7, ChangedAt DEF Arrays
<1>9. /\ toolThread'[t].at = "finish" /\ toolThread'[t].task = Task(t)
      /\ \A u \in ToolLanes \ {t} : toolThread'[u] = toolThread[u]
      /\ toolThread' = [u \in ToolLanes |-> [at |-> toolThread'[u].at, task |-> toolThread'[u].task]]
  BY <1>1, <1>4, <1>5, ThreadMoves
<1>10. Arrays'  BY <1>1, <1>4, <1>8, <1>9 DEF Arrays
<1>11. AtWork(t)'
  <2>1. Before' = Before  BY <1>1 DEF Before, Subtracting
  <2>2. Task(t)' = Task(t) /\ Turn(t)' = Turn(t) /\ Subtracting' = Subtracting  BY <1>1, <2>1, SameTasks
  <2>3. Untouched(t)'  BY <1>3, <1>7, <1>8, <2>2 DEF Untouched
  <2>4. KernelMade(t)'  BY <1>1, <1>5, <1>8, <2>2 DEF KernelMade, ScaleOf
  <2>5. At(t, "finish")'  BY <1>1, <1>3, <1>9, <2>2 DEF At
  <2>6. QED BY <2>3, <2>4, <2>5 DEF AtWork
<1>12. ASSUME NEW u \in ToolLanes \ {t}, InRound(u)
       PROVE  memory'[Task(u).image] = memory[Task(u).image] /\ memory'[Task(u).scratch] = memory[Task(u).scratch]
  <2>1. u < nextThread  BY <1>12 DEF InRound
  <2>2. Task(u).image \in BuffersOf(toolCall) /\ Task(u).scratch \in BuffersOf(toolCall)  BY <1>4, <2>1, TaskBuffers
  <2>3. ScratchOf(t) # Task(u).image /\ ScratchOf(t) # Task(u).scratch  BY <1>4, <1>5, TasksApart
  <2>4. QED BY <1>8, <2>2, <2>3
<1>13. OwnerOK' /\ Busy' /\ Rounds'  BY <1>1, <1>2, <1>9, <1>11, <1>12, RoundGoesOn
<1>14. KernelOfAll' /\ ImagesInOrder' /\ PeaksInOrder'  BY <1>1, <1>2, <1>8, BuffersKept
<1>15. SlicesOnce'  BY <1>1, <1>5, SlicesKept
<1>16. QED BY <1>10, <1>13, <1>14, <1>15, StillBusy

LEMMA DoingTheTask ==
  ASSUME ToolsInv, Busy, NEW t \in ToolLanes, FinishTransform(t)
  PROVE  ToolsInv'
<1> DEFINE b == Task(t).image
           done == IF Subtracting THEN <<Turn(t)>> ELSE memory[Task(t).scratch]
<1>1. /\ toolThread[t].at = "finish" /\ ThreadGoes(t, "answer")
      /\ UNCHANGED <<toolCall, owner, imageIndex, nextThread, readThread, taskLanes, resultLanes, results>>
  BY DEF FinishTransform
<1>2. InRound(t) /\ AtWork(t) /\ readThread <= t /\ t < nextThread /\ t \in Nat  BY <1>1, HasTurn DEF Resting
<1>3. Untouched(t) /\ At(t, "finish") /\ KernelMade(t)  BY <1>1, <1>2 DEF AtWork, At, Answered, Queued
<1>4. OwnerOK /\ Arrays  BY BusyInv
<1>5. toolThread[t].task = Task(t) /\ Task(t).op = toolCall.op /\ (Subtracting => Task(t).scale = Turn(t))
  BY <1>3, TaskFields DEF At
<1>6. memory' = [memory EXCEPT ![b] = memory[b] \o done]  BY <1>5 DEF FinishTransform, Subtracting
<1>7. b \in BuffersOf(toolCall)  BY <1>2, <1>4, TaskBuffers
<1> HIDE DEF done, b
<1>8. /\ memory' = [x \in BuffersOf(toolCall) |-> memory'[x]] /\ memory'[b] = memory[b] \o done
      /\ \A x \in BuffersOf(toolCall) : x # b => memory'[x] = memory[x]  BY <1>4, <1>6, <1>7, ChangedAt DEF Arrays
<1>9. /\ toolThread'[t].at = "answer" /\ toolThread'[t].task = Task(t)
      /\ \A u \in ToolLanes \ {t} : toolThread'[u] = toolThread[u]
      /\ toolThread' = [u \in ToolLanes |-> [at |-> toolThread'[u].at, task |-> toolThread'[u].task]]
  BY <1>1, <1>4, <1>5, ThreadMoves
<1>10. Arrays'  BY <1>1, <1>4, <1>8, <1>9 DEF Arrays
<1>11. AtWork(t)'
  <2>1. Before' = Before  BY <1>1 DEF Before, Subtracting
  <2>2. Task(t)' = Task(t) /\ Turn(t)' = Turn(t) /\ Subtracting' = Subtracting  BY <1>1, <2>1, SameTasks
  <2>3. Convolved(t)'
    <3>1. SUFFICES ASSUME ~ Subtracting PROVE memory'[b] = ScaleOf(Turn(t))  BY <1>1, <2>2 DEF Convolved, ScaleOf, b
    <3>2. memory[b] = <<>> /\ done = ScaleOf(Turn(t))  BY <1>3, <3>1 DEF Untouched, KernelMade, b, done
    <3>3. toolCall.scales[Turn(t)] \in Nat  BY <1>2, <1>4, <3>1, CallIsKnown, Turns, ElementOfSeq
    <3>4. ScaleOf(Turn(t)) \in Seq(Nat)  BY <3>3 DEF ScaleOf
    <3>5. <<>> \o ScaleOf(Turn(t)) = ScaleOf(Turn(t))  BY <3>4, ConcatEmptySeq
    <3>6. QED BY <1>8, <3>2, <3>5
  <2>4. At(t, "answer")'  BY <1>1, <1>3, <1>9, <2>2 DEF At
  <2>5. QED BY <2>3, <2>4 DEF AtWork
<1>12. ASSUME ~ Subtracting, NEW u \in ToolLanes \ {t}, InRound(u)
       PROVE  memory'[Task(u).image] = memory[Task(u).image] /\ memory'[Task(u).scratch] = memory[Task(u).scratch]
  <2>1. u < nextThread  BY <1>12 DEF InRound
  <2>2. Task(u).image \in BuffersOf(toolCall) /\ Task(u).scratch \in BuffersOf(toolCall)  BY <1>4, <2>1, TaskBuffers
  <2>3. b # Task(u).image /\ b # Task(u).scratch  BY <1>4, <1>12, TasksApart DEF b
  <2>4. QED BY <1>8, <2>2, <2>3
<1>13. OwnerOK' /\ Busy' /\ Rounds'  BY <1>1, <1>2, <1>9, <1>11, <1>12, RoundGoesOn
<1>14. KernelOfAll' /\ ImagesInOrder' /\ PeaksInOrder'  BY <1>1, <1>2, <1>8, BuffersKept DEF b
<1>15. CASE ~ Subtracting
  <2>1. SlicesOnce'  BY <1>1, <1>15, SlicesKept
  <2>2. QED BY <1>10, <1>13, <1>14, <2>1, StillBusy
<1>16. CASE Subtracting
  <2>1. b = ImageBuffer(1) /\ done = <<t + 1>> /\ t + 1 \in 1 .. ToolThreads /\ t + 1 # ToolThreads
    <3>1. Turn(t) = t + 1 /\ t + 1 < ToolThreads /\ Task(t).image = ImageBuffer(1)
      BY <1>2, <1>4, <1>16, Turns, TaskFields
    <3>2. QED BY <1>2, <1>16, <3>1, ThreadsOfTools DEF b, done
  <2> DEFINE s == memory[ImageBuffer(1)]
             r == memory'[ImageBuffer(1)]
  <2>2. /\ s \in Seq(1 .. ToolThreads) /\ \A i, j \in DOMAIN s : s[i] = s[j] => i = j
        /\ \A x \in 1 .. ToolThreads : Among(s, x) <=> Cut(x)  BY <1>16, BusyInv DEF SlicesOnce
  <2>3. r = s \o <<t + 1>>  BY <1>8, <2>1
  <2> HIDE DEF s, r
  <2>4. ~ Cut(t + 1)
    <3>1. SUFFICES ASSUME NEW u \in ToolLanes, t + 1 = u + 1,
                          u < readThread \/ (u < nextThread /\ (toolThread[u].at = "answer" \/ resultLanes[u] # <<>>))
                   PROVE  FALSE  BY <2>1 DEF Cut
    <3>2. u = t  BY <1>2, <3>1, ThreadsOfTools
    <3>3. ~ (t < readThread)  BY <1>2, <1>4 DEF OwnerOK
    <3>4. toolThread[t].at = "finish" /\ resultLanes[t] = <<>>  BY <1>3 DEF At
    <3>5. QED BY <3>1, <3>2, <3>3, <3>4
  <2>5. \A x : Cut(x)' <=> (Cut(x) \/ x = t + 1)
    <3> TAKE x
    <3>1. ASSUME NEW u \in ToolLanes
          PROVE  (u < readThread' \/ (u < nextThread' /\ (toolThread'[u].at = "answer" \/ resultLanes'[u] # <<>>)))
                 <=> (u = t \/ u < readThread \/ (u < nextThread /\ (toolThread[u].at = "answer" \/ resultLanes[u] # <<>>)))
      BY <1>1, <1>2, <1>9
    <3>2. QED BY <1>1, <3>1 DEF Cut
  <2>6. /\ r \in Seq(1 .. ToolThreads) /\ \A i, j \in DOMAIN r : r[i] = r[j] => i = j
        /\ \A y : Among(r, y) <=> (Among(s, y) \/ y = t + 1)
    <3>1. t + 1 \in 1 .. ToolThreads /\ ~ Among(s, t + 1)  BY <2>1, <2>2, <2>4
    <3>2. s \in Seq(1 .. ToolThreads) /\ \A i, j \in DOMAIN s : s[i] = s[j] => i = j  BY <2>2
    <3> DEFINE x == t + 1
               S == 1 .. ToolThreads
    <3>3. x \in S /\ ~ Among(s, x) /\ s \in Seq(S) /\ (r = Append(s, x) \/ r = s \o <<x>>)  BY <2>3, <3>1, <3>2
    <3> HIDE DEF x, S
    <3>4. /\ r \in Seq(S) /\ \A i, j \in DOMAIN r : r[i] = r[j] => i = j
          /\ \A y : Among(r, y) <=> (Among(s, y) \/ y = x)  BY <3>2, <3>3, OneMore
    <3>5. QED BY <3>4 DEF x, S
  <2>7. SlicesOnce'  BY <2>2, <2>5, <2>6 DEF SlicesOnce, r
  <2>8. QED BY <1>10, <1>13, <1>14, <2>7, StillBusy
<1>17. QED BY <1>15, <1>16

LEMMA Answering ==
  ASSUME ToolsInv, Busy, NEW t \in ToolLanes, WriteResult(t)
  PROVE  ToolsInv'
<1> DEFINE answer == [image |-> memory[toolThread[t].task.image], mask |-> toolThread[t].task.mask]
<1>1. /\ toolThread[t].at = "answer" /\ ThreadGoes(t, "idle") /\ resultLanes' = [resultLanes EXCEPT ![t] = <<answer>>]
      /\ UNCHANGED <<toolCall, owner, imageIndex, nextThread, readThread, taskLanes, memory, results>>
  BY DEF WriteResult
<1>2. InRound(t) /\ AtWork(t) /\ readThread <= t /\ t < nextThread  BY <1>1, HasTurn DEF Resting
<1>3. Convolved(t) /\ At(t, "answer")  BY <1>1, <1>2 DEF AtWork, At, Answered, Queued
<1>4. Arrays  BY BusyInv
<1>5. toolThread[t].task = Task(t) /\ Task(t).mask = Turn(t)  BY <1>3, TaskFields DEF At
<1>6. ~ Subtracting => answer = [image |-> ScaleOf(Turn(t)), mask |-> Turn(t)]  BY <1>3, <1>5 DEF Convolved
<1> HIDE DEF answer
<1>7. /\ resultLanes' = [u \in ToolLanes |-> resultLanes'[u]] /\ resultLanes'[t] = <<answer>>
      /\ \A u \in ToolLanes \ {t} : resultLanes'[u] = resultLanes[u]  BY <1>1, <1>4, ChangedAt DEF Arrays
<1>8. /\ toolThread'[t].at = "idle" /\ toolThread'[t].task = Task(t)
      /\ \A u \in ToolLanes \ {t} : toolThread'[u] = toolThread[u]
      /\ toolThread' = [u \in ToolLanes |-> [at |-> toolThread'[u].at, task |-> toolThread'[u].task]]
  BY <1>1, <1>4, <1>5, ThreadMoves
<1>9. Arrays'  BY <1>1, <1>4, <1>7, <1>8 DEF Arrays
<1>10. <<answer>> # <<>>  OBVIOUS
<1>11. AtWork(t)'
  <2>1. Before' = Before  BY <1>1 DEF Before, Subtracting
  <2>2. Task(t)' = Task(t) /\ Turn(t)' = Turn(t) /\ Subtracting' = Subtracting  BY <1>1, <2>1, SameTasks
  <2>3. Convolved(t)'  BY <1>1, <1>3, <2>2 DEF Convolved, ScaleOf
  <2>4. Answered(t)'
    <3>1. taskLanes'[t] = <<>> /\ toolThread'[t].at = "idle" /\ resultLanes'[t] # <<>>
      BY <1>1, <1>3, <1>7, <1>8, <1>10 DEF At
    <3>2. ~ Subtracting => resultLanes'[t] = <<[image |-> ScaleOf(Turn(t)), mask |-> Turn(t)]>>  BY <1>6, <1>7
    <3>3. QED BY <1>1, <2>2, <3>1, <3>2 DEF Answered, ScaleOf
  <2>5. QED BY <2>3, <2>4 DEF AtWork
<1>12. OwnerOK' /\ Busy' /\ Rounds'  BY <1>1, <1>2, <1>7, <1>8, <1>11, RoundGoesOn
<1>13. KernelOfAll' /\ ImagesInOrder' /\ PeaksInOrder'  BY <1>1, <1>2, BuffersKept
<1>14. SlicesOnce'
  <2>1. \A u \in ToolLanes : (toolThread'[u].at = "answer" \/ resultLanes'[u] # <<>>)
                             <=> (toolThread[u].at = "answer" \/ resultLanes[u] # <<>>)  BY <1>1, <1>7, <1>8, <1>10
  <2>2. QED BY <1>1, <2>1, SlicesKept
<1>15. QED BY <1>9, <1>12, <1>13, <1>14, StillBusy

LEMMA ThreadStepKeepsInv ==
  ASSUME ToolsInv, NEW t \in ToolLanes, ToolThreadStep(t)
  PROVE  ToolsInv'
<1>1. CASE Busy
  <2>1. ~ LeaveTools(t)  BY <1>1 DEF LeaveTools, Busy
  <2>2. QED BY <1>1, <2>1, TakingATask, MakingAKernel, DoingTheTask, Answering DEF ToolThreadStep
<1>2. CASE ~ Busy
  <2>1. OwnerOK /\ Arrays  BY DEF ToolsInv
  <2>2. owner # "idle"
    <3>1. SUFFICES ASSUME owner = "idle" PROVE FALSE  OBVIOUS
    <3>2. Resting(t)  BY <3>1 DEF ToolsInv
    <3>3. QED
      BY <3>1, <3>2 DEF Resting, ToolThreadStep, TakeToolTask, PrepareTransform, FinishTransform, WriteResult, LeaveTools
  <2>3. UNCHANGED <<toolCall, owner, imageIndex, nextThread, readThread>>
    BY DEF ToolThreadStep, TakeToolTask, PrepareTransform, FinishTransform, WriteResult, LeaveTools
  <2>4. OwnerOK'  BY <2>1, <2>3 DEF OwnerOK, Busy, Subtracting, Count, IsOwn
  <2>5. \A place : ThreadGoes(t, place) =>
          toolThread' = [u \in ToolLanes |-> [at |-> toolThread'[u].at, task |-> toolThread'[u].task]]
    BY <2>1, ThreadMoves
  <2>6. \A b, v : memory' = [memory EXCEPT ![b] = v] => memory' = [x \in BuffersOf(toolCall) |-> memory'[x]]
    BY <2>1 DEF Arrays
  <2>7. Arrays'
    <3>1. CASE TakeToolTask(t)
      <4>1. taskLanes' = [u \in ToolLanes |-> taskLanes'[u]]  BY <2>1, <3>1 DEF TakeToolTask, Arrays
      <4>2. toolThread' = [u \in ToolLanes |-> [at |-> toolThread'[u].at, task |-> toolThread'[u].task]]
        <5> DEFINE new == [task |-> Head(taskLanes[t]),
                           at |-> IF Head(taskLanes[t]).op \in {"find peaks", "transform"} THEN "prepare" ELSE "finish"]
        <5>1. toolThread' = [toolThread EXCEPT ![t] = new] /\ new = [at |-> new.at, task |-> new.task]
          BY <3>1 DEF TakeToolTask
        <5> HIDE DEF new
        <5>2. toolThread = [u \in ToolLanes |-> [at |-> toolThread[u].at, task |-> toolThread[u].task]]
          BY <2>1 DEF Arrays
        <5>3. toolThread' = [u \in ToolLanes |-> IF u = t THEN [at |-> new.at, task |-> new.task]
                                                 ELSE [at |-> toolThread[u].at, task |-> toolThread[u].task]]
          BY <5>1, <5>2
        <5>4. QED BY <5>3
      <4>3. QED BY <2>1, <3>1, <4>1, <4>2 DEF TakeToolTask, Arrays
    <3>2. CASE PrepareTransform(t) \/ FinishTransform(t)
      <4>1. memory' = [x \in BuffersOf(toolCall) |-> memory'[x]]  BY <2>6, <3>2 DEF PrepareTransform, FinishTransform
      <4>2. QED BY <2>1, <2>3, <2>5, <3>2, <4>1 DEF PrepareTransform, FinishTransform, Arrays
    <3>3. CASE WriteResult(t)
      <4>1. resultLanes' = [u \in ToolLanes |-> resultLanes'[u]]  BY <2>1, <3>3 DEF WriteResult, Arrays
      <4>2. QED BY <2>1, <2>5, <3>3, <4>1 DEF WriteResult, Arrays
    <3>4. CASE LeaveTools(t)  BY <2>1, <2>5, <3>4 DEF LeaveTools, Arrays
    <3>5. QED BY <3>1, <3>2, <3>3, <3>4 DEF ToolThreadStep
  <2>8. QED BY <1>2, <2>2, <2>3, <2>4, <2>7 DEF ToolsInv, Busy
<1>3. QED BY <1>1, <1>2

----
(* A step of the owner *)

LEMMA StartsResting == ASSUME ToolsInit PROVE ToolsInv
<1>1. OwnerOK /\ owner = "idle" /\ ~ Busy  BY DEF ToolsInit, OwnerOK, Busy
<1>2. Arrays  BY DEF ToolsInit, Arrays
<1>3. \A t \in ToolLanes : Resting(t)  BY DEF ToolsInit, Resting
<1>4. CallsDoTheirWork  BY DEF ToolsInit, CallsDoTheirWork, NoCall
<1>5. QED BY <1>1, <1>2, <1>3, <1>4 DEF ToolsInv

LEMMA CallKeepsInv ==
  ASSUME ToolsInv, NEW c \in ToolCalls, Call(c)
  PROVE  ToolsInv'
<1>1. /\ owner = "idle" /\ toolCall' = c /\ imageIndex' = 1 /\ results' = <<>> /\ owner' = "prepare"
      /\ memory' = [b \in BuffersOf(c) |-> IF b = Kernel /\ c.op = "transform one scale" THEN <<c.scales[1]>> ELSE <<>>]
      /\ UNCHANGED <<nextThread, readThread, taskLanes, resultLanes, toolThread>>  BY DEF Call
<1>2. /\ OwnerOK /\ Arrays /\ (\A t \in ToolLanes : Resting(t)) /\ nextThread = 0 /\ readThread = 0
  BY <1>1 DEF ToolsInv, OwnerOK
<1>0. imageIndex' = 1 /\ owner' = "prepare" /\ nextThread' = 0 /\ readThread' = 0  BY <1>1, <1>2
<1>3. OwnerOK'
  <2>1. Count' \in Nat /\ toolCall' \in ToolCalls  BY <1>1, ToolsAssumption, LenProperties DEF Count, ToolsAssumption
  <2>2. 0 < ToolThreads /\ 0 <= ToolThreads  BY ThreadsOfTools
  <2>3. 1 <= Count' + 1
    <3>1. \A k \in Nat : 1 <= k + 1  OBVIOUS
    <3>2. QED BY <2>1, <3>1
  <2>4. owner' # "idle" /\ owner' # "write" /\ owner' # "read" /\ Busy'  BY <1>0 DEF Busy
  <2>5. imageIndex' \in Nat \ {0} /\ nextThread' < imageIndex' /\ imageIndex' = nextThread' + 1
        /\ nextThread' \in Nat /\ readThread' \in Nat /\ readThread' <= nextThread'  BY <1>0
  <2>6. QED BY <1>0, <2>1, <2>2, <2>3, <2>4, <2>5 DEF OwnerOK
<1>4. Busy' /\ owner' # "idle"  BY <1>1 DEF Busy
<1>5. Arrays'
  <2>1. memory' = [b \in BuffersOf(toolCall') |-> memory'[b]]  BY <1>1
  <2>2. QED BY <1>1, <1>2, <2>1 DEF Arrays, BuffersOf
<1>6. Rounds'
  <2>1. \A t \in ToolLanes : Resting(t)'  BY <1>1, <1>2 DEF Resting
  <2>2. \A t \in ToolLanes : ~ InRound(t)'
    <3>1. nextThread' = 0  BY <1>1, <1>2
    <3>2. \A t \in ToolLanes : t \in Nat  BY ThreadsOfTools
    <3>3. \A t \in ToolLanes : ~ (t < 0)  BY <3>2
    <3>4. QED BY <3>1, <3>3 DEF InRound
  <2>3. QED BY <2>1, <2>2 DEF Rounds
<1>7. KernelOfAll'
  <2>1. Kernel \in BuffersOf(c)  BY DEF BuffersOf
  <2>2. QED BY <1>1, <2>1 DEF KernelOfAll, ScaleOf
<1>8. Before' = 0
  <2>1. imageIndex' - 1 - nextThread' = 0  BY <1>0
  <2>2. QED BY <2>1 DEF Before
<1>9. ImagesInOrder'
  <2>1. \A i \in DOMAIN c.scales \cup {1} : ImageBuffer(i) \in BuffersOf(c) /\ ImageBuffer(i) # Kernel
    BY DistinctBuffers DEF BuffersOf
  <2>2. \A i \in DOMAIN c.scales \cup {1} : memory'[ImageBuffer(i)] = <<>>  BY <1>1, <2>1
  <2>3. \A i \in DOMAIN c.scales : ~ (i <= 0)
    <3>1. DOMAIN c.scales = 1 .. Len(c.scales)  BY ToolsAssumption, LenProperties DEF ToolsAssumption
    <3>2. QED BY <3>1
  <2>4. Before' + readThread' = 0  BY <1>0, <1>8
  <2>5. QED BY <1>1, <2>2, <2>3, <2>4 DEF ImagesInOrder
<1>10. PeaksInOrder'
  <2>1. Before' + readThread' = 0 /\ 1 .. 0 = {}  BY <1>0, <1>8
  <2>2. <<>> = [i \in {} |-> [image |-> ScaleOf(i)', mask |-> i]]  OBVIOUS
  <2>3. results' = [i \in 1 .. Before' + readThread' |-> [image |-> ScaleOf(i)', mask |-> i]]  BY <1>1, <2>1, <2>2
  <2>4. owner' # "write"  BY <1>1
  <2>5. QED BY <2>3, <2>4 DEF PeaksInOrder
<1>11. SlicesOnce'
  <2>1. memory'[ImageBuffer(1)] = <<>>
    <3>1. ImageBuffer(1) \in BuffersOf(c) /\ ImageBuffer(1) # Kernel  BY DistinctBuffers DEF BuffersOf
    <3>2. QED BY <1>1, <3>1
  <2>2. DOMAIN <<>> = {} /\ <<>> \in Seq(1 .. ToolThreads)  OBVIOUS
  <2>3. \A x \in 1 .. ToolThreads : ~ Cut(x)'
    <3> SUFFICES ASSUME NEW x \in 1 .. ToolThreads, Cut(x)' PROVE FALSE  OBVIOUS
    <3>1. ~ (imageIndex' > ToolThreads)  BY <1>0, ThreadsOfTools
    <3>2. \A t \in ToolLanes : ~ (t < readThread')  BY <1>0, ThreadsOfTools
    <3>3. \A t \in ToolLanes : ~ (t < nextThread')  BY <1>0, ThreadsOfTools
    <3>4. QED BY <3>1, <3>2, <3>3 DEF Cut
  <2>4. \A x : ~ Among(memory'[ImageBuffer(1)], x)  BY <2>1, <2>2, Zenon DEF Among
  <2>5. DOMAIN memory'[ImageBuffer(1)] = {}  BY <2>1, <2>2, Zenon
  <2>6. QED BY <2>1, <2>2, <2>3, <2>4, <2>5 DEF SlicesOnce
<1>12. QED BY <1>3, <1>4, <1>5, <1>6, <1>7, <1>9, <1>10, <1>11 DEF ToolsInv

LEMMA RoundsUnchanged ==
  ASSUME Rounds, UNCHANGED <<toolCall, nextThread, readThread, taskLanes, resultLanes, toolThread>>,
         ~ Subtracting => UNCHANGED memory, Before' = Before
  PROVE  Rounds'
<1> SUFFICES ASSUME NEW u \in ToolLanes PROVE IF InRound(u)' THEN AtWork(u)' ELSE Resting(u)'  BY DEF Rounds
<1>1. InRound(u)' = InRound(u)  BY DEF InRound
<1>2. CASE InRound(u)
  <2>1. AtWork(u)  BY <1>2 DEF Rounds
  <2>2. AtWork(u)'  BY <2>1, StillAtWork
  <2>3. QED BY <1>1, <1>2, <2>2
<1>3. CASE ~ InRound(u)  BY <1>1, <1>3 DEF Rounds, Resting
<1>4. QED BY <1>2, <1>3

LEMMA PreparingATask ==
  ASSUME ToolsInv, PrepareTask
  PROVE  ToolsInv'
<1>1. /\ owner = "prepare" /\ imageIndex <= Count /\ ~ IsOwn /\ owner' = "write"
      /\ memory' = IF toolCall.op = "find peaks" THEN [memory EXCEPT ![CopyOf(nextThread)] = <<>>] ELSE memory
      /\ UNCHANGED <<toolCall, imageIndex, nextThread, readThread, taskLanes, resultLanes, toolThread, results>>
  BY DEF PrepareTask
<1>2. Busy /\ Busy' /\ owner' # "idle"  BY <1>1 DEF Busy
<1>3. OwnerOK /\ Arrays /\ Rounds /\ KernelOfAll /\ ImagesInOrder /\ PeaksInOrder /\ SlicesOnce  BY <1>2, BusyInv
<1>4. OwnerOK'
  <2>1. /\ nextThread < ToolThreads /\ readThread = 0 /\ imageIndex \in Nat \ {0} /\ nextThread \in Nat
    BY <1>1, <1>3 DEF OwnerOK
  <2>2. Subtracting => ~ (imageIndex = ToolThreads + 1)
    <3>1. Subtracting => imageIndex <= ToolThreads /\ ToolThreads \in Nat
      BY <1>1, ThreadsOfTools DEF Count, Subtracting
    <3>2. QED BY <2>1, <3>1
  <2>3. QED BY <1>1, <1>2, <1>3, <2>1, <2>2 DEF OwnerOK, Subtracting, Count, IsOwn
<1>5. CASE toolCall.op # "find peaks"
  <2>1. memory' = memory  BY <1>1, <1>5
  <2>2. Rounds' /\ Arrays'
    <3>1. Before' = Before  BY <1>1 DEF Before, Subtracting
    <3>2. Rounds'  BY <1>1, <1>3, <2>1, <3>1, RoundsUnchanged
    <3>3. QED BY <1>1, <1>3, <2>1, <3>2 DEF Arrays
  <2>3. KernelOfAll' /\ ImagesInOrder' /\ PeaksInOrder' /\ SlicesOnce'
    BY <1>1, <1>3, <1>5, <2>1 DEF KernelOfAll, ImagesInOrder, PeaksInOrder, SlicesOnce, TransformingImages, Subtracting,
                                  ScaleOf, Before, Cut
  <2>4. QED BY <1>2, <1>4, <2>2, <2>3, StillBusy
<1>6. CASE toolCall.op = "find peaks"
  <2>1. nextThread \in ToolLanes /\ ~ Subtracting /\ ~ TransformingImages
    <3>1. nextThread \in Nat /\ nextThread < ToolThreads  BY <1>1, <1>3 DEF OwnerOK
    <3>2. nextThread \in ToolLanes  BY <3>1, ThreadsOfTools
    <3>3. ~ Subtracting /\ ~ TransformingImages  BY <1>6 DEF Subtracting, TransformingImages
    <3>4. QED BY <3>2, <3>3
  <2>2. CopyOf(nextThread) \in BuffersOf(toolCall)  BY <2>1 DEF BuffersOf
  <2>3. /\ memory' = [b \in BuffersOf(toolCall) |-> memory'[b]] /\ memory'[CopyOf(nextThread)] = <<>>
        /\ \A b \in BuffersOf(toolCall) \ {CopyOf(nextThread)} : memory'[b] = memory[b]
    BY <1>1, <1>3, <1>6, <2>2, ChangedAt DEF Arrays
  <2>4. Arrays'  BY <1>1, <1>3, <2>3 DEF Arrays
  <2>5. Before' = Before  BY <1>1 DEF Before, Subtracting
  <2>6. Rounds'
    <3> SUFFICES ASSUME NEW u \in ToolLanes PROVE IF InRound(u)' THEN AtWork(u)' ELSE Resting(u)'  BY DEF Rounds
    <3>1. InRound(u)' = InRound(u)  BY <1>1 DEF InRound
    <3>2. CASE InRound(u)
      <4>1. u < nextThread /\ AtWork(u)  BY <1>3, <3>2 DEF InRound, Rounds
      <4>2. u # nextThread  BY <1>3, <4>1, ThreadsOfTools DEF OwnerOK
      <4>3. Task(u).image \in BuffersOf(toolCall) /\ Task(u).scratch \in BuffersOf(toolCall)
        BY <1>2, <1>3, <4>1, TaskBuffers
      <4>4. Task(u).image = CopyOf(u) /\ Task(u).scratch = ScratchOf(u)  BY <1>6, TaskFields
      <4>5. Task(u).image # CopyOf(nextThread) /\ Task(u).scratch # CopyOf(nextThread)  BY <4>2, <4>4, DistinctBuffers
      <4>6. AtWork(u)'  BY <1>1, <2>3, <2>5, <4>1, <4>3, <4>5, StillAtWork
      <4>7. QED BY <3>1, <3>2, <4>6
    <3>3. CASE ~ InRound(u)  BY <1>1, <1>3, <3>1, <3>3 DEF Rounds, Resting
    <3>4. QED BY <3>2, <3>3
  <2>7. KernelOfAll' /\ ImagesInOrder' /\ SlicesOnce'
    BY <1>1, <1>6, <2>1 DEF KernelOfAll, ImagesInOrder, SlicesOnce, TransformingImages, Subtracting
  <2>8. PeaksInOrder'
    <3>1. results = [i \in 1 .. Before + readThread |-> [image |-> ScaleOf(i), mask |-> i]]
      BY <1>3, <1>6 DEF PeaksInOrder
    <3>2. QED BY <1>1, <2>3, <2>5, <3>1 DEF PeaksInOrder, ScaleOf
  <2>9. QED BY <1>2, <1>4, <2>4, <2>6, <2>7, <2>8, StillBusy
<1>7. QED BY <1>5, <1>6

LEMMA WritingATask ==
  ASSUME ToolsInv, WriteToolTask, NEW n \in ToolLanes, n = nextThread
  PROVE  ToolsInv'
<1>1. /\ owner = "write" /\ taskLanes' = [taskLanes EXCEPT ![n] = <<TaskFor(imageIndex, n)>>]
      /\ imageIndex' = imageIndex + 1 /\ nextThread' = n + 1
      /\ owner' = IF n + 1 = ToolThreads THEN "read" ELSE "prepare"
      /\ UNCHANGED <<toolCall, readThread, resultLanes, toolThread, memory, results>>  BY DEF WriteToolTask
<1>2. Busy /\ Busy' /\ owner' # "idle" /\ owner' # "write"  BY <1>1 DEF Busy
<1>3. OwnerOK /\ Arrays /\ Rounds /\ KernelOfAll /\ ImagesInOrder /\ PeaksInOrder /\ SlicesOnce  BY <1>2, BusyInv
<1>4. /\ n \in Nat /\ n < ToolThreads /\ readThread = 0 /\ imageIndex \in Nat \ {0} /\ imageIndex <= Count
      /\ Subtracting => imageIndex = n + 1 /\ imageIndex # ToolThreads
      /\ ~ Subtracting => n < imageIndex
      /\ ToolThreads \in Nat \ {0} /\ Count \in Nat
      /\ Subtracting => Count = ToolThreads
  <2>1. /\ nextThread \in Nat /\ nextThread < ToolThreads /\ readThread = 0 /\ imageIndex \in Nat \ {0}
        /\ imageIndex <= Count
        /\ Subtracting => imageIndex = nextThread + 1 /\ imageIndex # ToolThreads
        /\ ~ Subtracting => nextThread < imageIndex  BY <1>1, <1>2, <1>3 DEF OwnerOK, IsOwn, Subtracting
  <2>2. QED BY <1>2, <1>3, <2>1, CallIsKnown, ThreadsOfTools
<1>5. Subtracting' = Subtracting /\ Count' = Count /\ TransformingImages' = TransformingImages
  BY <1>1 DEF Subtracting, Count, TransformingImages
<1>6. OwnerOK'
  <2>1. /\ owner' \in {"prepare", "read"} /\ imageIndex' \in Nat \ {0} /\ nextThread' \in Nat /\ readThread' = 0
        /\ owner' = "prepare" => nextThread' < ToolThreads
        /\ imageIndex' <= Count' + 1 /\ nextThread' <= ToolThreads /\ readThread' <= nextThread'
        /\ ~ Subtracting => nextThread' < imageIndex'  BY <1>1, <1>4, <1>5
  <2>2. Subtracting => imageIndex' = nextThread' + 1 /\ nextThread' < ToolThreads /\ owner' # "read"  BY <1>1, <1>4
  <2>3. toolCall' \in ToolCalls  BY <1>1, <1>2, <1>3 DEF OwnerOK
  <2>4. QED BY <1>5, <2>1, <2>2, <2>3 DEF OwnerOK, Busy
<1>7. Before' = Before /\ Turn(n) = imageIndex /\ Before \in Nat /\ (~ Subtracting => Before = imageIndex - 1 - n)
  <2>1. CASE Subtracting  BY <1>4, <1>5, <2>1 DEF Turn, Before
  <2>2. CASE ~ Subtracting
    <3>1. Before = imageIndex - 1 - n /\ Before' = imageIndex' - 1 - nextThread'  BY <1>5, <2>2 DEF Before
    <3>2. Before' = Before /\ Before \in Nat /\ Before + n + 1 = imageIndex  BY <1>1, <1>4, <2>2, <3>1
    <3>3. QED BY <2>2, <3>1, <3>2 DEF Turn
  <2>3. QED BY <2>1, <2>2
<1>8. /\ taskLanes' = [u \in ToolLanes |-> taskLanes'[u]] /\ taskLanes'[n] = <<Task(n)>>
      /\ \A u \in ToolLanes \ {n} : taskLanes'[u] = taskLanes[u]
  <2>1. taskLanes' = [taskLanes EXCEPT ![n] = <<Task(n)>>]  BY <1>1, <1>7 DEF Task
  <2>2. QED BY <1>3, <2>1, ChangedAt DEF Arrays
<1>9. Arrays'  BY <1>1, <1>3, <1>8 DEF Arrays
<1>10. ~ InRound(n) /\ Resting(n)
  <2>1. ~ InRound(n)  BY <1>4 DEF InRound
  <2>2. QED BY <1>3, <2>1 DEF Rounds
<1>11. /\ \A t : Turn(t)' = Turn(t) /\ Task(t)' = Task(t)
       /\ \A i : ScaleOf(i)' = ScaleOf(i)  BY <1>1, <1>7, SameTasks
<1>12. AtWork(n)'
  <2>1. Task(n)' = Task(n) /\ Turn(n)' = Turn(n)  BY <1>11
  <2>2. Queued(n)'  BY <1>1, <1>8, <1>10, <2>1 DEF Queued, Resting
  <2>3. Untouched(n)'
    <3>1. SUFFICES ASSUME ~ Subtracting PROVE memory[Task(n).image] = <<>>  BY <1>1, <1>5, <2>1 DEF Untouched
    <3>2. CASE TransformingImages
      <4>1. Task(n).image = ImageBuffer(imageIndex)  BY <1>7, <3>2, TaskFields
      <4>2. imageIndex \in DOMAIN toolCall.scales
        <5>1. DOMAIN toolCall.scales = 1 .. Len(toolCall.scales) /\ Count = Len(toolCall.scales)
          BY <1>2, <1>3, <3>1, CallIsKnown
        <5>2. imageIndex \in 1 .. Count  BY <1>4
        <5>3. QED BY <5>1, <5>2
      <4>3. imageIndex >= imageIndex  BY <1>4
      <4>4. QED BY <1>3, <3>2, <4>1, <4>2, <4>3 DEF ImagesInOrder
    <3>3. CASE toolCall.op = "find peaks"  BY <1>1, <1>3, <3>3, TaskFields DEF PeaksInOrder
    <3>4. QED BY <1>2, <1>3, <3>1, <3>2, <3>3, CallIsKnown DEF Subtracting, TransformingImages
  <2>4. QED BY <2>2, <2>3 DEF AtWork
<1>13. Rounds'
  <2> SUFFICES ASSUME NEW u \in ToolLanes PROVE IF InRound(u)' THEN AtWork(u)' ELSE Resting(u)'  BY DEF Rounds
  <2>1. CASE u = n
    <3>1. InRound(n)'
      <4>1. readThread' <= n /\ n < nextThread'  BY <1>1, <1>4
      <4>2. QED BY <4>1 DEF InRound
    <3>2. QED BY <1>12, <2>1, <3>1
  <2>2. CASE u # n
    <3>1. InRound(u)' = InRound(u)
      <4>1. u \in Nat  BY ThreadsOfTools
      <4>2. u < n + 1 <=> u < n  BY <1>4, <2>2, <4>1
      <4>3. QED BY <1>1, <4>2 DEF InRound
    <3>2. CASE InRound(u)
      <4>1. AtWork(u)  BY <1>3, <3>2 DEF Rounds
      <4>2. AtWork(u)'  BY <1>1, <1>7, <1>8, <2>2, <4>1, StillAtWork
      <4>3. QED BY <3>1, <3>2, <4>2
    <3>3. CASE ~ InRound(u)
      <4>1. Resting(u)  BY <1>3, <3>3 DEF Rounds
      <4>2. Resting(u)'  BY <1>1, <1>8, <2>2, <4>1 DEF Resting
      <4>3. QED BY <3>1, <3>3, <4>2
    <3>4. QED BY <3>2, <3>3
  <2>3. QED BY <2>1, <2>2
<1>14. KernelOfAll'  BY <1>1, <1>3, <1>11 DEF KernelOfAll
<1>15. ImagesInOrder'
  <2>1. SUFFICES ASSUME TransformingImages, NEW i \in DOMAIN toolCall.scales
                 PROVE  /\ i >= imageIndex' => memory[ImageBuffer(i)] = <<>>
                        /\ i <= Before + readThread => memory[ImageBuffer(i)] = ScaleOf(i)
    BY <1>1, <1>5, <1>7, <1>11 DEF ImagesInOrder
  <2>2. /\ i >= imageIndex => memory[ImageBuffer(i)] = <<>>
        /\ i <= Before + readThread => memory[ImageBuffer(i)] = ScaleOf(i)  BY <1>3, <2>1 DEF ImagesInOrder
  <2>3. i >= imageIndex' => i >= imageIndex
    <3>1. DOMAIN toolCall.scales = 1 .. Len(toolCall.scales) /\ Len(toolCall.scales) \in Nat
      BY <1>2, <1>3, CallIsKnown
    <3>2. QED BY <1>1, <1>4, <3>1
  <2>4. QED BY <2>2, <2>3
<1>16. PeaksInOrder'
  <2>1. SUFFICES ASSUME toolCall.op = "find peaks"
                 PROVE  results' = [i \in 1 .. Before' + readThread' |-> [image |-> ScaleOf(i)', mask |-> i]]
    BY <1>1, <1>2 DEF PeaksInOrder
  <2>2. results = [i \in 1 .. Before + readThread |-> [image |-> ScaleOf(i), mask |-> i]]
    BY <1>3, <2>1 DEF PeaksInOrder
  <2>3. QED BY <1>1, <1>7, <1>11, <2>2
<1>17. SlicesOnce'
  <2>1. SUFFICES ASSUME Subtracting PROVE \A x : Cut(x)' <=> Cut(x)  BY <1>1, <1>3, <1>5 DEF SlicesOnce
  <2>2. TAKE x
  <2>3. imageIndex' > ToolThreads <=> imageIndex > ToolThreads  BY <1>1, <1>4, <2>1
  <2>4. ASSUME NEW u \in ToolLanes
        PROVE  (u < readThread' \/ (u < nextThread' /\ (toolThread'[u].at = "answer" \/ resultLanes'[u] # <<>>)))
               <=> (u < readThread \/ (u < nextThread /\ (toolThread[u].at = "answer" \/ resultLanes[u] # <<>>)))
    <3>1. CASE u = n
      <4>1. ~ (toolThread[u].at = "answer" \/ resultLanes[u] # <<>>)  BY <1>10, <3>1 DEF Resting
      <4>2. QED BY <1>1, <4>1
    <3>2. CASE u # n
      <4>1. u \in Nat  BY ThreadsOfTools
      <4>2. u < n + 1 <=> u < n  BY <1>4, <3>2, <4>1
      <4>3. QED BY <1>1, <4>2
    <3>3. QED BY <3>1, <3>2
  <2>5. QED BY <2>3, <2>4 DEF Cut
<1>18. QED BY <1>2, <1>6, <1>9, <1>13, <1>14, <1>15, <1>16, <1>17, StillBusy

LEMMA SubtractingOwn ==
  ASSUME ToolsInv, SubtractOwn
  PROVE  ToolsInv'
<1>1. /\ owner = "prepare" /\ imageIndex <= Count /\ Subtracting /\ imageIndex = ToolThreads
      /\ memory' = [memory EXCEPT ![ImageBuffer(1)] = Append(memory[ImageBuffer(1)], ToolThreads)]
      /\ imageIndex' = imageIndex + 1
      /\ UNCHANGED <<toolCall, owner, nextThread, readThread, taskLanes, resultLanes, toolThread, results>>
  BY DEF SubtractOwn, IsOwn, Subtracting
<1>2. Busy /\ Busy' /\ owner' # "write"  BY <1>1 DEF Busy
<1>3. OwnerOK /\ Arrays /\ Rounds /\ SlicesOnce  BY <1>2, BusyInv
<1>4. /\ ToolThreads \in Nat \ {0} /\ Count = ToolThreads /\ nextThread \in Nat
      /\ readThread = 0 /\ nextThread = ToolThreads - 1
  <2>1. ToolThreads \in Nat \ {0} /\ Count = ToolThreads  BY <1>1, ThreadsOfTools DEF Count, Subtracting
  <2>2. /\ imageIndex = nextThread + 1 \/ imageIndex = ToolThreads + 1
        /\ nextThread \in Nat /\ readThread = 0  BY <1>1, <1>2, <1>3 DEF OwnerOK
  <2>3. nextThread = ToolThreads - 1  BY <1>1, <2>1, <2>2
  <2>4. QED BY <2>1, <2>2, <2>3
<1>5. Subtracting' /\ Subtracting' = Subtracting /\ Count' = Count /\ ~ TransformingImages'
      /\ toolCall'.op # "find peaks" /\ toolCall'.op # "transform one scale"
  BY <1>1 DEF Subtracting, Count, TransformingImages
<1>6. OwnerOK'
  <2>1. /\ owner' = "prepare" /\ imageIndex' = ToolThreads + 1 /\ imageIndex' \in Nat \ {0} /\ nextThread' = ToolThreads - 1
        /\ nextThread' \in Nat /\ readThread' = 0 /\ nextThread' < ToolThreads /\ readThread' <= nextThread'
        /\ nextThread' <= ToolThreads  BY <1>1, <1>4
  <2>2. imageIndex' <= Count' + 1
    <3>1. \A k \in Nat : k + 1 <= k + 1  OBVIOUS
    <3>2. Count' = ToolThreads  BY <1>4, <1>5
    <3>3. QED BY <1>4, <2>1, <3>1, <3>2
  <2>3. toolCall' \in ToolCalls  BY <1>1, <1>2, <1>3 DEF OwnerOK
  <2>4. QED BY <1>2, <1>5, <2>1, <2>2, <2>3 DEF OwnerOK
<1>7. ImageBuffer(1) \in BuffersOf(toolCall)  BY DEF BuffersOf
<1>8. /\ memory' = [b \in BuffersOf(toolCall) |-> memory'[b]]
      /\ memory'[ImageBuffer(1)] = Append(memory[ImageBuffer(1)], ToolThreads)
  BY <1>1, <1>3, <1>7, ChangedAt DEF Arrays
<1>9. Arrays'  BY <1>1, <1>3, <1>8 DEF Arrays
<1>10. Rounds'
  <2>1. Before' = Before  BY <1>1, <1>5 DEF Before
  <2>2. QED BY <1>1, <1>3, <2>1, RoundsUnchanged
<1>11. KernelOfAll' /\ ImagesInOrder' /\ PeaksInOrder'  BY <1>5 DEF KernelOfAll, ImagesInOrder, PeaksInOrder
<1>12. SlicesOnce'
  <2> DEFINE s == memory[ImageBuffer(1)]
             r == memory'[ImageBuffer(1)]
             S == 1 .. ToolThreads
  <2>1. /\ s \in Seq(S) /\ \A i, j \in DOMAIN s : s[i] = s[j] => i = j
        /\ \A x \in S : Among(s, x) <=> Cut(x)  BY <1>1, <1>3 DEF SlicesOnce
  <2>2. r = Append(s, ToolThreads) /\ ToolThreads \in S  BY <1>4, <1>8
  <2>3. \A u \in ToolLanes : u + 1 = ToolThreads => ~ (u < readThread) /\ ~ (u < nextThread)  BY <1>4, ThreadsOfTools
  <2>4. ~ (imageIndex > ToolThreads) /\ imageIndex' > ToolThreads  BY <1>1, <1>4
  <2>5. ~ Cut(ToolThreads)  BY <2>3, <2>4 DEF Cut
  <2>6. \A x : Cut(x)' <=> (Cut(x) \/ x = ToolThreads)  BY <1>1, <2>4 DEF Cut
  <2>7. /\ r \in Seq(S) /\ \A i, j \in DOMAIN r : r[i] = r[j] => i = j
        /\ \A y : Among(r, y) <=> (Among(s, y) \/ y = ToolThreads)
    <3> DEFINE x == ToolThreads
    <3>1. x \in S /\ ~ Among(s, x) /\ s \in Seq(S) /\ (r = Append(s, x) \/ r = s \o <<x>>)  BY <2>1, <2>2, <2>5
    <3>2. \A i, j \in DOMAIN s : s[i] = s[j] => i = j  BY <2>1
    <3> HIDE DEF s, r, S, x
    <3>3. /\ r \in Seq(S) /\ \A i, j \in DOMAIN r : r[i] = r[j] => i = j
          /\ \A y : Among(r, y) <=> (Among(s, y) \/ y = x)  BY <3>1, <3>2, OneMore
    <3>4. QED BY <3>3 DEF x
  <2> HIDE DEF s, r, S
  <2>8. \A x \in S : Among(r, x) <=> Cut(x)'  BY <2>1, <2>6, <2>7
  <2>9. QED BY <2>7, <2>8 DEF SlicesOnce, r, S
<1>13. QED BY <1>2, <1>6, <1>9, <1>10, <1>11, <1>12, StillBusy

LEMMA RoundNotFull ==
  ASSUME ToolsInv, LastRound
  PROVE  ToolsInv'
<1>1. /\ owner = "prepare" /\ imageIndex > Count /\ owner' = "read"
      /\ UNCHANGED <<toolCall, imageIndex, nextThread, readThread, taskLanes, resultLanes, toolThread, memory, results>>
  BY DEF LastRound
<1>2. Busy /\ Busy' /\ owner' # "write"  BY <1>1 DEF Busy
<1>3. OwnerOK /\ Arrays /\ Rounds /\ KernelOfAll /\ ImagesInOrder /\ PeaksInOrder /\ SlicesOnce  BY <1>2, BusyInv
<1>4. OwnerOK'
  <2>1. Subtracting => ~ (imageIndex = nextThread + 1 /\ nextThread < ToolThreads)
    <3>1. imageIndex \in Nat /\ nextThread \in Nat  BY <1>3 DEF OwnerOK
    <3>2. Subtracting => imageIndex > ToolThreads /\ ToolThreads \in Nat
      BY <1>1, ThreadsOfTools DEF Count, Subtracting
    <3>3. QED BY <3>1, <3>2
  <2>2. Subtracting' = Subtracting /\ Count' = Count  BY <1>1 DEF Subtracting, Count
  <2>3. QED BY <1>1, <1>2, <1>3, <2>1, <2>2 DEF OwnerOK
<1>5. Before' = Before  BY <1>1 DEF Before, Subtracting
<1>6. Rounds' /\ Arrays'
  <2>1. Rounds'  BY <1>1, <1>3, <1>5, RoundsUnchanged
  <2>2. QED BY <1>1, <1>3, <2>1 DEF Arrays
<1>7. KernelOfAll' /\ ImagesInOrder' /\ SlicesOnce'
  BY <1>1, <1>3, <1>5 DEF KernelOfAll, ImagesInOrder, SlicesOnce, TransformingImages, Subtracting, ScaleOf, Cut
<1>8. PeaksInOrder'  BY <1>1, <1>3, <1>5 DEF PeaksInOrder, ScaleOf
<1>9. QED BY <1>2, <1>4, <1>6, <1>7, <1>8, StillBusy

LEMMA ReadingAResult ==
  ASSUME ToolsInv, ReadResult, NEW t, t = readThread
  PROVE  ToolsInv'
<1>0. toolCall.op = "find peaks" =>
        results' = [i \in 1 .. ResultPlace |-> IF i = ResultPlace THEN Head(resultLanes[t]) ELSE results[i]]
  BY DEF ReadResult
<1>1. /\ owner = "read" /\ t < nextThread /\ resultLanes[t] # <<>> /\ resultLanes' = [resultLanes EXCEPT ![t] = <<>>] /\ readThread' = t + 1
      /\ UNCHANGED <<toolCall, owner, imageIndex, nextThread, taskLanes, toolThread, memory>>  BY DEF ReadResult
<1>2. Busy /\ Busy' /\ owner' # "write"  BY <1>1 DEF Busy
<1>3. OwnerOK /\ Arrays /\ Rounds /\ KernelOfAll /\ ImagesInOrder /\ PeaksInOrder /\ SlicesOnce  BY <1>2, BusyInv
<1>4. /\ imageIndex \in Nat \ {0} /\ nextThread \in Nat /\ t \in Nat /\ nextThread <= ToolThreads
  BY <1>2, <1>3 DEF OwnerOK
<1>5. t \in ToolLanes  BY <1>1, <1>4, ThreadsOfTools
<1>6. InRound(t)  BY <1>1, <1>4 DEF InRound
<1>7. Convolved(t) /\ Answered(t)
  <2>1. AtWork(t)  BY <1>3, <1>5, <1>6 DEF Rounds
  <2>2. QED BY <1>1, <2>1 DEF AtWork, Queued, At
<1>8. Subtracting' = Subtracting /\ Count' = Count /\ TransformingImages' = TransformingImages /\ Before' = Before
  BY <1>1 DEF Subtracting, Count, TransformingImages, Before
<1>9. OwnerOK'
  <2>1. readThread' \in Nat /\ readThread' <= nextThread'  BY <1>1, <1>4
  <2>2. QED BY <1>1, <1>2, <1>3, <1>8, <2>1 DEF OwnerOK
<1>10. /\ resultLanes' = [u \in ToolLanes |-> resultLanes'[u]] /\ resultLanes'[t] = <<>>
       /\ \A u \in ToolLanes \ {t} : resultLanes'[u] = resultLanes[u]  BY <1>1, <1>3, <1>5, ChangedAt DEF Arrays
<1>11. Arrays'  BY <1>1, <1>3, <1>10 DEF Arrays
<1>12. Rounds'
  <2> SUFFICES ASSUME NEW u \in ToolLanes PROVE IF InRound(u)' THEN AtWork(u)' ELSE Resting(u)'  BY DEF Rounds
  <2>1. CASE u = t
    <3>1. ~ InRound(u)'
      <4>1. ~ (readThread' <= u)  BY <1>1, <1>4, <2>1
      <4>2. QED BY <4>1 DEF InRound
    <3>2. Resting(u)'  BY <1>1, <1>7, <1>10, <2>1 DEF Answered, Resting
    <3>3. QED BY <3>1, <3>2
  <2>2. CASE u # t
    <3>1. InRound(u)' = InRound(u)
      <4>1. u \in Nat  BY ThreadsOfTools
      <4>2. t + 1 <= u <=> t <= u  BY <1>4, <2>2, <4>1
      <4>3. QED BY <1>1, <4>2 DEF InRound
    <3>2. CASE InRound(u)
      <4>1. AtWork(u)  BY <1>3, <3>2 DEF Rounds
      <4>2. AtWork(u)'  BY <1>1, <1>8, <1>10, <2>2, <4>1, StillAtWork
      <4>3. QED BY <3>1, <3>2, <4>2
    <3>3. CASE ~ InRound(u)
      <4>1. Resting(u)  BY <1>3, <3>3 DEF Rounds
      <4>2. Resting(u)'  BY <1>1, <1>10, <2>2, <4>1 DEF Resting
      <4>3. QED BY <3>1, <3>3, <4>2
    <3>4. QED BY <3>2, <3>3
  <2>3. QED BY <2>1, <2>2
<1>13. Before \in Nat /\ Turn(t) = Before + t + 1  BY <1>2, <1>3, <1>5, Turns
<1>14. \A i : ScaleOf(i)' = ScaleOf(i)  BY <1>1, <1>8, SameTasks
<1>15. KernelOfAll'  BY <1>1, <1>3, <1>14 DEF KernelOfAll
<1>16. ImagesInOrder'
  <2>1. SUFFICES ASSUME TransformingImages, NEW i \in DOMAIN toolCall.scales
                 PROVE  /\ i >= imageIndex => memory[ImageBuffer(i)] = <<>>
                        /\ i <= Before + (t + 1) => memory[ImageBuffer(i)] = ScaleOf(i)
    BY <1>1, <1>8, <1>14 DEF ImagesInOrder
  <2>2. /\ i >= imageIndex => memory[ImageBuffer(i)] = <<>>
        /\ i <= Before + t => memory[ImageBuffer(i)] = ScaleOf(i)  BY <1>3, <2>1 DEF ImagesInOrder
  <2>3. i \in Nat
    <3>1. DOMAIN toolCall.scales = 1 .. Len(toolCall.scales) /\ Len(toolCall.scales) \in Nat
      BY <1>2, <1>3, CallIsKnown
    <3>2. QED BY <3>1
  <2>4. i <= Before + (t + 1) => i <= Before + t \/ i = Turn(t)  BY <1>4, <1>13, <2>3
  <2>5. memory[ImageBuffer(Turn(t))] = ScaleOf(Turn(t))
    <3>1. Task(t).image = ImageBuffer(Turn(t)) /\ ~ Subtracting
      BY <2>1, TaskFields DEF Subtracting, TransformingImages
    <3>2. QED BY <1>7, <3>1 DEF Convolved
  <2>6. QED BY <2>2, <2>4, <2>5
<1>17. PeaksInOrder'
  <2>1. SUFFICES ASSUME toolCall.op = "find peaks"
                 PROVE  results' = [i \in 1 .. Before + (t + 1) |-> [image |-> ScaleOf(i), mask |-> i]]
    BY <1>1, <1>2, <1>8, <1>14 DEF PeaksInOrder
  <2> DEFINE Peak(i) == [image |-> ScaleOf(i), mask |-> i]
  <2>2. results = [i \in 1 .. Before + t |-> Peak(i)]  BY <1>3, <2>1 DEF PeaksInOrder
  <2>3. Head(resultLanes[t]) = Peak(Turn(t))
    <3>1. ~ Subtracting  BY <2>1 DEF Subtracting
    <3>2. resultLanes[t] = <<Peak(Turn(t))>>  BY <1>7, <3>1 DEF Answered
    <3> HIDE DEF Peak
    <3>3. QED BY <3>2
  <2> HIDE DEF Peak
  <2>4. Before + t \in Nat  BY <1>4, <1>13
  <2>5. Len(results) = Before + t  BY <2>2, <2>4
  <2>6. ResultPlace = Turn(t) /\ Turn(t) = Before + (t + 1)  BY <1>4, <1>13, <2>5 DEF ResultPlace
  <2>7. \A i \in 1 .. Turn(t) : i # Turn(t) => results[i] = Peak(i)
    <3>1. \A i \in 1 .. Turn(t) : i # Turn(t) => i \in 1 .. Before + t  BY <1>4, <1>13
    <3>2. QED BY <2>2, <3>1
  <2>8. results' = [i \in 1 .. Turn(t) |-> IF i = Turn(t) THEN Peak(Turn(t)) ELSE results[i]]
    BY <1>0, <2>1, <2>3, <2>6
  <2>9. results' = [i \in 1 .. Turn(t) |-> Peak(i)]  BY <2>7, <2>8
  <2>10. QED BY <2>6, <2>9 DEF Peak
<1>18. SlicesOnce'
  <2>1. SUFFICES ASSUME Subtracting PROVE \A x : Cut(x)' <=> Cut(x)  BY <1>1, <1>3, <1>8 DEF SlicesOnce
  <2>2. TAKE x
  <2>3. ASSUME NEW u \in ToolLanes
        PROVE  (u < readThread' \/ (u < nextThread' /\ (toolThread'[u].at = "answer" \/ resultLanes'[u] # <<>>)))
               <=> (u < readThread \/ (u < nextThread /\ (toolThread[u].at = "answer" \/ resultLanes[u] # <<>>)))
    <3>1. u \in Nat  BY ThreadsOfTools
    <3>2. CASE u = t
      <4>1. t < readThread'  BY <1>1, <1>4
      <4>2. QED BY <1>1, <3>2, <4>1
    <3>3. CASE u # t
      <4>1. u < t + 1 <=> u < t  BY <1>4, <3>1, <3>3
      <4>2. QED BY <1>1, <1>10, <3>3, <4>1
    <3>4. QED BY <3>2, <3>3
  <2>4. QED BY <1>1, <2>3 DEF Cut
<1>19. QED BY <1>2, <1>9, <1>11, <1>12, <1>15, <1>16, <1>17, <1>18, StillBusy

\* After the last round the call has done its work.
LEMMA RoundIsDone ==
  ASSUME ToolsInv, RoundDone
  PROVE  ToolsInv'
<1>1. /\ owner = "read" /\ readThread = nextThread /\ nextThread' = 0 /\ readThread' = 0
      /\ owner' = IF imageIndex > Count THEN "idle" ELSE "prepare"
      /\ UNCHANGED <<toolCall, imageIndex, taskLanes, resultLanes, toolThread, memory, results>>  BY DEF RoundDone
<1>2. Busy  BY <1>1 DEF Busy
<1>3. OwnerOK /\ Arrays /\ Rounds /\ KernelOfAll /\ ImagesInOrder /\ PeaksInOrder /\ SlicesOnce  BY <1>2, BusyInv
<1>4. /\ imageIndex \in Nat \ {0} /\ nextThread \in Nat /\ imageIndex <= Count + 1
      /\ ~ Subtracting => nextThread < imageIndex
      /\ Subtracting => imageIndex = ToolThreads + 1 /\ nextThread = ToolThreads - 1  BY <1>1, <1>2, <1>3 DEF OwnerOK
<1>5. /\ ToolThreads \in Nat \ {0} /\ Count \in Nat
      /\ Count = IF Subtracting THEN ToolThreads ELSE Len(toolCall.scales)
      /\ DOMAIN toolCall.scales = 1 .. Len(toolCall.scales) /\ Len(toolCall.scales) \in Nat
  BY <1>2, <1>3, CallIsKnown, ThreadsOfTools
<1>6. ASSUME NEW u \in ToolLanes PROVE Resting(u) /\ Resting(u)' /\ ~ InRound(u)'
  <2>1. u \in Nat  BY ThreadsOfTools
  <2>2. ~ (readThread <= u /\ u < nextThread) /\ ~ (u < nextThread')  BY <1>1, <1>4, <2>1
  <2>3. Resting(u) /\ ~ InRound(u)'  BY <1>3, <2>2 DEF Rounds, InRound
  <2>4. QED BY <1>1, <2>3 DEF Resting
<1>7. /\ Subtracting' = Subtracting /\ TransformingImages' = TransformingImages /\ Count' = Count
      /\ \A i : ScaleOf(i)' = ScaleOf(i)  BY <1>1 DEF Subtracting, TransformingImages, Count, ScaleOf
<1>8. Arrays'  BY <1>1, <1>3 DEF Arrays
<1>9. ~ Subtracting => Before + readThread = imageIndex - 1
  <2>1. ~ Subtracting => Before = imageIndex - 1 - nextThread  BY DEF Before
  <2>2. QED BY <1>1, <1>4, <2>1
<1>10. CASE imageIndex > Count
  <2>1. owner' = "idle" /\ ~ Busy' /\ imageIndex = Count + 1  BY <1>1, <1>4, <1>5, <1>10 DEF Busy
  <2>2. OwnerOK'
    <3>1. imageIndex' \in Nat \ {0} /\ nextThread' \in Nat /\ readThread' \in Nat /\ nextThread' = 0 /\ readThread' = 0
      BY <1>1, <1>4
    <3>2. QED BY <2>1, <3>1 DEF OwnerOK
  <2>3. TransformingImages => \A i \in DOMAIN toolCall.scales : memory[ImageBuffer(i)] = <<toolCall.scales[i]>>
    <3>1. SUFFICES ASSUME TransformingImages, NEW i \in DOMAIN toolCall.scales PROVE memory[ImageBuffer(i)] = ScaleOf(i)
      BY DEF ScaleOf
    <3>2. ~ Subtracting  BY <3>1 DEF Subtracting, TransformingImages
    <3>3. i <= imageIndex - 1  BY <1>5, <2>1, <3>2
    <3>4. i <= Before + readThread  BY <1>9, <3>2, <3>3
    <3>5. QED BY <1>3, <3>1, <3>4 DEF ImagesInOrder
  <2>4. toolCall.op = "find peaks" =>
          results = [i \in DOMAIN toolCall.scales |-> [image |-> <<toolCall.scales[i]>>, mask |-> i]]
    <3>1. SUFFICES ASSUME toolCall.op = "find peaks"
                   PROVE  results = [i \in DOMAIN toolCall.scales |-> [image |-> ScaleOf(i), mask |-> i]]
      BY DEF ScaleOf
    <3>2. ~ Subtracting  BY <3>1 DEF Subtracting
    <3>3. Before + readThread = Len(toolCall.scales)  BY <1>4, <1>5, <1>9, <2>1, <3>2
    <3>4. results = [i \in 1 .. Before + readThread |-> [image |-> ScaleOf(i), mask |-> i]]
      BY <1>3, <3>1 DEF PeaksInOrder
    <3>5. QED BY <1>5, <3>3, <3>4
  <2>5. Subtracting => Len(memory[ImageBuffer(1)]) = ToolThreads /\ ToSet(memory[ImageBuffer(1)]) = 1 .. ToolThreads
    <3>1. SUFFICES ASSUME Subtracting
                   PROVE  Len(memory[ImageBuffer(1)]) = ToolThreads /\ ToSet(memory[ImageBuffer(1)]) = 1 .. ToolThreads
      OBVIOUS
    <3> DEFINE s == memory[ImageBuffer(1)]
    <3>2. /\ s \in Seq(1 .. ToolThreads) /\ \A i, j \in DOMAIN s : s[i] = s[j] => i = j
          /\ \A x \in 1 .. ToolThreads : Among(s, x) <=> Cut(x)  BY <1>3, <3>1 DEF SlicesOnce
    <3> HIDE DEF s
    <3>3. ASSUME NEW x \in 1 .. ToolThreads PROVE Cut(x)
      <4>1. CASE x = ToolThreads
        <5>1. imageIndex > ToolThreads  BY <1>4, <1>5, <3>1
        <5>2. QED BY <4>1, <5>1 DEF Cut
      <4>2. CASE x # ToolThreads
        <5> DEFINE u == x - 1
        <5>1. u \in ToolLanes /\ x = u + 1 /\ u < readThread  BY <1>1, <1>4, <1>5, <3>1, <4>2, ThreadsOfTools
        <5> HIDE DEF u
        <5>2. QED BY <5>1 DEF Cut
      <4>3. QED BY <4>1, <4>2
    <3>4. \A x \in 1 .. ToolThreads : Among(s, x)  BY <3>2, <3>3
    <3>5. Len(s) = ToolThreads /\ ToSet(s) = 1 .. ToolThreads  BY <1>5, <3>2, <3>4, AllSlices
    <3>6. QED BY <3>5 DEF s
  <2>6. CallsDoTheirWork'  BY <1>1, <2>3, <2>4, <2>5 DEF CallsDoTheirWork, TransformingImages, Subtracting
  <2>7. QED BY <1>6, <1>8, <2>1, <2>2, <2>6 DEF ToolsInv
<1>11. CASE ~ (imageIndex > Count)
  <2>1. owner' = "prepare" /\ owner' # "write" /\ Busy'  BY <1>1, <1>11 DEF Busy
  <2>2. ~ Subtracting  BY <1>4, <1>5, <1>11
  <2>3. OwnerOK'
    <3>1. /\ imageIndex' \in Nat \ {0} /\ imageIndex' <= Count' + 1 /\ nextThread' = 0 /\ readThread' = 0
          /\ nextThread' < imageIndex' /\ nextThread' < ToolThreads  BY <1>1, <1>4, <1>5, <1>7
    <3>2. nextThread' \in Nat /\ readThread' <= nextThread' /\ nextThread' <= ToolThreads  BY <1>5, <3>1
    <3>3. toolCall' \in ToolCalls  BY <1>1, <1>2, <1>3 DEF OwnerOK
    <3>4. QED BY <1>7, <2>1, <2>2, <3>1, <3>2, <3>3 DEF OwnerOK
  <2>4. Before' + readThread' = Before + readThread
    <3>1. Before' = imageIndex' - 1 - nextThread'  BY <1>7, <2>2 DEF Before
    <3>2. Before' + readThread' = imageIndex - 1  BY <1>1, <1>4, <3>1
    <3>3. QED BY <1>9, <2>2, <3>2
  <2>5. Rounds'  BY <1>6 DEF Rounds
  <2>6. KernelOfAll'  BY <1>1, <1>3, <1>7 DEF KernelOfAll
  <2>7. ImagesInOrder'  BY <1>1, <1>3, <1>7, <2>4 DEF ImagesInOrder
  <2>8. PeaksInOrder'
    <3>1. SUFFICES ASSUME toolCall.op = "find peaks"
                   PROVE  results' = [i \in 1 .. Before' + readThread' |-> [image |-> ScaleOf(i)', mask |-> i]]
      BY <1>1, <2>1 DEF PeaksInOrder
    <3>2. results = [i \in 1 .. Before + readThread |-> [image |-> ScaleOf(i), mask |-> i]]
      BY <1>3, <3>1 DEF PeaksInOrder
    <3>3. QED BY <1>1, <1>7, <2>4, <3>2
  <2>9. SlicesOnce'  BY <1>7, <2>2 DEF SlicesOnce
  <2>10. QED BY <1>8, <2>1, <2>3, <2>5, <2>6, <2>7, <2>8, <2>9, StillBusy
<1>12. QED BY <1>10, <1>11

LEMMA OwnerStepKeepsInv ==
  ASSUME ToolsInv, OwnerStep
  PROVE  ToolsInv'
<1>1. CASE WriteToolTask
  <2>1. nextThread \in ToolLanes
    <3>1. owner = "write" /\ OwnerOK  BY <1>1 DEF WriteToolTask, ToolsInv
    <3>2. nextThread \in Nat /\ nextThread < ToolThreads  BY <3>1 DEF OwnerOK
    <3>3. QED BY <3>2, ThreadsOfTools
  <2>2. PICK n \in ToolLanes : n = nextThread  BY <2>1
  <2>3. QED BY <1>1, <2>2, WritingATask
<1>2. CASE ReadResult  BY <1>2, ReadingAResult
<1>3. CASE DestroyTools \/ JoinTools
  <2>1. /\ owner' \in {"join", "gone"}
        /\ UNCHANGED <<toolCall, imageIndex, nextThread, readThread, taskLanes, resultLanes, toolThread, memory>>
    BY <1>3 DEF DestroyTools, JoinTools
  <2>2. OwnerOK /\ Arrays  BY DEF ToolsInv
  <2>3. ~ Busy' /\ owner' # "idle" /\ OwnerOK' /\ Arrays'  BY <2>1, <2>2 DEF Busy, OwnerOK, Arrays
  <2>4. QED BY <2>3 DEF ToolsInv
<1>4. QED BY <1>1, <1>2, <1>3, PreparingATask, SubtractingOwn, RoundNotFull, RoundIsDone DEF OwnerStep

\* Buffers and lanes are used again round after round, and still every call does its work.
THEOREM EveryCallDoesItsWork == ToolsSpec => []CallsDoTheirWork
<1>1. ToolsInit => ToolsInv  BY StartsResting
<1>2. ToolsInv /\ [ToolsNext]_toolVars => ToolsInv'
  <2> SUFFICES ASSUME ToolsInv, [ToolsNext]_toolVars PROVE ToolsInv'  OBVIOUS
  <2>1. CASE \E c \in ToolCalls : Call(c)  BY <2>1, CallKeepsInv
  <2>2. CASE OwnerStep  BY <2>2, OwnerStepKeepsInv
  <2>3. CASE \E t \in ToolLanes : ToolThreadStep(t)  BY <2>3, ThreadStepKeepsInv
  <2>4. CASE UNCHANGED toolVars
    <3>1. UNCHANGED <<toolCall, owner, imageIndex, nextThread, readThread, taskLanes, resultLanes, toolThread, memory,
                      results>>  BY <2>4 DEF toolVars
    <3>2. OwnerOK' = OwnerOK /\ Arrays' = Arrays /\ Busy' = Busy
      BY <3>1 DEF OwnerOK, Arrays, Busy, Subtracting, Count, IsOwn
    <3>3. (\A t \in ToolLanes : Resting(t))' = (\A t \in ToolLanes : Resting(t)) /\ CallsDoTheirWork' = CallsDoTheirWork
      BY <3>1 DEF Resting, CallsDoTheirWork
    <3>4. Before' = Before /\ Subtracting' = Subtracting  BY <3>1 DEF Before, Subtracting
    <3>5. Rounds => Rounds'  BY <3>1, <3>4, RoundsUnchanged
    <3>6. KernelOfAll' = KernelOfAll /\ ImagesInOrder' = ImagesInOrder
      BY <3>1, <3>4 DEF KernelOfAll, ImagesInOrder, TransformingImages, ScaleOf
    <3>7. PeaksInOrder' = PeaksInOrder  BY <3>1, <3>4 DEF PeaksInOrder, ScaleOf
    <3>8. SlicesOnce' = SlicesOnce  BY <3>1, <3>4 DEF SlicesOnce, Cut
    <3>9. QED BY <3>1, <3>2, <3>3, <3>5, <3>6, <3>7, <3>8 DEF ToolsInv
  <2>5. QED BY <2>1, <2>2, <2>3, <2>4 DEF ToolsNext, ToolsOver
<1>3. ToolsInv => CallsDoTheirWork  BY DEF ToolsInv, CallsDoTheirWork
<1>4. QED BY <1>1, <1>2, <1>3, PTL DEF ToolsSpec

----
(* The wavelet decomposition: what a job's images are, without the threads *)

Levels == 0 .. 30
PixelsOf(j) == 0 .. j.width * j.height - 1
ImagesOf(j) == [PixelsOf(j) -> Levels]

HorizontalOf(j, image, scale) ==
  [i \in PixelsOf(j) |-> Taps(image, i, 1, scale, TapsInRange(i % j.width, j.width, scale))]
VerticalOf(j, image, scale) ==
  [i \in PixelsOf(j) |-> Taps(image, i, j.width, scale, TapsInRange(i \div j.width, j.height, scale))]
ConvolvedOf(j, image, scale) == VerticalOf(j, HorizontalOf(j, image, scale), scale)
DifferenceOf(j, a, b) == [i \in PixelsOf(j) |-> Modulo(a[i] - b[i])]
SumOf(j, a, b) == [i \in PixelsOf(j) |-> Modulo(a[i] + b[i])]

\* The image, and the image convolved once, twice, ...
SmoothingOf(j, S) ==
  /\ S \in [0 .. j.nScales -> ImagesOf(j)]
  /\ S[0] = j.image
  /\ \A k \in 0 .. j.nScales - 1 : S[k + 1] = ConvolvedOf(j, S[k], k + 1)
\* The largest scale, put through every scale of Recompose.
LargestOf(j, S, L) ==
  /\ L \in [0 .. j.nScales -> ImagesOf(j)]
  /\ L[j.nScales] = S[j.nScales]
  /\ \A k \in 0 .. j.nScales - 1 : L[k] = ConvolvedOf(j, L[k + 1], k + 1)

\* What the phases of a scale make, the fifth of them being the scale of the image.
ResultOf(j, S, k, ph) ==
  CASE ph = 1 -> HorizontalOf(j, S[k], k + 1)
    [] ph = 2 -> S[k + 1]
    [] ph = 3 -> HorizontalOf(j, S[k + 1], k + 1)
    [] ph = 4 -> ConvolvedOf(j, S[k + 1], k + 1)
    [] ph = 5 -> DifferenceOf(j, S[k], ConvolvedOf(j, S[k + 1], k + 1))

SourceOf(k) == IF k = 0 THEN Input ELSE I0
FromOf(j, k, ph) ==
  CASE ph \in {1, 5} -> SourceOf(k)
    [] ph \in {2, 4} -> Scratch
    [] ph = 3 -> j.nScales
ToOf(j, k, ph) ==
  CASE ph \in {1, 3} -> Scratch
    [] ph = 2 -> j.nScales
    [] ph \in {4, 5} -> k
KindOf(ph) ==
  CASE ph \in {1, 3} -> "horizontal"
    [] ph \in {2, 4} -> "vertical"
    [] ph = 5 -> "difference"
TaskAt(j, k, ph, p) == [kind |-> KindOf(ph), from |-> FromOf(j, k, ph), to |-> ToOf(j, k, ph), part |-> p]

FirstOf(j, length, p) == (length * p) \div j.threads
PartOf(j, ph, p) ==
  IF ph \in {2, 4}
  THEN {i \in PixelsOf(j) : i % j.width \in FirstOf(j, j.width, p) .. FirstOf(j, j.width, p + 1) - 1}
  ELSE {i \in PixelsOf(j) : i \div j.width \in FirstOf(j, j.height, p) .. FirstOf(j, j.height, p + 1) - 1}

----
(* The wavelet decomposition: the invariant *)

PoolStates == {"awake", "run", "ran", "ended"}
TasksOf(j, k, ph) == {TaskAt(j, k, ph, p) : p \in 0 .. j.threads - 1}

DecTypes ==
  /\ decJob \in DecompositionJobs
  /\ buffers \in [-3 .. decJob.nScales -> ImagesOf(decJob)]
  /\ decScale \in -1 .. decJob.nScales - 1 /\ phase \in 1 .. 5 /\ queuedParts \in 0 .. decJob.threads
  /\ poolThread \in [1 .. decJob.threads -> PoolStates]
  /\ DOMAIN doing = 1 .. decJob.threads
  /\ decStage \in {"decompose", "recompose", "join", "done"}
  /\ decStage = "decompose" => decScale \in 0 .. decJob.nScales - 1

\* The parts that are in the queue or with a thread: each is in one place.
QueueFits ==
  /\ queuedTasks \in Seq(TasksOf(decJob, decScale, phase))
  /\ \A i \in DOMAIN queuedTasks : queuedTasks[i].part \in 0 .. queuedParts - 1
  /\ \A i, k \in DOMAIN queuedTasks : i # k => queuedTasks[i].part # queuedTasks[k].part
HasPart(t) == poolThread[t] = "run"
WorkFits ==
  /\ \A t \in 1 .. decJob.threads : HasPart(t) =>
       /\ doing[t] \in TasksOf(decJob, decScale, phase) /\ doing[t].part \in 0 .. queuedParts - 1
       /\ \A i \in DOMAIN queuedTasks : queuedTasks[i].part # doing[t].part
  /\ \A t, u \in 1 .. decJob.threads : t # u /\ HasPart(t) /\ HasPart(u) => doing[t].part # doing[u].part
CountFits == activeThreads = Cardinality({t \in 1 .. decJob.threads : poolThread[t] \in {"run", "ran"}})
PoolInv ==
  /\ decStage = "decompose" => QueueFits /\ WorkFits /\ CountFits
  /\ decStage # "decompose" => queuedTasks = <<>> /\ \A t \in 1 .. decJob.threads : ~HasPart(t)

Held(p) ==
  \/ \E i \in DOMAIN queuedTasks : queuedTasks[i].part = p
  \/ \E t \in 1 .. decJob.threads : HasPart(t) /\ doing[t].part = p
PartDone(p) == p \in 0 .. queuedParts - 1 /\ ~Held(p)

InputsFit(j, S, k, ph, bufs) ==
  /\ bufs[SourceOf(k)] = S[k]
  /\ ph = 2 => bufs[Scratch] = ResultOf(j, S, k, 1)
  /\ ph \in 3 .. 5 => bufs[j.nScales] = S[k + 1]
  /\ ph = 4 => bufs[Scratch] = ResultOf(j, S, k, 3)
DetailsFit(j, S, k, bufs) == \A s \in 0 .. k : bufs[s] = ResultOf(j, S, s, 5)
PartsFit(S) ==
  \A p \in 0 .. decJob.threads - 1 : \A i \in PartOf(decJob, phase, p) :
    /\ PartDone(p) => buffers[ToOf(decJob, decScale, phase)][i] = ResultOf(decJob, S, decScale, phase)[i]
    /\ phase = 5 /\ ~PartDone(p) =>
         buffers[ToOf(decJob, decScale, phase)][i] = ResultOf(decJob, S, decScale, 4)[i]
DecomposeInv(S) ==
  /\ InputsFit(decJob, S, decScale, phase, buffers)
  /\ DetailsFit(decJob, S, decScale - 1, buffers)
  /\ PartsFit(S)
RecomposeInv(S, L) ==
  /\ largest = S[decJob.nScales]
  /\ DetailsFit(decJob, S, decScale, buffers)
  /\ buffers[I0] = IF decJob.includeLargest THEN S[decScale + 1]
                   ELSE DifferenceOf(decJob, S[decScale + 1], L[decScale + 1])
ScalesInv ==
  \E S, L : /\ SmoothingOf(decJob, S) /\ LargestOf(decJob, S, L)
            /\ decStage = "decompose" => DecomposeInv(S)
            /\ decStage = "recompose" => RecomposeInv(S, L)

DecompositionInv == decJob \in DecompositionJobs /\ (~decJob.inPlace => DecTypes /\ PoolInv /\ ScalesInv)

\* Four times the distance between the taps of a scale fits in the image, as EndScale sees to.
ProperJob(j) ==
  /\ j.width \in Nat \ {0} /\ j.height \in Nat \ {0} /\ j.nScales \in Nat \ {0} /\ j.threads \in Nat \ {0}
  /\ j.image \in ImagesOf(j) /\ j.includeLargest \in BOOLEAN /\ j.inPlace \in BOOLEAN
  /\ \A scale \in 1 .. j.nScales : 4 * Between(scale) <= j.width /\ 4 * Between(scale) <= j.height
JobsAreProper == \A j \in DecompositionJobs : ProperJob(j)

----
(* The wavelet decomposition: taps and images *)

\* What modulo 31 keeps.
LEMMA Reduced ==
  ASSUME NEW n \in Int
  PROVE  Modulo(n) \in Levels /\ \E k \in Int : n = Modulo(n) + 31 * k
<1>1. n % 31 \in 0 .. 30 /\ n \div 31 \in Int /\ n = (n % 31) + 31 * (n \div 31)  OBVIOUS
<1> QED BY <1>1 DEF Modulo, Levels
LEMMA SameReduced ==
  ASSUME NEW a \in Int, NEW b \in Int, NEW k \in Int, a = b + 31 * k
  PROVE  Modulo(a) = Modulo(b)  BY DEF Modulo
LEMMA LevelIsReduced ==
  ASSUME NEW a \in Levels
  PROVE  a \in Int /\ Modulo(a) = a  BY DEF Modulo, Levels

\* What holds of 0, and of k + 1 when it holds of k, holds up to n.
LEMMA Upwards ==
  ASSUME NEW n \in Nat, NEW P, 0 \in P, \A k \in 0 .. n - 1 : k \in P => k + 1 \in P
  PROVE  \A k \in 0 .. n : k \in P
<1> DEFINE Wrong == {k \in 0 .. n : k \notin P}
<1> SUFFICES ASSUME Wrong # {} PROVE FALSE  OBVIOUS
<1>1. Wrong \subseteq Nat  OBVIOUS
<1>2. PICK k \in Wrong : \A m \in Wrong : k <= m
  <2> HIDE DEF Wrong
  <2> QED BY <1>1, LeastElement
<1>3. k \in 1 .. n  BY <1>2
<1>4. k - 1 \in 0 .. n - 1 /\ k - 1 \notin Wrong  BY <1>2, <1>3
<1>5. k - 1 \in P /\ k - 1 + 1 = k  BY <1>3, <1>4
<1> QED BY <1>2, <1>4, <1>5

\* A sequence of n steps from a exists.
ChainExists(n, V, a, G) == \E f \in [0 .. n -> V] : f[0] = a /\ \A k \in 0 .. n - 1 : f[k + 1] = G[k][f[k]]
LEMMA Chain ==
  ASSUME NEW n \in Nat, NEW V, NEW a \in V, NEW G \in [0 .. n - 1 -> [V -> V]]
  PROVE  ChainExists(n, V, a, G)
<1> DEFINE Long(m) == \E f \in [0 .. m -> V] : f[0] = a /\ \A k \in 0 .. m - 1 : f[k + 1] = G[k][f[k]]
           P == {m \in 0 .. n : Long(m)}
<1>1. 0 \in P
  <2> DEFINE f == [k \in 0 .. 0 |-> a]
  <2>1. f \in [0 .. 0 -> V] /\ f[0] = a /\ \A k \in 0 .. 0 - 1 : f[k + 1] = G[k][f[k]]  OBVIOUS
  <2> HIDE DEF f
  <2> QED BY <2>1
<1>2. ASSUME NEW m \in 0 .. n - 1, m \in P PROVE m + 1 \in P
  <2>1. PICK f \in [0 .. m -> V] : f[0] = a /\ \A k \in 0 .. m - 1 : f[k + 1] = G[k][f[k]]  BY <1>2
  <2> DEFINE g == [k \in 0 .. m + 1 |-> IF k = m + 1 THEN G[m][f[m]] ELSE f[k]]
  <2>2. G[m][f[m]] \in V  BY <2>1
  <2>3. g \in [0 .. m + 1 -> V] /\ g[0] = a  BY <2>1, <2>2
  <2>4. ASSUME NEW k \in 0 .. m + 1 - 1 PROVE g[k + 1] = G[k][g[k]]
    <3>1. k \in 0 .. m /\ k # m + 1 /\ g[k] = f[k]  OBVIOUS
    <3>2. CASE k = m  BY <3>1, <3>2
    <3>3. CASE k # m
      <4>1. k \in 0 .. m - 1 /\ k + 1 # m + 1 /\ k + 1 \in 0 .. m + 1 /\ g[k + 1] = f[k + 1]  BY <3>1, <3>3
      <4> QED BY <2>1, <3>1, <4>1
    <3> QED BY <3>2, <3>3
  <2> HIDE DEF g
  <2>5. Long(m + 1)  BY <2>3, <2>4
  <2> QED BY <2>5
<1>3. \A k \in 0 .. n : k \in P
  <2> HIDE DEF P
  <2>1. \A k \in 0 .. n - 1 : k \in P => k + 1 \in P  BY <1>2
  <2> QED BY <1>1, <2>1, Upwards
<1>4. n \in 0 .. n  OBVIOUS
<1>5. Long(n)  BY <1>3, <1>4
<1> QED BY <1>5 DEF ChainExists

\* "1 << scale" is a number.
LEMMA PowerIsNumber ==
  ASSUME NEW scale \in Nat
  PROVE  Shifted(scale) \in Nat \ {0}
<1> DEFINE Powers(f) == f = [k \in 0 .. scale |-> IF k = 0 THEN 1 ELSE 2 * f[k - 1]]
           V == Nat \ {0}
           G == [k \in 0 .. scale - 1 |-> [v \in V |-> 2 * v]]
           p == CHOOSE f : Powers(f)
<1>1. PICK f \in [0 .. scale -> V] : f[0] = 1 /\ \A k \in 0 .. scale - 1 : f[k + 1] = G[k][f[k]]
  <2>1. 1 \in V /\ G \in [0 .. scale - 1 -> [V -> V]]  OBVIOUS
  <2> HIDE DEF V, G
  <2>2. ChainExists(scale, V, 1, G)  BY <2>1, Chain
  <2> QED BY <2>2 DEF ChainExists
<1>2. Powers(f)
  <2>1. ASSUME NEW k \in 0 .. scale PROVE f[k] = IF k = 0 THEN 1 ELSE 2 * f[k - 1]
    <3>1. CASE k = 0  BY <1>1, <3>1
    <3>2. CASE k # 0
      <4>1. k - 1 \in 0 .. scale - 1 /\ k - 1 + 1 = k  BY <3>2
      <4>2. f[k] = G[k - 1][f[k - 1]] /\ f[k - 1] \in V  BY <1>1, <4>1
      <4> QED BY <3>2, <4>1, <4>2
    <3> QED BY <3>1, <3>2
  <2> QED BY <1>1, <2>1
<1>3. Powers(p)
  <2> HIDE DEF Powers
  <2> QED BY <1>2
<1>4. Shifted(scale) = p[scale]  BY DEF Shifted
<1>5. \A k \in 0 .. scale : p[k] = IF k = 0 THEN 1 ELSE 2 * p[k - 1]  BY <1>3
<1> HIDE DEF p
<1> DEFINE P == {k \in 0 .. scale : p[k] \in Nat \ {0}}
<1>6. 0 \in P  BY <1>5
<1>7. ASSUME NEW k \in 0 .. scale - 1, k \in P PROVE k + 1 \in P
  <2>1. k + 1 \in 0 .. scale /\ k + 1 # 0 /\ k + 1 - 1 = k  OBVIOUS
  <2>2. p[k + 1] = 2 * p[k]  BY <1>5, <2>1
  <2> QED BY <1>7, <2>1, <2>2
<1>8. \A k \in 0 .. scale : k \in P
  <2> HIDE DEF P
  <2>1. \A k \in 0 .. scale - 1 : k \in P => k + 1 \in P  BY <1>7
  <2> QED BY <1>6, <2>1, Upwards
<1> QED BY <1>4, <1>8
LEMMA BetweenIsNumber ==
  ASSUME NEW scale \in Nat
  PROVE  Between(scale) \in Nat  BY PowerIsNumber DEF Between

\* In an image that is large enough the five cases of the fast convolution leave out what is outside.
LEMMA FastTapsAreInRange ==
  ASSUME NEW length \in Nat, NEW n \in 0 .. length - 1, NEW scale \in Nat, 4 * Between(scale) <= length
  PROVE  FastTaps(n, length, scale) = TapsInRange(n, length, scale)
<1> DEFINE d == Between(scale)
<1>1. d \in Nat  BY BetweenIsNumber
<1> HIDE DEF d
<1>2. TapsInRange(n, length, scale) = {tap \in 1 .. 5 : n + d * (tap - 3) \in 0 .. length - 1}
  BY DEF TapsInRange, Dist, d
<1>3. 4 * d <= length  BY DEF d
<1>4. \A tap \in 1 .. 5 :
        /\ tap = 1 => d * (tap - 3) = -2 * d
        /\ tap = 2 => d * (tap - 3) = -d
        /\ tap = 3 => d * (tap - 3) = 0
        /\ tap = 4 => d * (tap - 3) = d
        /\ tap = 5 => d * (tap - 3) = 2 * d  BY <1>1
<1>5. FastTaps(n, length, scale) =
        CASE n < d -> 3 .. 5
          [] n >= d /\ n < 2 * d -> 2 .. 5
          [] n >= 2 * d /\ n < length - 2 * d -> 1 .. 5
          [] n >= length - 2 * d /\ n < length - d -> 1 .. 4
          [] n >= length - d -> 1 .. 3  BY DEF FastTaps, d
<1> HIDE DEF FastTaps
<1>6. CASE n < d  BY <1>1, <1>2, <1>3, <1>4, <1>5, <1>6
<1>7. CASE n >= d /\ n < 2 * d  BY <1>1, <1>2, <1>3, <1>4, <1>5, <1>7
<1>8. CASE n >= 2 * d /\ n < length - 2 * d  BY <1>1, <1>2, <1>3, <1>4, <1>5, <1>8
<1>9. CASE n >= length - 2 * d /\ n < length - d  BY <1>1, <1>2, <1>3, <1>4, <1>5, <1>9
<1>10. CASE n >= length - d  BY <1>1, <1>2, <1>3, <1>4, <1>5, <1>10
<1> QED BY <1>1, <1>6, <1>7, <1>8, <1>9, <1>10

\* The row and the column of a pixel.
LEMMA PixelFacts ==
  ASSUME NEW j, ProperJob(j), NEW i \in PixelsOf(j)
  PROVE  /\ i \in Nat /\ i % j.width \in 0 .. j.width - 1 /\ i \div j.width \in 0 .. j.height - 1
         /\ i = j.width * (i \div j.width) + (i % j.width)
<1> DEFINE w == j.width
           h == j.height
           q == i \div j.width
           r == i % j.width
<1>1. w \in Nat \ {0} /\ h \in Nat \ {0} /\ i \in Nat /\ i < w * h /\ w * h \in Nat  BY DEF ProperJob, PixelsOf
<1>2. q \in Nat /\ w * q <= i /\ i = w * q + r /\ r \in 0 .. w - 1
  <2>1. q \in Nat /\ w * q <= i  BY <1>1, Quotient
  <2>2. i = w * q + r /\ r \in 0 .. w - 1  BY <1>1
  <2> QED BY <2>1, <2>2
<1> HIDE DEF w, h, q, r
<1>3. q < h
  <2> SUFFICES ASSUME q >= h PROVE FALSE  BY <1>1, <1>2
  <2>1. w * q >= w * h  BY <1>1, <1>2
  <2> QED BY <1>1, <1>2, <2>1
<1>4. i \in Nat /\ r \in 0 .. w - 1 /\ q \in 0 .. h - 1 /\ i = w * q + r  BY <1>1, <1>2, <1>3
<1> QED BY <1>4 DEF w, h, q, r

\* A pixel at a column and a row of the image.
LEMMA PixelAt ==
  ASSUME NEW j, ProperJob(j), NEW x \in 0 .. j.width - 1, NEW y \in 0 .. j.height - 1
  PROVE  j.width * y + x \in PixelsOf(j)
<1> DEFINE w == j.width
           h == j.height
<1>1. w \in Nat \ {0} /\ h \in Nat \ {0} /\ x \in 0 .. w - 1 /\ y \in 0 .. h - 1  BY DEF ProperJob
<1> HIDE DEF w, h
<1>2. w * y \in Nat /\ w * y <= w * (h - 1) /\ w * (h - 1) = w * h - w /\ w * h \in Nat  BY <1>1
<1>3. w * y + x \in 0 .. w * h - 1  BY <1>1, <1>2
<1> QED BY <1>3 DEF w, h, PixelsOf

\* What the taps of a pixel of a row or a column read is in the image.
Inside(j, i, stride, scale, taps) ==
  taps \subseteq 1 .. 5 /\ \A tap \in taps : i + Dist(scale, tap) * stride \in PixelsOf(j)
LEMMA RowInside ==
  ASSUME NEW j, ProperJob(j), NEW i \in PixelsOf(j), NEW scale \in Nat
  PROVE  Inside(j, i, 1, scale, TapsInRange(i % j.width, j.width, scale))
<1> DEFINE q == i \div j.width
           r == i % j.width
<1>1. i \in Nat /\ r \in 0 .. j.width - 1 /\ q \in 0 .. j.height - 1 /\ i = j.width * q + r  BY PixelFacts
<1> HIDE DEF q, r
<1>2. ASSUME NEW tap \in TapsInRange(r, j.width, scale) PROVE tap \in 1 .. 5 /\ i + Dist(scale, tap) * 1 \in PixelsOf(j)
  <2>1. tap \in 1 .. 5 /\ r + Dist(scale, tap) \in 0 .. j.width - 1  BY <1>2 DEF TapsInRange
  <2>2. Dist(scale, tap) \in Int /\ j.width * q \in Nat
    <3>1. Between(scale) \in Nat  BY BetweenIsNumber
    <3>2. j.width \in Nat /\ q \in Nat  BY <1>1 DEF ProperJob
    <3> QED BY <2>1, <3>1, <3>2 DEF Dist
  <2>3. j.width * q + (r + Dist(scale, tap)) \in PixelsOf(j)  BY <1>1, <2>1, PixelAt
  <2> QED BY <1>1, <2>1, <2>2, <2>3
<1> QED BY <1>2 DEF Inside, r
LEMMA ColumnInside ==
  ASSUME NEW j, ProperJob(j), NEW i \in PixelsOf(j), NEW scale \in Nat
  PROVE  Inside(j, i, j.width, scale, TapsInRange(i \div j.width, j.height, scale))
<1> DEFINE q == i \div j.width
           r == i % j.width
<1>1. i \in Nat /\ r \in 0 .. j.width - 1 /\ q \in 0 .. j.height - 1 /\ i = j.width * q + r  BY PixelFacts
<1> HIDE DEF q, r
<1>2. ASSUME NEW tap \in TapsInRange(q, j.height, scale)
      PROVE  tap \in 1 .. 5 /\ i + Dist(scale, tap) * j.width \in PixelsOf(j)
  <2> DEFINE d == Dist(scale, tap)
             w == j.width
  <2>1. tap \in 1 .. 5 /\ q + d \in 0 .. j.height - 1  BY <1>2 DEF TapsInRange
  <2>2. d \in Int /\ w \in Nat /\ q \in Nat /\ r \in Nat
    <3>1. Between(scale) \in Nat  BY BetweenIsNumber
    <3>2. w \in Nat /\ q \in Nat /\ r \in Nat  BY <1>1 DEF ProperJob
    <3> QED BY <2>1, <3>1, <3>2 DEF Dist
  <2>3. w * (q + d) + r \in PixelsOf(j)  BY <1>1, <2>1, PixelAt
  <2>4. i = w * q + r  BY <1>1
  <2> HIDE DEF d, w
  <2>5. w * (q + d) + r = i + d * w  BY <2>2, <2>4
  <2>6. i + d * w \in PixelsOf(j)  BY <2>3, <2>5
  <2> QED BY <2>1, <2>6 DEF d, w
<1> QED BY <1>2 DEF Inside, q

\* One tap, and one tap of a difference.
LEMMA TapIsNumber ==
  ASSUME NEW j, NEW f \in ImagesOf(j), NEW i \in Int, NEW stride \in Int, NEW scale \in Nat, NEW taps,
         Inside(j, i, stride, scale, taps), NEW tap \in 1 .. 5
  PROVE  Tap(f, i, stride, scale, tap, taps) \in Int
<1>1. H[tap] \in Int  BY DEF H
<1>2. CASE tap \in taps
  <2>1. f[i + Dist(scale, tap) * stride] \in Levels  BY <1>2 DEF Inside, ImagesOf
  <2>2. f[i + Dist(scale, tap) * stride] \in Int  BY <2>1 DEF Levels
  <2> QED BY <1>1, <1>2, <2>2 DEF Tap
<1>3. CASE tap \notin taps  BY <1>3 DEF Tap
<1> QED BY <1>2, <1>3
LEMMA TapsIsLevel ==
  ASSUME NEW j, NEW f \in ImagesOf(j), NEW i \in Int, NEW stride \in Int, NEW scale \in Nat, NEW taps,
         Inside(j, i, stride, scale, taps)
  PROVE  Taps(f, i, stride, scale, taps) \in Levels
<1> DEFINE V(tap) == Tap(f, i, stride, scale, tap, taps)
<1>1. V(1) \in Int /\ V(2) \in Int /\ V(3) \in Int /\ V(4) \in Int /\ V(5) \in Int  BY TapIsNumber
<1>2. Taps(f, i, stride, scale, taps) = Modulo(V(1) + V(2) + V(3) + V(4) + V(5))  BY DEF Taps
<1> HIDE DEF V
<1>3. V(1) + V(2) + V(3) + V(4) + V(5) \in Int  BY <1>1
<1> QED BY <1>2, <1>3, Reduced

Equal31(a, b) == \E k \in Int : a = b + 31 * k
LEMMA TapOfDifference ==
  ASSUME NEW j, NEW f \in ImagesOf(j), NEW g \in ImagesOf(j), NEW i \in Int, NEW stride \in Int, NEW scale \in Nat,
         NEW taps, Inside(j, i, stride, scale, taps), NEW tap \in 1 .. 5
  PROVE  Equal31(Tap(f, i, stride, scale, tap, taps) - Tap(g, i, stride, scale, tap, taps),
                 Tap(DifferenceOf(j, f, g), i, stride, scale, tap, taps))
<1>1. CASE tap \in taps
  <2> DEFINE p == i + Dist(scale, tap) * stride
             a == f[p]
             b == g[p]
             c == DifferenceOf(j, f, g)[p]
             m == H[tap]
  <2>1. p \in PixelsOf(j)  BY <1>1 DEF Inside
  <2>2. a \in Levels /\ b \in Levels /\ c = Modulo(a - b)  BY <2>1 DEF ImagesOf, DifferenceOf
  <2>3. a \in Int /\ b \in Int /\ a - b \in Int  BY <2>2 DEF Levels
  <2>4. Modulo(a - b) \in Int
    <3> HIDE DEF a, b
    <3> QED BY <2>3, Reduced DEF Levels
  <2>5. /\ Tap(f, i, stride, scale, tap, taps) = m * a
        /\ Tap(g, i, stride, scale, tap, taps) = m * b
        /\ Tap(DifferenceOf(j, f, g), i, stride, scale, tap, taps) = m * c  BY <1>1 DEF Tap
  <2>6. m \in {2, 8, 12}  BY DEF H
  <2> HIDE DEF p, a, b, c, m
  <2>7. PICK k \in Int : a - b = c + 31 * k  BY <2>2, <2>3, Reduced
  <2>8. m * k \in Int /\ m * a - m * b = m * c + 31 * (m * k)  BY <2>2, <2>3, <2>4, <2>6, <2>7
  <2> QED BY <2>5, <2>8 DEF Equal31
<1>2. CASE tap \notin taps
  <2>1. 0 - 0 = 0 + 31 * 0  OBVIOUS
  <2> QED BY <1>2, <2>1 DEF Tap, Equal31
<1> QED BY <1>1, <1>2
LEMMA TapsOfDifference ==
  ASSUME NEW j, NEW f \in ImagesOf(j), NEW g \in ImagesOf(j), DifferenceOf(j, f, g) \in ImagesOf(j),
         NEW i \in Int, NEW stride \in Int, NEW scale \in Nat, NEW taps, Inside(j, i, stride, scale, taps)
  PROVE  Taps(DifferenceOf(j, f, g), i, stride, scale, taps)
           = Modulo(Taps(f, i, stride, scale, taps) - Taps(g, i, stride, scale, taps))
<1> DEFINE A(tap) == Tap(f, i, stride, scale, tap, taps)
           B(tap) == Tap(g, i, stride, scale, tap, taps)
           C(tap) == Tap(DifferenceOf(j, f, g), i, stride, scale, tap, taps)
           a == A(1) + A(2) + A(3) + A(4) + A(5)
           b == B(1) + B(2) + B(3) + B(4) + B(5)
           c == C(1) + C(2) + C(3) + C(4) + C(5)
<1>1. \A tap \in 1 .. 5 : A(tap) \in Int /\ B(tap) \in Int /\ C(tap) \in Int  BY TapIsNumber
<1>2. \A tap \in 1 .. 5 : Equal31(A(tap) - B(tap), C(tap))  BY TapOfDifference
<1>3. /\ Taps(f, i, stride, scale, taps) = Modulo(a)
      /\ Taps(g, i, stride, scale, taps) = Modulo(b)
      /\ Taps(DifferenceOf(j, f, g), i, stride, scale, taps) = Modulo(c)  BY DEF Taps
<1> HIDE DEF A, B, C
<1>4. PICK k1 \in Int, k2 \in Int, k3 \in Int, k4 \in Int, k5 \in Int :
        /\ A(1) - B(1) = C(1) + 31 * k1 /\ A(2) - B(2) = C(2) + 31 * k2 /\ A(3) - B(3) = C(3) + 31 * k3
        /\ A(4) - B(4) = C(4) + 31 * k4 /\ A(5) - B(5) = C(5) + 31 * k5  BY <1>2 DEF Equal31
<1>5. a \in Int /\ b \in Int /\ c \in Int  BY <1>1
<1> DEFINE k == k1 + k2 + k3 + k4 + k5
<1>6. k \in Int /\ a - b = c + 31 * k  BY <1>1, <1>4
<1> HIDE DEF a, b, c, k
<1>7. PICK m \in Int : a = Modulo(a) + 31 * m  BY <1>5, Reduced
<1>8. PICK n \in Int : b = Modulo(b) + 31 * n  BY <1>5, Reduced
<1> DEFINE e == Modulo(a) - Modulo(b)
           l == m - n - k
<1>9. Modulo(a) \in Int /\ Modulo(b) \in Int  BY <1>5, Reduced DEF Levels
<1>10. e \in Int /\ l \in Int /\ c = e + 31 * l  BY <1>5, <1>6, <1>7, <1>8, <1>9
<1>11. Modulo(c) = Modulo(e)
  <2> HIDE DEF e, l
  <2> QED BY <1>5, <1>10, SameReduced
<1> QED BY <1>3, <1>11

\* What is made of images are images.
LEMMA ImagesAreMade ==
  ASSUME NEW j, ProperJob(j), NEW f \in ImagesOf(j), NEW scale \in Nat
  PROVE  /\ HorizontalOf(j, f, scale) \in ImagesOf(j) /\ VerticalOf(j, f, scale) \in ImagesOf(j)
         /\ ConvolvedOf(j, f, scale) \in ImagesOf(j)
<1>1. j.width \in Int /\ 1 \in Int /\ \A i \in PixelsOf(j) : i \in Int  BY PixelFacts DEF ProperJob
<1>2. ASSUME NEW g \in ImagesOf(j) PROVE HorizontalOf(j, g, scale) \in ImagesOf(j)
  <2>1. ASSUME NEW i \in PixelsOf(j) PROVE Taps(g, i, 1, scale, TapsInRange(i % j.width, j.width, scale)) \in Levels
    BY <1>1, RowInside, TapsIsLevel
  <2> QED BY <2>1 DEF HorizontalOf, ImagesOf
<1>3. ASSUME NEW g \in ImagesOf(j) PROVE VerticalOf(j, g, scale) \in ImagesOf(j)
  <2>1. ASSUME NEW i \in PixelsOf(j)
        PROVE  Taps(g, i, j.width, scale, TapsInRange(i \div j.width, j.height, scale)) \in Levels
    BY <1>1, ColumnInside, TapsIsLevel
  <2> QED BY <2>1 DEF VerticalOf, ImagesOf
<1> QED BY <1>2, <1>3 DEF ConvolvedOf
LEMMA LevelsAreNumbers ==
  ASSUME NEW j, NEW f \in ImagesOf(j), NEW i \in PixelsOf(j)
  PROVE  f[i] \in Levels /\ f[i] \in Int  BY DEF ImagesOf, Levels
LEMMA DifferenceIsImage ==
  ASSUME NEW j, NEW f \in ImagesOf(j), NEW g \in ImagesOf(j)
  PROVE  DifferenceOf(j, f, g) \in ImagesOf(j)
<1>1. ASSUME NEW i \in PixelsOf(j) PROVE Modulo(f[i] - g[i]) \in Levels
  <2>1. f[i] - g[i] \in Int  BY LevelsAreNumbers
  <2> QED BY <2>1, Reduced
<1> QED BY <1>1 DEF DifferenceOf, ImagesOf
LEMMA SumIsImage ==
  ASSUME NEW j, NEW f \in ImagesOf(j), NEW g \in ImagesOf(j)
  PROVE  SumOf(j, f, g) \in ImagesOf(j)
<1>1. ASSUME NEW i \in PixelsOf(j) PROVE Modulo(f[i] + g[i]) \in Levels
  <2>1. f[i] + g[i] \in Int  BY LevelsAreNumbers
  <2> QED BY <2>1, Reduced
<1> QED BY <1>1 DEF SumOf, ImagesOf

\* The convolution of a difference is the difference of the convolutions.
LEMMA HorizontalOfDifference ==
  ASSUME NEW j, ProperJob(j), NEW f \in ImagesOf(j), NEW g \in ImagesOf(j), NEW scale \in Nat
  PROVE  HorizontalOf(j, DifferenceOf(j, f, g), scale)
           = DifferenceOf(j, HorizontalOf(j, f, scale), HorizontalOf(j, g, scale))
<1>1. DifferenceOf(j, f, g) \in ImagesOf(j)  BY DifferenceIsImage
<1>2. ASSUME NEW i \in PixelsOf(j)
      PROVE  Taps(DifferenceOf(j, f, g), i, 1, scale, TapsInRange(i % j.width, j.width, scale))
               = Modulo(HorizontalOf(j, f, scale)[i] - HorizontalOf(j, g, scale)[i])
  <2>1. i \in Int /\ 1 \in Int  BY PixelFacts
  <2>2. Inside(j, i, 1, scale, TapsInRange(i % j.width, j.width, scale))  BY RowInside
  <2>3. Taps(DifferenceOf(j, f, g), i, 1, scale, TapsInRange(i % j.width, j.width, scale))
          = Modulo(Taps(f, i, 1, scale, TapsInRange(i % j.width, j.width, scale))
                   - Taps(g, i, 1, scale, TapsInRange(i % j.width, j.width, scale)))
    BY <1>1, <2>1, <2>2, TapsOfDifference
  <2> QED BY <2>3 DEF HorizontalOf
<1>3. HorizontalOf(j, DifferenceOf(j, f, g), scale)
        = [i \in PixelsOf(j) |-> Taps(DifferenceOf(j, f, g), i, 1, scale, TapsInRange(i % j.width, j.width, scale))]
  BY DEF HorizontalOf
<1>4. DifferenceOf(j, HorizontalOf(j, f, scale), HorizontalOf(j, g, scale))
        = [i \in PixelsOf(j) |-> Modulo(HorizontalOf(j, f, scale)[i] - HorizontalOf(j, g, scale)[i])]
  BY DEF DifferenceOf
<1> QED BY <1>2, <1>3, <1>4
LEMMA VerticalOfDifference ==
  ASSUME NEW j, ProperJob(j), NEW f \in ImagesOf(j), NEW g \in ImagesOf(j), NEW scale \in Nat
  PROVE  VerticalOf(j, DifferenceOf(j, f, g), scale)
           = DifferenceOf(j, VerticalOf(j, f, scale), VerticalOf(j, g, scale))
<1>1. DifferenceOf(j, f, g) \in ImagesOf(j)  BY DifferenceIsImage
<1>2. ASSUME NEW i \in PixelsOf(j)
      PROVE  Taps(DifferenceOf(j, f, g), i, j.width, scale, TapsInRange(i \div j.width, j.height, scale))
               = Modulo(VerticalOf(j, f, scale)[i] - VerticalOf(j, g, scale)[i])
  <2>1. i \in Int /\ j.width \in Int  BY PixelFacts DEF ProperJob
  <2>2. Inside(j, i, j.width, scale, TapsInRange(i \div j.width, j.height, scale))  BY ColumnInside
  <2>3. Taps(DifferenceOf(j, f, g), i, j.width, scale, TapsInRange(i \div j.width, j.height, scale))
          = Modulo(Taps(f, i, j.width, scale, TapsInRange(i \div j.width, j.height, scale))
                   - Taps(g, i, j.width, scale, TapsInRange(i \div j.width, j.height, scale)))
    BY <1>1, <2>1, <2>2, TapsOfDifference
  <2> QED BY <2>3 DEF VerticalOf
<1>3. VerticalOf(j, DifferenceOf(j, f, g), scale)
        = [i \in PixelsOf(j) |->
             Taps(DifferenceOf(j, f, g), i, j.width, scale, TapsInRange(i \div j.width, j.height, scale))]
  BY DEF VerticalOf
<1>4. DifferenceOf(j, VerticalOf(j, f, scale), VerticalOf(j, g, scale))
        = [i \in PixelsOf(j) |-> Modulo(VerticalOf(j, f, scale)[i] - VerticalOf(j, g, scale)[i])]  BY DEF DifferenceOf
<1> QED BY <1>2, <1>3, <1>4
LEMMA ConvolvedDifference ==
  ASSUME NEW j, ProperJob(j), NEW f \in ImagesOf(j), NEW g \in ImagesOf(j), NEW scale \in Nat
  PROVE  ConvolvedOf(j, DifferenceOf(j, f, g), scale)
           = DifferenceOf(j, ConvolvedOf(j, f, scale), ConvolvedOf(j, g, scale))
  BY ImagesAreMade, HorizontalOfDifference, VerticalOfDifference DEF ConvolvedOf

\* What is added again cancels out.
LEMMA Cancelled ==
  ASSUME NEW j, NEW a \in ImagesOf(j), NEW b \in ImagesOf(j), NEW c \in ImagesOf(j)
  PROVE  SumOf(j, DifferenceOf(j, a, b), DifferenceOf(j, c, a)) = DifferenceOf(j, c, b)
<1>1. ASSUME NEW i \in PixelsOf(j)
      PROVE  Modulo(DifferenceOf(j, a, b)[i] + DifferenceOf(j, c, a)[i]) = Modulo(c[i] - b[i])
  <2> DEFINE x == a[i]
             y == b[i]
             z == c[i]
             d == Modulo(x - y)
             e == Modulo(z - x)
  <2>1. x \in Int /\ y \in Int /\ z \in Int  BY LevelsAreNumbers
  <2>2. DifferenceOf(j, a, b)[i] = d /\ DifferenceOf(j, c, a)[i] = e  BY DEF DifferenceOf
  <2> HIDE DEF x, y, z
  <2>3. x - y \in Int /\ z - x \in Int  BY <2>1
  <2>4. d \in Int /\ e \in Int  BY <2>3, Reduced DEF Levels
  <2>5. PICK k \in Int : x - y = d + 31 * k  BY <2>3, Reduced
  <2>6. PICK m \in Int : z - x = e + 31 * m  BY <2>3, Reduced
  <2> HIDE DEF d, e
  <2> DEFINE s == d + e
             t == z - y
             n == 0 - k - m
  <2>7. s \in Int /\ t \in Int /\ n \in Int /\ s = t + 31 * n  BY <2>1, <2>4, <2>5, <2>6
  <2>8. Modulo(s) = Modulo(t)
    <3> HIDE DEF s, t, n
    <3> QED BY <2>7, SameReduced
  <2> QED BY <2>2, <2>8 DEF x, y, z, d, e
<1> QED BY <1>1 DEF SumOf, DifferenceOf
LEMMA AddedAgain ==
  ASSUME NEW j, NEW a \in ImagesOf(j), NEW c \in ImagesOf(j)
  PROVE  SumOf(j, a, DifferenceOf(j, c, a)) = c
<1>1. ASSUME NEW i \in PixelsOf(j) PROVE Modulo(a[i] + DifferenceOf(j, c, a)[i]) = c[i]
  <2> DEFINE x == a[i]
             z == c[i]
             e == Modulo(z - x)
  <2>1. x \in Int /\ z \in Int /\ Modulo(z) = z  BY LevelsAreNumbers, LevelIsReduced
  <2>2. DifferenceOf(j, c, a)[i] = e  BY DEF DifferenceOf
  <2> HIDE DEF x, z
  <2>3. z - x \in Int  BY <2>1
  <2>4. e \in Int  BY <2>3, Reduced DEF Levels
  <2>5. PICK m \in Int : z - x = e + 31 * m  BY <2>3, Reduced
  <2> HIDE DEF e
  <2> DEFINE s == x + e
             n == 0 - m
  <2>6. s \in Int /\ n \in Int /\ s = z + 31 * n  BY <2>1, <2>4, <2>5
  <2>7. Modulo(s) = Modulo(z)
    <3> HIDE DEF s, n
    <3> QED BY <2>1, <2>6, SameReduced
  <2> QED BY <2>1, <2>2, <2>7 DEF x, z, e
<1> QED BY <1>1 DEF SumOf, ImagesOf
LEMMA NothingLeft ==
  ASSUME NEW j, NEW a \in ImagesOf(j)
  PROVE  DifferenceOf(j, a, a) = [i \in PixelsOf(j) |-> 0]
<1>1. ASSUME NEW i \in PixelsOf(j) PROVE Modulo(a[i] - a[i]) = 0
  <2>1. a[i] - a[i] = 0  BY LevelsAreNumbers
  <2> QED BY <2>1 DEF Modulo
<1> QED BY <1>1 DEF DifferenceOf

\* A job has its convolved images, and its largest scale the images Recompose makes of it.
HasImages(j) == \E S, L : SmoothingOf(j, S) /\ LargestOf(j, S, L)
LEMMA SmoothingExists ==
  ASSUME NEW j, ProperJob(j)
  PROVE  \E S : SmoothingOf(j, S)
<1> DEFINE n == j.nScales
           V == ImagesOf(j)
           G == [k \in 0 .. n - 1 |-> [f \in V |-> ConvolvedOf(j, f, k + 1)]]
<1>1. n \in Nat /\ j.image \in V  BY DEF ProperJob
<1>2. G \in [0 .. n - 1 -> [V -> V]]
  <2>1. ASSUME NEW k \in 0 .. n - 1, NEW f \in V PROVE ConvolvedOf(j, f, k + 1) \in V
    <3>1. k + 1 \in Nat  BY <1>1
    <3> QED BY <3>1, ImagesAreMade
  <2> HIDE DEF V, n
  <2> QED BY <2>1
<1>3. ChainExists(n, V, j.image, G)
  <2> HIDE DEF n, V, G
  <2> QED BY <1>1, <1>2, Chain
<1>4. PICK S \in [0 .. n -> V] : S[0] = j.image /\ \A k \in 0 .. n - 1 : S[k + 1] = G[k][S[k]]
  BY <1>3 DEF ChainExists
<1>5. ASSUME NEW k \in 0 .. n - 1 PROVE S[k + 1] = ConvolvedOf(j, S[k], k + 1)
  <2>1. k \in 0 .. n  BY <1>1
  <2>2. S[k] \in V  BY <1>4, <2>1
  <2> HIDE DEF V
  <2> QED BY <1>4, <2>2
<1> QED BY <1>4, <1>5 DEF SmoothingOf
LEMMA LargestExists ==
  ASSUME NEW j, ProperJob(j), NEW S, SmoothingOf(j, S)
  PROVE  \E L : LargestOf(j, S, L)
<1> DEFINE n == j.nScales
           V == ImagesOf(j)
           G == [k \in 0 .. n - 1 |-> [f \in V |-> ConvolvedOf(j, f, n - k)]]
<1>1. n \in Nat \ {0} /\ S[n] \in V  BY DEF ProperJob, SmoothingOf
<1>2. G \in [0 .. n - 1 -> [V -> V]]
  <2>1. ASSUME NEW k \in 0 .. n - 1, NEW f \in V PROVE ConvolvedOf(j, f, n - k) \in V
    <3>1. n - k \in Nat  BY <1>1
    <3> QED BY <3>1, ImagesAreMade
  <2> HIDE DEF V, n
  <2> QED BY <2>1
<1>3. ChainExists(n, V, S[n], G)
  <2> HIDE DEF n, V, G
  <2> QED BY <1>1, <1>2, Chain
<1>4. PICK f \in [0 .. n -> V] : f[0] = S[n] /\ \A k \in 0 .. n - 1 : f[k + 1] = G[k][f[k]]  BY <1>3 DEF ChainExists
<1> HIDE DEF V
<1> DEFINE L == [k \in 0 .. n |-> f[n - k]]
<1>5. L \in [0 .. n -> V] /\ L[n] = S[n]
  <2>1. \A k \in 0 .. n : n - k \in 0 .. n  BY <1>1
  <2>2. n \in 0 .. n /\ n - n = 0  BY <1>1
  <2> QED BY <1>4, <2>1, <2>2
<1>6. ASSUME NEW k \in 0 .. n - 1 PROVE L[k] = ConvolvedOf(j, L[k + 1], k + 1)
  <2> DEFINE m == n - (k + 1)
  <2>1. m \in 0 .. n - 1 /\ m \in 0 .. n /\ m + 1 = n - k /\ n - m = k + 1 /\ k \in 0 .. n /\ k + 1 \in 0 .. n
    BY <1>1
  <2>2. L[k] = f[n - k] /\ L[k + 1] = f[n - (k + 1)]  BY <2>1
  <2>3. L[k] = f[m + 1] /\ L[k + 1] = f[m]  BY <2>1, <2>2
  <2> HIDE DEF L, m
  <2>4. f[m] \in V /\ f[m + 1] = G[m][f[m]]  BY <1>4, <2>1
  <2>5. G[m][f[m]] = ConvolvedOf(j, f[m], n - m)  BY <2>1, <2>4
  <2> QED BY <2>1, <2>3, <2>4, <2>5
<1> HIDE DEF L
<1>7. LargestOf(j, S, L)  BY <1>5, <1>6 DEF LargestOf, V
<1> QED BY <1>7
LEMMA ImagesExist ==
  ASSUME NEW j, ProperJob(j)
  PROVE  HasImages(j)  BY SmoothingExists, LargestExists DEF HasImages

----
(* The wavelet decomposition: parts and tasks *)

\* The parts of a length follow each other, and reach its end.
LEMMA PartsOfLength ==
  ASSUME NEW j, ProperJob(j), NEW length \in Nat
  PROVE  /\ \A p \in Nat : FirstOf(j, length, p) \in Nat
         /\ \A p, q \in Nat : p < q => FirstOf(j, length, p + 1) <= FirstOf(j, length, q)
         /\ FirstOf(j, length, 0) = 0 /\ FirstOf(j, length, j.threads) = length
<1> DEFINE T == j.threads
           F(p) == (length * p) \div T
<1>1. T \in Nat \ {0}  BY DEF ProperJob
<1>2. \A p : FirstOf(j, length, p) = F(p)  BY DEF FirstOf
<1> HIDE DEF T
<1>3. ASSUME NEW p \in Nat PROVE F(p) \in Nat /\ T * F(p) <= length * p /\ length * p < T * F(p) + T
  <2>1. length * p \in Nat  OBVIOUS
  <2> QED BY <1>1, <2>1, Quotient
<1>4. ASSUME NEW p \in Nat, NEW q \in Nat, p < q PROVE F(p + 1) <= F(q)
  <2> DEFINE a == F(p + 1)
             b == F(q)
  <2>1. a \in Nat /\ T * a <= length * (p + 1)
    <3>1. p + 1 \in Nat  OBVIOUS
    <3> HIDE DEF F
    <3> QED BY <1>3, <3>1
  <2>2. b \in Nat /\ length * q < T * b + T  BY <1>3
  <2>3. length * (p + 1) <= length * q
    <3>1. p + 1 <= q  BY <1>4
    <3> QED BY <3>1
  <2> HIDE DEF a, b
  <2>4. T * a < T * (b + 1) /\ length * (p + 1) \in Nat /\ length * q \in Nat  BY <1>1, <2>1, <2>2, <2>3
  <2>5. a < b + 1  BY <1>1, <2>1, <2>2, <2>4
  <2> QED BY <2>1, <2>2, <2>5 DEF a, b
<1>5. F(0) = 0
  <2> DEFINE a == F(0)
  <2>1. a \in Nat /\ T * a <= length * 0  BY <1>3
  <2> HIDE DEF a
  <2>2. a = 0  BY <1>1, <2>1
  <2> QED BY <2>2 DEF a
<1>6. F(T) = length
  <2> DEFINE a == F(T)
  <2>1. a \in Nat /\ T * a <= length * T /\ length * T < T * a + T  BY <1>1, <1>3
  <2> HIDE DEF a
  <2>2. length * T = T * length  BY <1>1
  <2>3. a <= length /\ length < a + 1  BY <1>1, <2>1, <2>2
  <2>4. a = length  BY <2>1, <2>3
  <2> QED BY <2>4 DEF a
<1> HIDE DEF F
<1>7. F(T) = length /\ FirstOf(j, length, j.threads) = F(T)  BY <1>2, <1>6 DEF T
<1> QED BY <1>2, <1>3, <1>4, <1>5, <1>7

\* No place is in two parts, and every place is in one.
LEMMA PlacesApart ==
  ASSUME NEW j, ProperJob(j), NEW length \in Nat, NEW p \in Nat, NEW q \in Nat, p # q,
         NEW n \in FirstOf(j, length, p) .. FirstOf(j, length, p + 1) - 1
  PROVE  n \notin FirstOf(j, length, q) .. FirstOf(j, length, q + 1) - 1
<1> DEFINE F(k) == FirstOf(j, length, k)
<1>1. F(p) \in Nat /\ F(q) \in Nat /\ F(p + 1) \in Nat /\ F(q + 1) \in Nat
  <2>1. p + 1 \in Nat /\ q + 1 \in Nat  OBVIOUS
  <2> QED BY <2>1, PartsOfLength
<1>2. (p < q => F(p + 1) <= F(q)) /\ (q < p => F(q + 1) <= F(p))  BY PartsOfLength
<1> HIDE DEF F
<1>3. n \in F(p) .. F(p + 1) - 1  BY DEF F
<1>4. n \notin F(q) .. F(q + 1) - 1  BY <1>1, <1>2, <1>3
<1> QED BY <1>4 DEF F
LEMMA PlacesCovered ==
  ASSUME NEW j, ProperJob(j), NEW length \in Nat, NEW n \in 0 .. length - 1
  PROVE  \E p \in 0 .. j.threads - 1 : n \in FirstOf(j, length, p) .. FirstOf(j, length, p + 1) - 1
<1> DEFINE F(k) == FirstOf(j, length, k)
           T == j.threads
           P == {p \in 0 .. T : F(p) <= n}
<1>1. T \in Nat \ {0} /\ F(0) = 0 /\ F(T) = length /\ \A p \in Nat : F(p) \in Nat  BY PartsOfLength DEF ProperJob
<1> HIDE DEF F, T
<1>2. 0 \in P  BY <1>1
<1>3. PICK p \in 0 .. T - 1 : p \in P /\ p + 1 \notin P
  <2> SUFFICES ASSUME \A p \in 0 .. T - 1 : p \in P => p + 1 \in P PROVE FALSE  OBVIOUS
  <2>1. \A p \in 0 .. T : p \in P
    <3> HIDE DEF P
    <3> QED BY <1>1, <1>2, Upwards
  <2>2. T \in P  BY <1>1, <2>1
  <2> QED BY <1>1, <2>2
<1>4. p + 1 \in 0 .. T /\ F(p) <= n /\ ~(F(p + 1) <= n) /\ F(p) \in Nat /\ F(p + 1) \in Nat  BY <1>1, <1>3
<1>5. n \in F(p) .. F(p + 1) - 1  BY <1>4
<1> QED BY <1>3, <1>5 DEF F, T

LEMMA PartsApart ==
  ASSUME NEW j, ProperJob(j), NEW ph \in 1 .. 5, NEW p \in Nat, NEW q \in Nat, p # q, NEW i \in PartOf(j, ph, p)
  PROVE  i \notin PartOf(j, ph, q) /\ i \in PixelsOf(j)
<1>1. j.width \in Nat /\ j.height \in Nat  BY DEF ProperJob
<1> QED BY <1>1, PlacesApart DEF PartOf
LEMMA PartsCover ==
  ASSUME NEW j, ProperJob(j), NEW ph \in 1 .. 5, NEW i \in PixelsOf(j)
  PROVE  \E p \in 0 .. j.threads - 1 : i \in PartOf(j, ph, p)
<1>1. j.width \in Nat /\ j.height \in Nat /\ i % j.width \in 0 .. j.width - 1 /\ i \div j.width \in 0 .. j.height - 1
  BY PixelFacts DEF ProperJob
<1> QED BY <1>1, PlacesCovered DEF PartOf

\* What the operators of the decomposition are for the job that is decomposed.
LEMMA OfTheJob ==
  /\ Pixels = PixelsOf(decJob)
  /\ \A f, scale : Convolve(f, scale) = ConvolvedOf(decJob, f, scale)
  /\ \A f, g : Sum(f, g) = SumOf(decJob, f, g)
<1>1. Pixels = PixelsOf(decJob)  BY DEF Pixels, PixelsOf
<1>2. ASSUME NEW f, NEW scale PROVE Convolve(f, scale) = ConvolvedOf(decJob, f, scale)
  <2>1. HorizontalOf(decJob, f, scale) = [i \in Pixels |-> Taps(f, i, 1, scale, TapsInRange(X(i), decJob.width, scale))]
    BY <1>1 DEF HorizontalOf, X
  <2> QED BY <1>1, <2>1 DEF Convolve, ConvolvedOf, VerticalOf, Y
<1>3. ASSUME NEW f, NEW g PROVE Sum(f, g) = SumOf(decJob, f, g)  BY <1>1 DEF Sum, SumOf
<1> QED BY <1>1, <1>2, <1>3
LEMMA RowsOfPart ==
  ASSUME NEW i \in PixelsOf(decJob), NEW p
  PROVE  /\ i \in PartOf(decJob, 1, p) <=> Y(i) \in PartRows(p)
         /\ i \in PartOf(decJob, 2, p) <=> X(i) \in PartColumns(p)
  BY DEF PartOf, FirstOf, First, PartRows, PartColumns, X, Y

\* What is left of the job's own image that is read when it is written elsewhere is what was read.
LEMMA NoTaps ==
  ASSUME NEW f, NEW i, NEW stride, NEW scale, NEW taps, taps = {}
  PROVE  Taps(f, i, stride, scale, taps) = 0  BY DEF Taps, Tap, Modulo
LEMMA FastRow ==
  ASSUME NEW j, ProperJob(j), NEW f \in ImagesOf(j), NEW i \in PixelsOf(j), NEW scale \in 1 .. j.nScales
  PROVE  /\ Taps(f, i, 1, scale, FastTaps(i % j.width, j.width, scale)) = HorizontalOf(j, f, scale)[i]
         /\ Taps(f, i, j.width, scale, FastTaps(i \div j.width, j.height, scale)) = VerticalOf(j, f, scale)[i]
<1>1. /\ j.width \in Nat /\ j.height \in Nat /\ j.nScales \in Nat
      /\ i % j.width \in 0 .. j.width - 1 /\ i \div j.width \in 0 .. j.height - 1
      /\ 4 * Between(scale) <= j.width /\ 4 * Between(scale) <= j.height  BY PixelFacts DEF ProperJob
<1>2. scale \in Nat  BY <1>1
<1>3. /\ FastTaps(i % j.width, j.width, scale) = TapsInRange(i % j.width, j.width, scale)
      /\ FastTaps(i \div j.width, j.height, scale) = TapsInRange(i \div j.width, j.height, scale)
  BY <1>1, <1>2, FastTapsAreInRange
<1> QED BY <1>3 DEF HorizontalOf, VerticalOf

LEMMA RowsAreConvolved ==
  ASSUME ProperJob(decJob), decScale \in 0 .. decJob.nScales - 1, NEW task, task.from # task.to,
         buffers[task.from] \in ImagesOf(decJob)
  PROVE  ConvolveHorizontalFast(task)
           = [i \in PixelsOf(decJob) |->
                IF i \in PartOf(decJob, 1, task.part)
                THEN HorizontalOf(decJob, buffers[task.from], decScale + 1)[i] ELSE buffers[task.to][i]]
<1> DEFINE image == buffers[task.from]
           scale == decScale + 1
           overwritten == IF task.from = task.to THEN {1, 2} ELSE {}
           Made(f) == [i \in Pixels |->
                         LET taps == FastTaps(X(i), decJob.width, scale)
                         IN  Modulo(Taps(image, i, 1, scale, taps \ overwritten)
                                    + Taps(f, i, 1, scale, taps \cap overwritten))]
           new == CHOOSE f : f = Made(f)
           inRow == HorizontalOf(decJob, image, scale)
<1>1. ConvolveHorizontalFast(task)
        = [i \in Pixels |-> IF Y(i) \in PartRows(task.part) THEN new[i] ELSE buffers[task.to][i]]
  BY DEF ConvolveHorizontalFast
<1>2. overwritten = {}  OBVIOUS
<1>3. scale \in 1 .. decJob.nScales /\ scale \in Nat  BY DEF ProperJob
<1>4. inRow \in ImagesOf(decJob) /\ \A i \in Pixels : inRow[i] = Taps(image, i, 1, scale, FastTaps(X(i), decJob.width, scale))
  BY <1>3, ImagesAreMade, FastRow, OfTheJob DEF X
<1> HIDE DEF overwritten, image, scale, inRow
<1>5. ASSUME NEW f PROVE Made(f) = [i \in Pixels |-> inRow[i]]
  <2>1. ASSUME NEW i \in Pixels
        PROVE  Modulo(Taps(image, i, 1, scale, FastTaps(X(i), decJob.width, scale) \ overwritten)
                      + Taps(f, i, 1, scale, FastTaps(X(i), decJob.width, scale) \cap overwritten)) = inRow[i]
    <3> DEFINE taps == FastTaps(X(i), decJob.width, scale)
    <3>1. taps \ overwritten = taps /\ taps \cap overwritten = {}  BY <1>2
    <3>2. Taps(f, i, 1, scale, taps \cap overwritten) = 0  BY <3>1, NoTaps
    <3>3. Taps(image, i, 1, scale, taps \ overwritten) = inRow[i]  BY <1>4, <3>1
    <3>4. inRow[i] \in Levels  BY <1>4, OfTheJob DEF ImagesOf
    <3>5. inRow[i] + 0 = inRow[i] /\ Modulo(inRow[i]) = inRow[i]  BY <3>4, LevelIsReduced
    <3> HIDE DEF taps
    <3> QED BY <3>2, <3>3, <3>5 DEF taps
  <2> QED BY <2>1
<1> DEFINE wanted == [i \in Pixels |-> inRow[i]]
<1>6. wanted = Made(wanted) /\ \A f : Made(f) = wanted  BY <1>5
<1> HIDE DEF Made, wanted
<1>7. new = wanted  BY <1>6
<1>8. ASSUME NEW i \in Pixels PROVE new[i] = inRow[i]  BY <1>7 DEF wanted
<1> HIDE DEF new
<1> QED BY <1>1, <1>8, OfTheJob, RowsOfPart DEF inRow, image, scale
LEMMA ColumnsAreConvolved ==
  ASSUME ProperJob(decJob), decScale \in 0 .. decJob.nScales - 1, NEW task, buffers[task.from] \in ImagesOf(decJob)
  PROVE  ConvolveVerticalFast(task)
           = [i \in PixelsOf(decJob) |->
                IF i \in PartOf(decJob, 2, task.part)
                THEN VerticalOf(decJob, buffers[task.from], decScale + 1)[i] ELSE buffers[task.to][i]]
<1>1. decScale + 1 \in 1 .. decJob.nScales  BY DEF ProperJob
<1>2. ASSUME NEW i \in PixelsOf(decJob)
      PROVE  /\ Taps(buffers[task.from], i, decJob.width, decScale + 1, FastTaps(Y(i), decJob.height, decScale + 1))
                  = VerticalOf(decJob, buffers[task.from], decScale + 1)[i]
             /\ i \in PartOf(decJob, 2, task.part) <=> X(i) \in PartColumns(task.part)
  BY <1>1, FastRow, RowsOfPart DEF Y
<1> QED BY <1>2, OfTheJob DEF ConvolveVerticalFast
LEMMA RowsAreSubtracted ==
  ASSUME NEW task
  PROVE  Difference(task)
           = [i \in PixelsOf(decJob) |->
                IF i \in PartOf(decJob, 1, task.part)
                THEN Modulo(buffers[task.from][i] - buffers[task.to][i]) ELSE buffers[task.to][i]]
  BY OfTheJob, RowsOfPart DEF Difference

----
(* The wavelet decomposition: a task *)

\* The images of a scale are images.
LEMMA ResultsAreImages ==
  ASSUME NEW j, ProperJob(j), NEW S, SmoothingOf(j, S), NEW k \in 0 .. j.nScales - 1, NEW ph \in 1 .. 5
  PROVE  /\ S[k] \in ImagesOf(j) /\ S[k + 1] \in ImagesOf(j)
         /\ ResultOf(j, S, k, ph) \in ImagesOf(j)
<1>1. k \in 0 .. j.nScales /\ k + 1 \in 0 .. j.nScales /\ k + 1 \in Nat  BY DEF ProperJob
<1>2. S[k] \in ImagesOf(j) /\ S[k + 1] \in ImagesOf(j)  BY <1>1 DEF SmoothingOf
<1>3. /\ HorizontalOf(j, S[k], k + 1) \in ImagesOf(j)
      /\ HorizontalOf(j, S[k + 1], k + 1) \in ImagesOf(j)
      /\ ConvolvedOf(j, S[k + 1], k + 1) \in ImagesOf(j)  BY <1>1, <1>2, ImagesAreMade
<1>4. DifferenceOf(j, S[k], ConvolvedOf(j, S[k + 1], k + 1)) \in ImagesOf(j)  BY <1>2, <1>3, DifferenceIsImage
<1>5. ph = 1 \/ ph = 2 \/ ph = 3 \/ ph = 4 \/ ph = 5  OBVIOUS
<1> QED BY <1>2, <1>3, <1>4, <1>5 DEF ResultOf

\* The buffers of a phase.
LEMMA BuffersOfPhase ==
  ASSUME NEW j, ProperJob(j), NEW k \in 0 .. j.nScales - 1, NEW ph \in 1 .. 5
  PROVE  /\ FromOf(j, k, ph) \in -3 .. j.nScales /\ ToOf(j, k, ph) \in -3 .. j.nScales
         /\ FromOf(j, k, ph) # ToOf(j, k, ph)
         /\ SourceOf(k) \in -3 .. j.nScales /\ SourceOf(k) # ToOf(j, k, ph)
         /\ ph \in 3 .. 5 => j.nScales # ToOf(j, k, ph)
         /\ ph \in {2, 4} => Scratch # ToOf(j, k, ph)
         /\ \A s \in 0 .. k - 1 : s # ToOf(j, k, ph)
<1>1. j.nScales \in Nat \ {0}  BY DEF ProperJob
<1>2. ph = 1 \/ ph = 2 \/ ph = 3 \/ ph = 4 \/ ph = 5  OBVIOUS
<1> QED BY <1>1, <1>2 DEF FromOf, ToOf, SourceOf, Input, I0, Scratch

PartNotMade(S, p) ==
  phase = 5 => \A i \in PartOf(decJob, phase, p) :
                 buffers[ToOf(decJob, decScale, phase)][i] = ResultOf(decJob, S, decScale, 4)[i]
LEMMA TaskIsExecuted ==
  ASSUME ProperJob(decJob), buffers \in [-3 .. decJob.nScales -> ImagesOf(decJob)],
         decScale \in 0 .. decJob.nScales - 1, phase \in 1 .. 5,
         NEW p \in 0 .. decJob.threads - 1, NEW S, SmoothingOf(decJob, S),
         InputsFit(decJob, S, decScale, phase, buffers), PartNotMade(S, p)
  PROVE  LET to == ToOf(decJob, decScale, phase) IN
         Executed(TaskAt(decJob, decScale, phase, p))
           = [i \in PixelsOf(decJob) |-> IF i \in PartOf(decJob, phase, p) THEN ResultOf(decJob, S, decScale, phase)[i]
                                         ELSE buffers[to][i]]
<1> DEFINE j == decJob
           k == decScale
           to == ToOf(j, k, phase)
           from == FromOf(j, k, phase)
           task == TaskAt(j, k, phase, p)
<1>1. task.kind = KindOf(phase) /\ task.from = from /\ task.to = to /\ task.part = p  BY DEF TaskAt
<1>2. from \in -3 .. j.nScales /\ to \in -3 .. j.nScales /\ from # to  BY BuffersOfPhase
<1>3. buffers[from] \in ImagesOf(j) /\ buffers[to] \in ImagesOf(j)  BY <1>2
<1>4. PartOf(j, 3, p) = PartOf(j, 1, p) /\ PartOf(j, 5, p) = PartOf(j, 1, p) /\ PartOf(j, 4, p) = PartOf(j, 2, p)
  BY DEF PartOf
<1> HIDE DEF task, from, to
<1>5. CASE phase = 1
  <2>1. Executed(task) = ConvolveHorizontalFast(task)  BY <1>1, <1>5 DEF Executed, KindOf
  <2>2. buffers[from] = S[k] /\ ResultOf(j, S, k, 1) = HorizontalOf(j, S[k], k + 1)
    BY <1>5 DEF InputsFit, FromOf, ResultOf, from
  <2>3. ConvolveHorizontalFast(task)
          = [i \in PixelsOf(j) |-> IF i \in PartOf(j, 1, p) THEN HorizontalOf(j, buffers[from], k + 1)[i] ELSE buffers[to][i]]
    BY <1>1, <1>2, <1>3, RowsAreConvolved
  <2> QED BY <1>5, <2>1, <2>2, <2>3 DEF task, to
<1>6. CASE phase = 2
  <2>1. Executed(task) = ConvolveVerticalFast(task)  BY <1>1, <1>6 DEF Executed, KindOf
  <2>2. buffers[from] = HorizontalOf(j, S[k], k + 1)  BY <1>6 DEF InputsFit, FromOf, ResultOf, from
  <2>3. ResultOf(j, S, k, 2) = VerticalOf(j, buffers[from], k + 1)
    <3>1. S[k + 1] = ConvolvedOf(j, S[k], k + 1)  BY DEF SmoothingOf
    <3> QED BY <2>2, <3>1 DEF ConvolvedOf, ResultOf
  <2>4. ConvolveVerticalFast(task)
          = [i \in PixelsOf(j) |-> IF i \in PartOf(j, 2, p) THEN VerticalOf(j, buffers[from], k + 1)[i] ELSE buffers[to][i]]
    BY <1>1, <1>3, ColumnsAreConvolved
  <2> QED BY <1>6, <2>1, <2>3, <2>4 DEF task, to
<1>7. CASE phase = 3
  <2>1. Executed(task) = ConvolveHorizontalFast(task)  BY <1>1, <1>7 DEF Executed, KindOf
  <2>2. buffers[from] = S[k + 1] /\ ResultOf(j, S, k, 3) = HorizontalOf(j, S[k + 1], k + 1)
    BY <1>7 DEF InputsFit, FromOf, ResultOf, from
  <2>3. ConvolveHorizontalFast(task)
          = [i \in PixelsOf(j) |-> IF i \in PartOf(j, 1, p) THEN HorizontalOf(j, buffers[from], k + 1)[i] ELSE buffers[to][i]]
    BY <1>1, <1>2, <1>3, RowsAreConvolved
  <2> QED BY <1>4, <1>7, <2>1, <2>2, <2>3 DEF task, to
<1>8. CASE phase = 4
  <2>1. Executed(task) = ConvolveVerticalFast(task)  BY <1>1, <1>8 DEF Executed, KindOf
  <2>2. buffers[from] = HorizontalOf(j, S[k + 1], k + 1)  BY <1>8 DEF InputsFit, FromOf, ResultOf, from
  <2>3. ResultOf(j, S, k, 4) = VerticalOf(j, buffers[from], k + 1)  BY <2>2 DEF ConvolvedOf, ResultOf
  <2>4. ConvolveVerticalFast(task)
          = [i \in PixelsOf(j) |-> IF i \in PartOf(j, 2, p) THEN VerticalOf(j, buffers[from], k + 1)[i] ELSE buffers[to][i]]
    BY <1>1, <1>3, ColumnsAreConvolved
  <2> QED BY <1>4, <1>8, <2>1, <2>3, <2>4 DEF task, to
<1>9. CASE phase = 5
  <2>1. Executed(task) = Difference(task)  BY <1>1, <1>9 DEF Executed, KindOf
  <2>2. buffers[from] = S[k]  BY <1>9 DEF InputsFit, FromOf, from
  <2>3. Difference(task)
          = [i \in PixelsOf(j) |-> IF i \in PartOf(j, 1, p) THEN Modulo(buffers[from][i] - buffers[to][i]) ELSE buffers[to][i]]
    BY <1>1, RowsAreSubtracted
  <2>4. ASSUME NEW i \in PixelsOf(j), i \in PartOf(j, 1, p)
        PROVE  Modulo(buffers[from][i] - buffers[to][i]) = ResultOf(j, S, k, 5)[i]
    <3>1. buffers[to][i] = ConvolvedOf(j, S[k + 1], k + 1)[i]  BY <1>4, <1>9, <2>4 DEF PartNotMade, ResultOf, to
    <3> QED BY <2>2, <3>1 DEF ResultOf, DifferenceOf
  <2> QED BY <1>4, <1>9, <2>1, <2>3, <2>4 DEF task, to
<1> QED BY <1>5, <1>6, <1>7, <1>8, <1>9

----
(* The wavelet decomposition: the pool *)

\* What is asked of a step, and what it keeps.
Decomposing == JobsAreProper /\ DecompositionInv /\ ~decJob.inPlace
LEMMA DecomposingFacts ==
  ASSUME Decomposing
  PROVE  /\ decJob \in DecompositionJobs /\ ProperJob(decJob) /\ DecTypes /\ PoolInv /\ ScalesInv
         /\ decJob.threads \in Nat \ {0} /\ decJob.nScales \in Nat \ {0}
  BY DEF Decomposing, DecompositionInv, JobsAreProper, ProperJob

LEMMA QueuedTask ==
  ASSUME phase \in 1 .. 5, ~decJob.inPlace, NEW p
  PROVE  TaskOf(p) = TaskAt(decJob, decScale, phase, p)
<1>1. phase = 1 \/ phase = 2 \/ phase = 3 \/ phase = 4 \/ phase = 5  OBVIOUS
<1>2. (IF decScale = 0 THEN InputBuffer ELSE I0) = SourceOf(decScale) /\ I1 = decJob.nScales
  BY DEF InputBuffer, SourceOf, I1
<1> QED BY <1>1, <1>2 DEF TaskOf, TaskAt, KindOf, FromOf, ToOf
LEMMA TaskIs ==
  ASSUME NEW j, NEW k, NEW ph, NEW task \in TasksOf(j, k, ph)
  PROVE  task.part \in 0 .. j.threads - 1 /\ task = TaskAt(j, k, ph, task.part)  BY DEF TasksOf, TaskAt

\* The threads that have a task.
Active == {t \in 1 .. decJob.threads : poolThread[t] \in {"run", "ran"}}
LEMMA ActiveIsFinite ==
  ASSUME ProperJob(decJob)
  PROVE  IsFiniteSet(Active) /\ Cardinality(Active) \in Nat
<1>1. IsFiniteSet(1 .. decJob.threads)  BY FS_Interval DEF ProperJob
<1>2. Active \subseteq 1 .. decJob.threads  BY DEF Active
<1>3. IsFiniteSet(Active)  BY <1>1, <1>2, FS_Subset
<1> QED BY <1>3, FS_CardinalityType
LEMMA NobodyWorks ==
  ASSUME Decomposing, AllTasksQueued, AllTasksDone
  PROVE  /\ queuedTasks = <<>> /\ \A t \in 1 .. decJob.threads : ~HasPart(t)
         /\ Active = {}
         /\ \A p \in 0 .. decJob.threads - 1 : PartDone(p)
<1>1. decStage = "decompose" /\ activeThreads = 0 /\ queuedTasks = <<>> /\ queuedParts = decJob.threads
  BY DEF AllTasksQueued, AllTasksDone
<1>2. Cardinality(Active) = 0  BY <1>1, DecomposingFacts DEF PoolInv, CountFits, Active
<1>3. Active = {}  BY <1>2, DecomposingFacts, ActiveIsFinite, FS_EmptySet
<1>4. \A t \in 1 .. decJob.threads : ~HasPart(t)  BY <1>3 DEF Active, HasPart
<1>5. DOMAIN queuedTasks = {}  BY <1>1
<1>6. \A p : ~Held(p)  BY <1>4, <1>5 DEF Held
<1> QED BY <1>1, <1>3, <1>4, <1>6 DEF PartDone

\* A step that moves no image and finishes no part keeps what is known of the images.
PartsKept == \A p \in 0 .. decJob.threads - 1 : PartDone(p)' <=> PartDone(p)
LEMMA ScalesKept ==
  ASSUME ScalesInv, UNCHANGED <<decJob, buffers, decScale, phase, largest, decStage>>,
         decStage = "decompose" => PartsKept
  PROVE  ScalesInv'
<1>1. PICK S, L : /\ SmoothingOf(decJob, S) /\ LargestOf(decJob, S, L)
                  /\ decStage = "decompose" => DecomposeInv(S)
                  /\ decStage = "recompose" => RecomposeInv(S, L)  BY DEF ScalesInv
<1>2. SmoothingOf(decJob, S)' /\ LargestOf(decJob, S, L)'  BY <1>1
<1>3. ASSUME decStage' = "decompose" PROVE DecomposeInv(S)'
  <2>1. decStage = "decompose"  BY <1>3
  <2>2. InputsFit(decJob, S, decScale, phase, buffers)'  BY <1>1, <2>1 DEF DecomposeInv
  <2>3. DetailsFit(decJob, S, decScale - 1, buffers)'  BY <1>1, <2>1 DEF DecomposeInv
  <2>4. PartsFit(S)'
    <3>1. PartsFit(S) /\ PartsKept  BY <1>1, <2>1 DEF DecomposeInv
    <3> QED BY <3>1 DEF PartsFit, PartsKept
  <2> QED BY <2>2, <2>3, <2>4 DEF DecomposeInv
<1>4. ASSUME decStage' = "recompose" PROVE RecomposeInv(S, L)'  BY <1>1, <1>4 DEF RecomposeInv
<1> QED BY <1>2, <1>3, <1>4 DEF ScalesInv

LEMMA TakingAPart ==
  ASSUME Decomposing, NEW t \in 1 .. decJob.threads, TakeWaveletTask(t)
  PROVE  DecompositionInv'
<1> DEFINE q == queuedTasks
<1>0. /\ decJob' = decJob /\ decScale' = decScale /\ phase' = phase /\ queuedParts' = queuedParts
      /\ buffers' = buffers /\ largest' = largest /\ decStage' = decStage
      /\ queuedTasks # <<>> /\ poolThread[t] = "awake"
      /\ activeThreads' = activeThreads + 1 /\ queuedTasks' = Tail(queuedTasks)
      /\ poolThread' = [poolThread EXCEPT ![t] = "run"] /\ doing' = [doing EXCEPT ![t] = Head(queuedTasks)]
  BY DEF TakeWaveletTask
<1>1. decStage = "decompose" /\ QueueFits /\ WorkFits /\ CountFits  BY <1>0, DecomposingFacts DEF PoolInv
<1>2. DecTypes'  BY <1>0, DecomposingFacts DEF DecTypes, PoolStates
<1>3. /\ queuedTasks \in Seq(TasksOf(decJob, decScale, phase)) /\ Len(queuedTasks) \in Nat /\ Len(queuedTasks) # 0
      /\ DOMAIN queuedTasks = 1 .. Len(queuedTasks)  BY <1>0, <1>1 DEF QueueFits
<1>4. /\ Head(queuedTasks) = queuedTasks[1] /\ 1 \in DOMAIN queuedTasks
      /\ DOMAIN Tail(queuedTasks) = 1 .. Len(queuedTasks) - 1
      /\ \A i \in DOMAIN Tail(queuedTasks) : Tail(queuedTasks)[i] = queuedTasks[i + 1] /\ i + 1 \in DOMAIN queuedTasks
      /\ Tail(queuedTasks) \in Seq(TasksOf(decJob, decScale, phase))  BY <1>3
<1>5. /\ \A u \in 1 .. decJob.threads : HasPart(u)' <=> (u = t \/ HasPart(u))
      /\ ~HasPart(t)
      /\ doing'[t] = queuedTasks[1] /\ \A u \in 1 .. decJob.threads : u # t => doing'[u] = doing[u]
  BY <1>0, <1>4, DecomposingFacts DEF HasPart, DecTypes
<1>6. QueueFits'  BY <1>0, <1>1, <1>3, <1>4 DEF QueueFits
<1>7. WorkFits'
  <2>1. queuedTasks[1] \in TasksOf(decJob, decScale, phase) /\ queuedTasks[1].part \in 0 .. queuedParts - 1
    BY <1>1, <1>3, <1>4 DEF QueueFits
  <2>2. \A i \in DOMAIN Tail(queuedTasks) : i + 1 # 1  BY <1>4
  <2>3. \A i \in DOMAIN Tail(queuedTasks) : Tail(queuedTasks)[i].part # queuedTasks[1].part
    BY <1>1, <1>4, <2>2 DEF QueueFits
  <2>4. ASSUME NEW u \in 1 .. decJob.threads, HasPart(u)'
        PROVE  /\ doing'[u] \in TasksOf(decJob, decScale, phase) /\ doing'[u].part \in 0 .. queuedParts - 1
               /\ \A i \in DOMAIN Tail(queuedTasks) : Tail(queuedTasks)[i].part # doing'[u].part
    <3>1. CASE u = t  BY <1>5, <2>1, <2>3, <3>1
    <3>2. CASE u # t
      <4>1. HasPart(u) /\ doing'[u] = doing[u]  BY <1>5, <2>4, <3>2
      <4>2. \A i \in DOMAIN queuedTasks : queuedTasks[i].part # doing[u].part  BY <1>1, <4>1 DEF WorkFits
      <4> QED BY <1>1, <1>4, <4>1, <4>2 DEF WorkFits
    <3> QED BY <3>1, <3>2
  <2>5. ASSUME NEW u \in 1 .. decJob.threads, NEW v \in 1 .. decJob.threads, u # v, HasPart(u)', HasPart(v)'
        PROVE  doing'[u].part # doing'[v].part
    <3>1. \A x \in 1 .. decJob.threads : HasPart(x) => queuedTasks[1].part # doing[x].part  BY <1>1, <1>4 DEF WorkFits
    <3>2. CASE u = t  BY <1>5, <2>5, <3>1, <3>2
    <3>3. CASE v = t  BY <1>5, <2>5, <3>1, <3>3
    <3>4. CASE u # t /\ v # t  BY <1>1, <1>5, <2>5, <3>4 DEF WorkFits
    <3> QED BY <3>2, <3>3, <3>4
  <2> QED BY <1>0, <2>4, <2>5 DEF WorkFits
<1>8. CountFits'
  <2>1. Active' = Active \cup {t} /\ t \notin Active  BY <1>0, DecomposingFacts DEF Active, DecTypes
  <2>2. Cardinality(Active \cup {t}) = Cardinality(Active) + 1
    BY <2>1, DecomposingFacts, ActiveIsFinite, FS_AddElement
  <2>3. activeThreads = Cardinality(Active)  BY <1>1 DEF CountFits, Active
  <2>4. activeThreads' = Cardinality(Active')  BY <1>0, <2>1, <2>2, <2>3
  <2> QED BY <2>4 DEF CountFits, Active
<1>9. ASSUME NEW p PROVE Held(p)' <=> Held(p)
  <2>1. ASSUME Held(p)' PROVE Held(p)
    <3>1. CASE \E i \in DOMAIN Tail(queuedTasks) : Tail(queuedTasks)[i].part = p  BY <1>4, <3>1 DEF Held
    <3>2. CASE \E u \in 1 .. decJob.threads : HasPart(u)' /\ doing'[u].part = p
      <4>1. PICK u \in 1 .. decJob.threads : HasPart(u)' /\ doing'[u].part = p  BY <3>2
      <4>2. CASE u = t  BY <1>4, <1>5, <4>1, <4>2 DEF Held
      <4>3. CASE u # t  BY <1>5, <4>1, <4>3 DEF Held
      <4> QED BY <4>2, <4>3
    <3> QED BY <1>0, <2>1, <3>1, <3>2 DEF Held
  <2>2. ASSUME Held(p) PROVE Held(p)'
    <3>1. CASE \E i \in DOMAIN queuedTasks : queuedTasks[i].part = p
      <4>1. PICK i \in DOMAIN queuedTasks : queuedTasks[i].part = p  BY <3>1
      <4>2. CASE i = 1
        <5>1. HasPart(t)' /\ doing'[t].part = p  BY <1>5, <4>1, <4>2
        <5> QED BY <1>0, <5>1 DEF Held
      <4>3. CASE i # 1
        <5>1. i - 1 \in DOMAIN Tail(queuedTasks) /\ i - 1 + 1 = i  BY <1>3, <1>4, <4>3
        <5>2. Tail(queuedTasks)[i - 1].part = p  BY <1>4, <4>1, <5>1
        <5> QED BY <1>0, <5>1, <5>2 DEF Held
      <4> QED BY <4>2, <4>3
    <3>2. CASE \E u \in 1 .. decJob.threads : HasPart(u) /\ doing[u].part = p
      <4>1. PICK u \in 1 .. decJob.threads : HasPart(u) /\ doing[u].part = p  BY <3>2
      <4>2. HasPart(u)' /\ doing'[u].part = p  BY <1>5, <4>1
      <4> QED BY <1>0, <4>2 DEF Held
    <3> QED BY <2>2, <3>1, <3>2 DEF Held
  <2> QED BY <2>1, <2>2
<1>10. PartsKept  BY <1>0, <1>9 DEF PartsKept, PartDone
<1>11. ScalesInv'  BY <1>0, <1>10, DecomposingFacts, ScalesKept
<1>12. PoolInv'  BY <1>0, <1>1, <1>6, <1>7, <1>8 DEF PoolInv
<1> QED BY <1>0, <1>2, <1>11, <1>12, DecomposingFacts DEF DecompositionInv

LEMMA WaitingForATask ==
  ASSUME Decomposing,
         \/ \E t \in 1 .. decJob.threads : ThreadWaits(t) \/ ThreadEnds(t)
         \/ WaitForAllTasks
         \/ UNCHANGED decompositionVars
  PROVE  DecompositionInv'
<1>0. /\ decJob' = decJob /\ decScale' = decScale /\ phase' = phase /\ queuedParts' = queuedParts
      /\ buffers' = buffers /\ largest' = largest /\ decStage' = decStage
      /\ activeThreads' = activeThreads /\ queuedTasks' = queuedTasks /\ doing' = doing
  BY DEF ThreadWaits, ThreadEnds, WaitForAllTasks, decompositionVars
<1>1. \/ poolThread' = poolThread
      \/ \E t \in 1 .. decJob.threads : poolThread[t] = "awake" /\ poolThread' = [poolThread EXCEPT ![t] = "ended"]
  BY DEF ThreadWaits, ThreadEnds, WaitForAllTasks, decompositionVars
<1>2. DecTypes'  BY <1>0, <1>1, DecomposingFacts DEF DecTypes, PoolStates
<1>3. \A u \in 1 .. decJob.threads : (HasPart(u)' <=> HasPart(u)) /\ (poolThread'[u] \in {"run", "ran"} <=> poolThread[u] \in {"run", "ran"})
  BY <1>0, <1>1, DecomposingFacts DEF HasPart, DecTypes
<1>4. Active' = Active  BY <1>0, <1>3 DEF Active
<1>5. QueueFits => QueueFits'  BY <1>0 DEF QueueFits
<1>6. WorkFits => WorkFits'  BY <1>0, <1>3 DEF WorkFits
<1>7. CountFits => CountFits'  BY <1>0, <1>4 DEF CountFits, Active
<1>8. PoolInv'  BY <1>0, <1>3, <1>5, <1>6, <1>7, DecomposingFacts DEF PoolInv
<1>9. ASSUME NEW p PROVE Held(p)' <=> Held(p)  BY <1>0, <1>3 DEF Held
<1>10. PartsKept  BY <1>0, <1>9 DEF PartsKept, PartDone
<1>11. ScalesInv'  BY <1>0, <1>10, DecomposingFacts, ScalesKept
<1> QED BY <1>0, <1>2, <1>8, <1>11, DecomposingFacts DEF DecompositionInv

LEMMA EndingAPart ==
  ASSUME Decomposing, NEW t \in 1 .. decJob.threads, EndTask(t)
  PROVE  DecompositionInv'
<1>0. /\ decJob' = decJob /\ decScale' = decScale /\ phase' = phase /\ queuedParts' = queuedParts
      /\ buffers' = buffers /\ largest' = largest /\ decStage' = decStage
      /\ queuedTasks' = queuedTasks /\ activeThreads' = activeThreads - 1
      /\ poolThread[t] = "ran" /\ poolThread' = [poolThread EXCEPT ![t] = "awake"]
      /\ doing' = [doing EXCEPT ![t] = NoWaveletTask]  BY DEF EndTask
<1>1. DecTypes'  BY <1>0, DecomposingFacts DEF DecTypes, PoolStates
<1>2. /\ \A u \in 1 .. decJob.threads : HasPart(u)' <=> HasPart(u)
      /\ \A u \in 1 .. decJob.threads : HasPart(u) => u # t /\ doing'[u] = doing[u]
  BY <1>0, DecomposingFacts DEF HasPart, DecTypes
<1>3. QueueFits => QueueFits'  BY <1>0 DEF QueueFits
<1>4. WorkFits => WorkFits'  BY <1>0, <1>2 DEF WorkFits
<1>5. CountFits => CountFits'
  <2>1. Active' = Active \ {t} /\ t \in Active  BY <1>0, DecomposingFacts DEF Active, DecTypes
  <2>2. Cardinality(Active \ {t}) = Cardinality(Active) - 1
    BY <2>1, DecomposingFacts, ActiveIsFinite, FS_RemoveElement
  <2> SUFFICES ASSUME CountFits PROVE CountFits'  OBVIOUS
  <2>3. activeThreads = Cardinality(Active)  BY DEF CountFits, Active
  <2>4. activeThreads' = Cardinality(Active')  BY <1>0, <2>1, <2>2, <2>3
  <2> QED BY <2>4 DEF CountFits, Active
<1>6. PoolInv'  BY <1>0, <1>2, <1>3, <1>4, <1>5, DecomposingFacts DEF PoolInv
<1>7. ASSUME NEW p PROVE Held(p)' <=> Held(p)  BY <1>0, <1>2 DEF Held
<1>8. PartsKept  BY <1>0, <1>7 DEF PartsKept, PartDone
<1>9. ScalesInv'  BY <1>0, <1>8, DecomposingFacts, ScalesKept
<1> QED BY <1>0, <1>1, <1>6, <1>9, DecomposingFacts DEF DecompositionInv

LEMMA QueueingAPart ==
  ASSUME Decomposing, QueueTask
  PROVE  DecompositionInv'
<1> DEFINE task == TaskAt(decJob, decScale, phase, queuedParts)
<1>0. /\ decJob' = decJob /\ decScale' = decScale /\ phase' = phase /\ queuedParts' = queuedParts + 1
      /\ buffers' = buffers /\ largest' = largest /\ decStage' = decStage
      /\ activeThreads' = activeThreads /\ poolThread' = poolThread /\ doing' = doing
      /\ decStage = "decompose" /\ queuedParts < decJob.threads
      /\ queuedTasks' = Append(queuedTasks, TaskOf(queuedParts))  BY DEF QueueTask
<1>1. QueueFits /\ WorkFits /\ CountFits  BY <1>0, DecomposingFacts DEF PoolInv
<1>2. queuedParts \in 0 .. decJob.threads - 1 /\ phase \in 1 .. 5  BY <1>0, DecomposingFacts DEF DecTypes
<1>3. /\ task \in TasksOf(decJob, decScale, phase) /\ task.part = queuedParts
      /\ queuedTasks' = Append(queuedTasks, task)
  <2>1. task \in TasksOf(decJob, decScale, phase)  BY <1>2 DEF TasksOf
  <2>2. task.part = queuedParts  BY DEF TaskAt
  <2>3. TaskOf(queuedParts) = task  BY <1>2, QueuedTask DEF Decomposing
  <2> QED BY <1>0, <2>1, <2>2, <2>3
<1> HIDE DEF task
<1>4. /\ queuedTasks \in Seq(TasksOf(decJob, decScale, phase)) /\ Len(queuedTasks) \in Nat
      /\ DOMAIN queuedTasks = 1 .. Len(queuedTasks)  BY <1>1 DEF QueueFits
<1>5. /\ queuedTasks' \in Seq(TasksOf(decJob, decScale, phase))
      /\ DOMAIN queuedTasks' = 1 .. Len(queuedTasks) + 1
      /\ queuedTasks'[Len(queuedTasks) + 1] = task
      /\ \A i \in DOMAIN queuedTasks : queuedTasks'[i] = queuedTasks[i]  BY <1>3, <1>4
<1>6. \A i \in DOMAIN queuedTasks' : i \in DOMAIN queuedTasks \/ i = Len(queuedTasks) + 1  BY <1>4, <1>5
<1>7. \A i \in DOMAIN queuedTasks : queuedTasks[i].part \in 0 .. queuedParts - 1 /\ queuedTasks[i].part # queuedParts
  BY <1>1, <1>2 DEF QueueFits
<1>8. DecTypes'  BY <1>0, <1>2, DecomposingFacts DEF DecTypes
<1>9. QueueFits'
  <2>1. \A i \in DOMAIN queuedTasks' : queuedTasks'[i].part \in 0 .. queuedParts  BY <1>2, <1>3, <1>5, <1>6, <1>7
  <2>2. ASSUME NEW i \in DOMAIN queuedTasks', NEW k \in DOMAIN queuedTasks', i # k
        PROVE  queuedTasks'[i].part # queuedTasks'[k].part
    <3>1. CASE i \in DOMAIN queuedTasks /\ k \in DOMAIN queuedTasks  BY <1>1, <1>5, <2>2, <3>1 DEF QueueFits
    <3>2. CASE i \in DOMAIN queuedTasks /\ k = Len(queuedTasks) + 1  BY <1>3, <1>5, <1>7, <3>2
    <3>3. CASE i = Len(queuedTasks) + 1 /\ k \in DOMAIN queuedTasks  BY <1>3, <1>5, <1>7, <3>3
    <3> QED BY <1>6, <2>2, <3>1, <3>2, <3>3
  <2>3. (queuedParts + 1) - 1 = queuedParts  BY <1>2
  <2> QED BY <1>0, <1>5, <2>1, <2>2, <2>3 DEF QueueFits
<1>10. WorkFits'
  <2>1. \A t \in 1 .. decJob.threads : HasPart(t)' <=> HasPart(t)  BY <1>0 DEF HasPart
  <2>2. ASSUME NEW t \in 1 .. decJob.threads, HasPart(t)
        PROVE  /\ doing[t] \in TasksOf(decJob, decScale, phase) /\ doing[t].part \in 0 .. queuedParts
               /\ \A i \in DOMAIN queuedTasks' : queuedTasks'[i].part # doing[t].part
    <3>1. /\ doing[t] \in TasksOf(decJob, decScale, phase) /\ doing[t].part \in 0 .. queuedParts - 1
          /\ \A i \in DOMAIN queuedTasks : queuedTasks[i].part # doing[t].part  BY <1>1, <2>2 DEF WorkFits
    <3>2. doing[t].part # queuedParts /\ doing[t].part \in 0 .. queuedParts  BY <1>2, <3>1
    <3> QED BY <1>3, <1>5, <1>6, <3>1, <3>2
  <2>3. (queuedParts + 1) - 1 = queuedParts  BY <1>2
  <2>4. \A t, u \in 1 .. decJob.threads : t # u /\ HasPart(t) /\ HasPart(u) => doing[t].part # doing[u].part
    BY <1>1 DEF WorkFits
  <2> QED BY <1>0, <2>1, <2>2, <2>3, <2>4 DEF WorkFits
<1>11. CountFits'  BY <1>0, <1>1 DEF CountFits
<1>12. PoolInv'  BY <1>0, <1>9, <1>10, <1>11 DEF PoolInv
<1>13. ASSUME NEW p PROVE Held(p)' <=> (Held(p) \/ p = queuedParts)
  <2>1. \A t \in 1 .. decJob.threads : HasPart(t)' <=> HasPart(t)  BY <1>0 DEF HasPart
  <2>2. (\E i \in DOMAIN queuedTasks' : queuedTasks'[i].part = p)
          <=> ((\E i \in DOMAIN queuedTasks : queuedTasks[i].part = p) \/ p = queuedParts)
    <3>1. \A i \in DOMAIN queuedTasks : i \in DOMAIN queuedTasks'  BY <1>4, <1>5
    <3>2. Len(queuedTasks) + 1 \in DOMAIN queuedTasks'  BY <1>4, <1>5
    <3> QED BY <1>3, <1>5, <1>6, <3>1, <3>2
  <2> QED BY <1>0, <2>1, <2>2 DEF Held
<1>14. PartsKept
  <2>1. ASSUME NEW p \in 0 .. decJob.threads - 1 PROVE PartDone(p)' <=> PartDone(p)
    <3>1. p \in 0 .. (queuedParts + 1) - 1 <=> (p \in 0 .. queuedParts - 1 \/ p = queuedParts)  BY <1>2
    <3>2. ~(queuedParts \in 0 .. queuedParts - 1)  BY <1>2
    <3> QED BY <1>0, <1>13, <3>1, <3>2 DEF PartDone
  <2> QED BY <2>1 DEF PartsKept
<1>15. ScalesInv'  BY <1>0, <1>14, DecomposingFacts, ScalesKept
<1> QED BY <1>0, <1>8, <1>12, <1>15, DecomposingFacts DEF DecompositionInv

\* A task that is executed makes its part of the image of the phase, and no other.
LEMMA ExecutingAPart ==
  ASSUME Decomposing, NEW t \in 1 .. decJob.threads, RunTask(t)
  PROVE  DecompositionInv'
<1> DEFINE p == doing[t].part
           to == ToOf(decJob, decScale, phase)
           made == Executed(doing[t])
<1>0. /\ decJob' = decJob /\ decScale' = decScale /\ phase' = phase /\ queuedParts' = queuedParts
      /\ largest' = largest /\ decStage' = decStage /\ queuedTasks' = queuedTasks /\ activeThreads' = activeThreads
      /\ doing' = doing /\ poolThread[t] = "run" /\ HasPart(t) /\ poolThread' = [poolThread EXCEPT ![t] = "ran"]
      /\ buffers' = [buffers EXCEPT ![doing[t].to] = made]  BY DEF RunTask, HasPart
<1>1. decStage = "decompose" /\ QueueFits /\ WorkFits /\ CountFits  BY <1>0, DecomposingFacts DEF PoolInv
<1>2. /\ decScale \in 0 .. decJob.nScales - 1 /\ phase \in 1 .. 5 /\ ProperJob(decJob)
      /\ buffers \in [-3 .. decJob.nScales -> ImagesOf(decJob)]
      /\ poolThread \in [1 .. decJob.threads -> PoolStates]  BY <1>1, DecomposingFacts DEF DecTypes
<1>3. /\ p \in 0 .. queuedParts - 1 /\ p \in 0 .. decJob.threads - 1
      /\ doing[t] = TaskAt(decJob, decScale, phase, p) /\ doing[t].to = to
  <2>1. doing[t] \in TasksOf(decJob, decScale, phase) /\ p \in 0 .. queuedParts - 1  BY <1>0, <1>1 DEF WorkFits
  <2>2. p \in 0 .. decJob.threads - 1 /\ doing[t] = TaskAt(decJob, decScale, phase, p)  BY <2>1, TaskIs
  <2>3. TaskAt(decJob, decScale, phase, p).to = to  BY DEF TaskAt
  <2> QED BY <2>1, <2>2, <2>3
<1>4. PICK S, L : SmoothingOf(decJob, S) /\ LargestOf(decJob, S, L) /\ DecomposeInv(S)
  BY <1>1, DecomposingFacts DEF ScalesInv
<1>5. Held(p) /\ ~PartDone(p)  BY <1>0 DEF Held, PartDone
<1>6. PartNotMade(S, p)  BY <1>3, <1>4, <1>5 DEF DecomposeInv, PartsFit, PartNotMade
<1> HIDE DEF p, to, made
<1>7. made = [i \in PixelsOf(decJob) |-> IF i \in PartOf(decJob, phase, p) THEN ResultOf(decJob, S, decScale, phase)[i]
                                         ELSE buffers[to][i]]
  BY <1>2, <1>3, <1>4, <1>6, TaskIsExecuted DEF DecomposeInv, made, to
<1>8. to \in -3 .. decJob.nScales /\ buffers[to] \in ImagesOf(decJob)  BY <1>2, BuffersOfPhase DEF to
<1>9. ResultOf(decJob, S, decScale, phase) \in ImagesOf(decJob)  BY <1>2, <1>4, ResultsAreImages
<1>10. made \in ImagesOf(decJob)  BY <1>7, <1>8, <1>9 DEF ImagesOf
<1>11. /\ buffers' = [buffers EXCEPT ![to] = made] /\ buffers'[to] = made
       /\ buffers' \in [-3 .. decJob.nScales -> ImagesOf(decJob)]
       /\ \A x \in -3 .. decJob.nScales : x # to => buffers'[x] = buffers[x]  BY <1>0, <1>2, <1>3, <1>8, <1>10
<1>12. DecTypes'  BY <1>0, <1>2, <1>11, DecomposingFacts DEF DecTypes, PoolStates
<1>13. /\ \A u \in 1 .. decJob.threads : HasPart(u)' <=> (HasPart(u) /\ u # t)
       /\ \A u \in 1 .. decJob.threads : poolThread'[u] \in {"run", "ran"} <=> poolThread[u] \in {"run", "ran"}
  BY <1>0, <1>2 DEF HasPart
<1>14. PoolInv'
  <2>1. QueueFits'  BY <1>0, <1>1 DEF QueueFits
  <2>2. WorkFits'  BY <1>0, <1>1, <1>13 DEF WorkFits
  <2>3. Active' = Active  BY <1>0, <1>13 DEF Active
  <2>4. CountFits'  BY <1>0, <1>1, <2>3 DEF CountFits, Active
  <2> QED BY <1>0, <1>1, <2>1, <2>2, <2>4 DEF PoolInv
<1>15. ASSUME NEW q PROVE Held(q)' <=> (Held(q) /\ q # p)
  <2>1. \A i \in DOMAIN queuedTasks : queuedTasks[i].part # p  BY <1>0, <1>1 DEF WorkFits, p
  <2>2. \A u \in 1 .. decJob.threads : HasPart(u) /\ u # t => doing[u].part # p  BY <1>0, <1>1 DEF WorkFits, p
  <2> QED BY <1>0, <1>13, <2>1, <2>2 DEF Held, p
<1>16. ASSUME NEW q PROVE PartDone(q)' <=> (PartDone(q) \/ q = p)  BY <1>0, <1>3, <1>15 DEF PartDone
<1>17. InputsFit(decJob, S, decScale, phase, buffers')
  <2>1. /\ SourceOf(decScale) \in -3 .. decJob.nScales /\ SourceOf(decScale) # to
        /\ phase \in 3 .. 5 => decJob.nScales # to
        /\ phase \in {2, 4} => Scratch # to  BY <1>2, BuffersOfPhase DEF to
  <2>2. Scratch \in -3 .. decJob.nScales /\ decJob.nScales \in -3 .. decJob.nScales  BY <1>2 DEF Scratch, ProperJob
  <2> QED BY <1>4, <1>11, <2>1, <2>2 DEF DecomposeInv, InputsFit
<1>18. DetailsFit(decJob, S, decScale - 1, buffers')
  <2>1. \A s \in 0 .. decScale - 1 : s # to  BY <1>2, BuffersOfPhase DEF to
  <2>2. \A s \in 0 .. decScale - 1 : s \in -3 .. decJob.nScales  BY <1>2, DecomposingFacts
  <2> QED BY <1>4, <1>11, <2>1, <2>2 DEF DecomposeInv, DetailsFit
<1>19. PartsFit(S)'
  <2>1. ASSUME NEW q \in 0 .. decJob.threads - 1, NEW i \in PartOf(decJob, phase, q)
        PROVE  /\ PartDone(q)' => made[i] = ResultOf(decJob, S, decScale, phase)[i]
               /\ phase = 5 /\ ~PartDone(q)' => made[i] = ResultOf(decJob, S, decScale, 4)[i]
    <3>1. i \in PixelsOf(decJob)  BY DEF PartOf
    <3>2. CASE q = p  BY <1>7, <1>16, <3>1, <3>2
    <3>3. CASE q # p
      <4>1. i \notin PartOf(decJob, phase, p)  BY <1>2, <1>3, <3>3, PartsApart
      <4>2. made[i] = buffers[to][i]  BY <1>7, <3>1, <4>1
      <4>3. /\ PartDone(q) => buffers[to][i] = ResultOf(decJob, S, decScale, phase)[i]
            /\ phase = 5 /\ ~PartDone(q) => buffers[to][i] = ResultOf(decJob, S, decScale, 4)[i]
        BY <1>4 DEF DecomposeInv, PartsFit, to
      <4> QED BY <1>16, <3>3, <4>2, <4>3
    <3> QED BY <3>2, <3>3
  <2> QED BY <1>0, <1>11, <2>1 DEF PartsFit, to
<1>20. ScalesInv'  BY <1>0, <1>1, <1>4, <1>17, <1>18, <1>19 DEF ScalesInv, DecomposeInv
<1> QED BY <1>0, <1>12, <1>14, <1>20, DecomposingFacts DEF DecompositionInv

----
(* The wavelet decomposition: the caller *)

\* When all tasks are done the image of the phase is made.
LEMMA PhaseIsMade ==
  ASSUME Decomposing, AllTasksQueued, AllTasksDone, NEW S, SmoothingOf(decJob, S), DecomposeInv(S)
  PROVE  buffers[ToOf(decJob, decScale, phase)] = ResultOf(decJob, S, decScale, phase)
<1> DEFINE image == buffers[ToOf(decJob, decScale, phase)]
           wanted == ResultOf(decJob, S, decScale, phase)
<1>1. /\ decStage = "decompose" /\ phase \in 1 .. 5 /\ ProperJob(decJob) /\ decScale \in 0 .. decJob.nScales - 1
      /\ buffers \in [-3 .. decJob.nScales -> ImagesOf(decJob)]  BY DecomposingFacts DEF DecTypes, AllTasksQueued
<1>2. image \in ImagesOf(decJob) /\ wanted \in ImagesOf(decJob)  BY <1>1, BuffersOfPhase, ResultsAreImages
<1>3. ASSUME NEW i \in PixelsOf(decJob) PROVE image[i] = wanted[i]
  <2>1. PICK p \in 0 .. decJob.threads - 1 : i \in PartOf(decJob, phase, p)  BY <1>1, PartsCover
  <2>2. PartDone(p)  BY NobodyWorks
  <2> QED BY <2>1, <2>2 DEF DecomposeInv, PartsFit
<1> HIDE DEF image, wanted
<1>4. image = wanted  BY <1>2, <1>3 DEF ImagesOf
<1> QED BY <1>4 DEF image, wanted

LEMMA EmptyPool ==
  ASSUME Decomposing, AllTasksQueued, AllTasksDone, UNCHANGED <<decJob, queuedTasks, activeThreads, poolThread, doing>>
  PROVE  PoolInv'
<1>1. /\ queuedTasks' = <<>> /\ activeThreads' = 0 /\ Active = {}
      /\ \A t \in 1 .. decJob.threads : ~HasPart(t) /\ ~HasPart(t)'  BY NobodyWorks DEF AllTasksDone, HasPart
<1>2. DOMAIN queuedTasks' = {} /\ queuedTasks' \in Seq(TasksOf(decJob', decScale', phase'))  BY <1>1
<1>3. QueueFits'  BY <1>2 DEF QueueFits
<1>4. WorkFits'  BY <1>1 DEF WorkFits
<1>5. CountFits'
  <2>1. Active' = {}  BY <1>1 DEF Active
  <2> QED BY <1>1, <2>1, FS_EmptySet DEF CountFits, Active
<1> QED BY <1>1, <1>3, <1>4, <1>5 DEF PoolInv

LEMMA TakingThePhase ==
  ASSUME Decomposing, NextPhase
  PROVE  DecompositionInv'
<1>0. /\ AllTasksQueued /\ AllTasksDone /\ phase < 5 /\ phase' = phase + 1 /\ queuedParts' = 0
      /\ decJob' = decJob /\ decScale' = decScale /\ buffers' = buffers /\ largest' = largest /\ decStage' = decStage
      /\ queuedTasks' = queuedTasks /\ activeThreads' = activeThreads /\ poolThread' = poolThread /\ doing' = doing
      /\ decStage = "decompose"  BY DEF NextPhase, AllTasksQueued, poolVars
<1>1. /\ phase \in 1 .. 4 /\ ProperJob(decJob) /\ decScale \in 0 .. decJob.nScales - 1
  BY <1>0, DecomposingFacts DEF DecTypes
<1>2. DecTypes'  BY <1>0, <1>1, DecomposingFacts DEF DecTypes
<1>3. PoolInv'  BY <1>0, EmptyPool
<1>4. PICK S, L : SmoothingOf(decJob, S) /\ LargestOf(decJob, S, L) /\ DecomposeInv(S)
  BY <1>0, DecomposingFacts DEF ScalesInv
<1>5. buffers[ToOf(decJob, decScale, phase)] = ResultOf(decJob, S, decScale, phase)  BY <1>0, <1>4, PhaseIsMade
<1>6. phase = 1 \/ phase = 2 \/ phase = 3 \/ phase = 4  BY <1>1
<1>7. InputsFit(decJob, S, decScale, phase + 1, buffers)
  BY <1>4, <1>5, <1>6 DEF DecomposeInv, InputsFit, ToOf, ResultOf
<1>8. \A p : ~PartDone(p)'  BY <1>0 DEF PartDone
<1>9. PartsFit(S)'
  <2>1. ASSUME phase + 1 = 5, NEW i PROVE buffers[ToOf(decJob, decScale, 5)][i] = ResultOf(decJob, S, decScale, 4)[i]
    <3>1. phase = 4  BY <1>1, <2>1
    <3> QED BY <1>5, <3>1 DEF ToOf
  <2> QED BY <1>0, <1>8, <2>1 DEF PartsFit
<1>10. ScalesInv'  BY <1>0, <1>4, <1>7, <1>9 DEF ScalesInv, DecomposeInv
<1> QED BY <1>0, <1>2, <1>3, <1>10, DecomposingFacts DEF DecompositionInv

\* When a scale is made, its detail and the convolved image are.
LEMMA ScaleIsMade ==
  ASSUME Decomposing, AllTasksQueued, AllTasksDone, phase = 5, NEW S, SmoothingOf(decJob, S), DecomposeInv(S)
  PROVE  DetailsFit(decJob, S, decScale, buffers) /\ buffers[decJob.nScales] = S[decScale + 1]
<1>1. decScale \in 0 .. decJob.nScales - 1 /\ decStage = "decompose"  BY DecomposingFacts DEF DecTypes, AllTasksQueued
<1>2. buffers[decScale] = ResultOf(decJob, S, decScale, 5)  BY PhaseIsMade DEF ToOf
<1>3. \A s \in 0 .. decScale : s \in 0 .. decScale - 1 \/ s = decScale  BY <1>1
<1> QED BY <1>2, <1>3 DEF DecomposeInv, DetailsFit, InputsFit

LEMMA TakingTheScale ==
  ASSUME Decomposing, NextScale
  PROVE  DecompositionInv'
<1>0. /\ AllTasksQueued /\ AllTasksDone /\ phase = 5 /\ decScale + 1 < decJob.nScales
      /\ phase' = 1 /\ queuedParts' = 0 /\ decScale' = decScale + 1
      /\ buffers' = [buffers EXCEPT ![I0] = buffers[decJob.nScales]]
      /\ decJob' = decJob /\ largest' = largest /\ decStage' = decStage
      /\ queuedTasks' = queuedTasks /\ activeThreads' = activeThreads /\ poolThread' = poolThread /\ doing' = doing
      /\ decStage = "decompose"  BY DEF NextScale, AllTasksQueued, poolVars, I1
<1>1. /\ ProperJob(decJob) /\ decJob.nScales \in Nat \ {0} /\ decScale \in 0 .. decJob.nScales - 1
      /\ buffers \in [-3 .. decJob.nScales -> ImagesOf(decJob)]  BY <1>0, DecomposingFacts DEF DecTypes
<1>2. I0 \in -3 .. decJob.nScales /\ decJob.nScales \in -3 .. decJob.nScales  BY <1>1 DEF I0
<1>3. /\ buffers'[I0] = buffers[decJob.nScales] /\ buffers' \in [-3 .. decJob.nScales -> ImagesOf(decJob)]
      /\ \A x \in -3 .. decJob.nScales : x # I0 => buffers'[x] = buffers[x]  BY <1>0, <1>1, <1>2
<1>4. DecTypes'  BY <1>0, <1>1, <1>3, DecomposingFacts DEF DecTypes
<1>5. PoolInv'  BY <1>0, EmptyPool
<1>6. PICK S, L : SmoothingOf(decJob, S) /\ LargestOf(decJob, S, L) /\ DecomposeInv(S)
  BY <1>0, DecomposingFacts DEF ScalesInv
<1>7. DetailsFit(decJob, S, decScale, buffers) /\ buffers[decJob.nScales] = S[decScale + 1]
  BY <1>0, <1>6, ScaleIsMade
<1>8. InputsFit(decJob, S, decScale + 1, 1, buffers')
  <2>1. decScale + 1 # 0  BY <1>1
  <2> QED BY <1>3, <1>7, <2>1 DEF InputsFit, SourceOf
<1>9. DetailsFit(decJob, S, (decScale + 1) - 1, buffers')
  <2>1. \A s \in 0 .. (decScale + 1) - 1 : s \in 0 .. decScale /\ s # I0 /\ s \in -3 .. decJob.nScales  BY <1>1 DEF I0
  <2> QED BY <1>3, <1>7, <2>1 DEF DetailsFit
<1>10. PartsFit(S)'
  <2>1. \A p : ~PartDone(p)'  BY <1>0 DEF PartDone
  <2> QED BY <1>0, <2>1 DEF PartsFit
<1>11. ScalesInv'  BY <1>0, <1>6, <1>8, <1>9, <1>10 DEF ScalesInv, DecomposeInv
<1> QED BY <1>0, <1>4, <1>5, <1>11, DecomposingFacts DEF DecompositionInv

LEMMA TakingTheLargest ==
  ASSUME Decomposing, Decomposed
  PROVE  DecompositionInv'
<1> DEFINE n == decJob.nScales
           last == IF decJob.includeLargest THEN buffers[n] ELSE Blank
<1>0. /\ AllTasksQueued /\ AllTasksDone /\ phase = 5 /\ decScale + 1 = n
      /\ largest' = buffers[n]
      /\ buffers' = [buffers EXCEPT ![n] = last, ![I0] = last]
      /\ decJob' = decJob /\ decScale' = decScale /\ phase' = phase /\ queuedParts' = queuedParts
      /\ queuedTasks' = queuedTasks /\ activeThreads' = activeThreads /\ poolThread' = poolThread /\ doing' = doing
      /\ decStage = "decompose" /\ decStage' = "recompose"  BY DEF Decomposed, AllTasksQueued, poolVars, I1
<1>1. /\ ProperJob(decJob) /\ n \in Nat \ {0} /\ decScale \in 0 .. n - 1 /\ decScale = n - 1
      /\ buffers \in [-3 .. n -> ImagesOf(decJob)] /\ decJob.includeLargest \in BOOLEAN
  <2>1. ProperJob(decJob) /\ n \in Nat \ {0} /\ DecTypes  BY DecomposingFacts
  <2>2. decScale \in 0 .. n - 1 /\ buffers \in [-3 .. n -> ImagesOf(decJob)]  BY <1>0, <2>1 DEF DecTypes
  <2>3. decScale = n - 1  BY <1>0, <2>1, <2>2
  <2>4. decJob.includeLargest \in BOOLEAN  BY <2>1 DEF ProperJob
  <2> QED BY <2>1, <2>2, <2>3, <2>4
<1>2. /\ I0 \in -3 .. n /\ n \in -3 .. n /\ I0 # n
      /\ \A s \in 0 .. decScale : s \in -3 .. n /\ s # I0 /\ s # n  BY <1>1 DEF I0
<1>3. Blank \in ImagesOf(decJob) /\ Blank = [i \in PixelsOf(decJob) |-> 0]  BY OfTheJob DEF Blank, ImagesOf, Levels
<1>4. last \in ImagesOf(decJob)  BY <1>1, <1>2, <1>3
<1> HIDE DEF last
<1>5. /\ buffers'[I0] = last /\ buffers' \in [-3 .. n -> ImagesOf(decJob)]
      /\ \A x \in -3 .. n : x # I0 /\ x # n => buffers'[x] = buffers[x]  BY <1>0, <1>1, <1>2, <1>4
<1>6. DecTypes'  BY <1>0, <1>1, <1>5, DecomposingFacts DEF DecTypes
<1>7. PoolInv'  BY <1>0, EmptyPool
<1>8. PICK S, L : SmoothingOf(decJob, S) /\ LargestOf(decJob, S, L) /\ DecomposeInv(S)
  BY <1>0, DecomposingFacts DEF ScalesInv
<1>9. DetailsFit(decJob, S, decScale, buffers) /\ buffers[n] = S[n] /\ S[n] = S[decScale + 1]
  BY <1>0, <1>8, ScaleIsMade
<1>10. DetailsFit(decJob, S, decScale, buffers')  BY <1>2, <1>5, <1>9 DEF DetailsFit
<1>11. last = IF decJob.includeLargest THEN S[decScale + 1]
              ELSE DifferenceOf(decJob, S[decScale + 1], L[decScale + 1])
  <2>1. L[n] = S[n] /\ L[n] = L[decScale + 1]  BY <1>0, <1>8 DEF LargestOf
  <2>2. S[n] \in ImagesOf(decJob)  BY <1>1, <1>8 DEF SmoothingOf
  <2>3. DifferenceOf(decJob, S[n], S[n]) = Blank  BY <1>3, <2>2, NothingLeft
  <2> QED BY <1>9, <2>1, <2>3 DEF last
<1>12. ScalesInv'
  <2>1. RecomposeInv(S, L)'  BY <1>0, <1>5, <1>9, <1>10, <1>11 DEF RecomposeInv
  <2> QED BY <1>0, <1>8, <2>1 DEF ScalesInv
<1> QED BY <1>0, <1>6, <1>7, <1>12, DecomposingFacts DEF DecompositionInv

\* The pool of threads that is not used anymore.
LEMMA IdlePool ==
  ASSUME Decomposing, decStage # "decompose", decStage' # "decompose", UNCHANGED <<decJob, queuedTasks, poolThread>>
  PROVE  PoolInv'  BY DecomposingFacts DEF PoolInv, HasPart

LEMMA AddingAScale ==
  ASSUME Decomposing, RecomposeScale
  PROVE  DecompositionInv'
<1> DEFINE n == decJob.nScales
           k == decScale
           out == IF k = n - 1 /\ ~decJob.includeLargest THEN buffers[k]
                  ELSE SumOf(decJob, ConvolvedOf(decJob, buffers[I0], k + 1), buffers[k])
<1>0. /\ decStage = "recompose" /\ k >= 0 /\ buffers' = [buffers EXCEPT ![I0] = out]
      /\ decScale' = decScale - 1
      /\ decJob' = decJob /\ largest' = largest /\ phase' = phase /\ queuedParts' = queuedParts /\ decStage' = decStage
      /\ queuedTasks' = queuedTasks /\ activeThreads' = activeThreads /\ poolThread' = poolThread /\ doing' = doing
  BY OfTheJob DEF RecomposeScale, poolVars
<1>1. /\ ProperJob(decJob) /\ n \in Nat \ {0} /\ k \in 0 .. n - 1
      /\ buffers \in [-3 .. n -> ImagesOf(decJob)] /\ decJob.includeLargest \in BOOLEAN
  BY <1>0, DecomposingFacts DEF DecTypes, ProperJob
<1>2. k \in 0 .. n /\ k + 1 \in 0 .. n /\ k + 1 \in Nat /\ I0 \in -3 .. n /\ k \in -3 .. n  BY <1>1 DEF I0
<1>3. PICK S, L : SmoothingOf(decJob, S) /\ LargestOf(decJob, S, L) /\ RecomposeInv(S, L)
  BY <1>0, DecomposingFacts DEF ScalesInv
<1> DEFINE A == S[k]
           B == S[k + 1]
           C == ConvolvedOf(decJob, B, k + 1)
<1>4. A \in ImagesOf(decJob) /\ B \in ImagesOf(decJob) /\ C \in ImagesOf(decJob)
  BY <1>1, <1>2, <1>3, ImagesAreMade DEF SmoothingOf
<1>5. L[k] \in ImagesOf(decJob) /\ L[k + 1] \in ImagesOf(decJob) /\ L[k] = ConvolvedOf(decJob, L[k + 1], k + 1)
  BY <1>1, <1>2, <1>3 DEF LargestOf
<1>6. buffers[k] = DifferenceOf(decJob, A, C)
  <2>1. k \in 0 .. decScale  BY <1>1
  <2> QED BY <1>3, <2>1 DEF RecomposeInv, DetailsFit, ResultOf
<1>7. buffers[I0] = IF decJob.includeLargest THEN B ELSE DifferenceOf(decJob, B, L[k + 1])  BY <1>3 DEF RecomposeInv
<1>8. out = IF decJob.includeLargest THEN A ELSE DifferenceOf(decJob, A, L[k])
  <2>1. CASE decJob.includeLargest
    <3>1. out = SumOf(decJob, C, DifferenceOf(decJob, A, C))  BY <1>6, <1>7, <2>1
    <3> QED BY <1>4, <2>1, <3>1, AddedAgain
  <2>2. CASE ~decJob.includeLargest /\ k = n - 1
    <3>1. n = k + 1 /\ L[n] = S[n]  BY <1>1, <1>3, <2>2 DEF LargestOf
    <3>2. L[k] = C  BY <1>5, <3>1
    <3> QED BY <1>6, <2>2, <3>2
  <2>3. CASE ~decJob.includeLargest /\ k # n - 1
    <3>1. buffers[I0] = DifferenceOf(decJob, B, L[k + 1])  BY <1>7, <2>3
    <3>2. ConvolvedOf(decJob, buffers[I0], k + 1) = DifferenceOf(decJob, C, L[k])
      BY <1>1, <1>2, <1>4, <1>5, <3>1, ConvolvedDifference
    <3>3. out = SumOf(decJob, DifferenceOf(decJob, C, L[k]), DifferenceOf(decJob, A, C))  BY <1>6, <2>3, <3>2
    <3> HIDE DEF A, C, out
    <3> QED BY <1>4, <1>5, <2>3, <3>3, Cancelled
  <2> QED BY <2>1, <2>2, <2>3
<1>9. out \in ImagesOf(decJob)  BY <1>4, <1>5, <1>8, DifferenceIsImage
<1> HIDE DEF out
<1>10. /\ buffers'[I0] = out /\ buffers' \in [-3 .. n -> ImagesOf(decJob)]
       /\ \A x \in -3 .. n : x # I0 => buffers'[x] = buffers[x]  BY <1>0, <1>1, <1>2, <1>9
<1>11. DecTypes'  BY <1>0, <1>1, <1>10, DecomposingFacts DEF DecTypes
<1>12. PoolInv'  BY <1>0, IdlePool
<1>13. DetailsFit(decJob, S, k - 1, buffers')
  <2>1. \A s \in 0 .. k - 1 : s \in 0 .. k /\ s \in -3 .. n /\ s # I0  BY <1>1 DEF I0
  <2> QED BY <1>3, <1>10, <2>1 DEF RecomposeInv, DetailsFit
<1>14. (k - 1) + 1 = k  BY <1>1
<1>15. RecomposeInv(S, L)'
  <2>1. largest = S[decJob.nScales]  BY <1>3 DEF RecomposeInv
  <2> QED BY <1>0, <1>8, <1>10, <1>13, <1>14, <2>1 DEF RecomposeInv
<1>16. ScalesInv'  BY <1>0, <1>3, <1>15 DEF ScalesInv
<1> QED BY <1>0, <1>11, <1>12, <1>16, DecomposingFacts DEF DecompositionInv

LEMMA EndingThePool ==
  ASSUME Decomposing, DestroyPool \/ JoinThreads
  PROVE  DecompositionInv'
<1>0. /\ decJob' = decJob /\ buffers' = buffers /\ largest' = largest /\ decScale' = decScale /\ phase' = phase
      /\ queuedParts' = queuedParts /\ queuedTasks' = queuedTasks /\ activeThreads' = activeThreads
      /\ poolThread' = poolThread /\ doing' = doing
      /\ decStage \in {"recompose", "join"} /\ decStage' \in {"join", "done"}
  BY DEF DestroyPool, JoinThreads, poolVars
<1>1. DecTypes'  BY <1>0, DecomposingFacts DEF DecTypes
<1>2. PoolInv'  BY <1>0, IdlePool
<1>3. PICK S, L : SmoothingOf(decJob, S) /\ LargestOf(decJob, S, L)  BY DecomposingFacts DEF ScalesInv
<1>4. ScalesInv'  BY <1>0, <1>3 DEF ScalesInv
<1> QED BY <1>0, <1>1, <1>2, <1>4, DecomposingFacts DEF DecompositionInv

----
(* The wavelet decomposition: the theorem *)

LEMMA DecompositionStarts ==
  ASSUME JobsAreProper, DecompositionInit
  PROVE  DecompositionInv
<1> SUFFICES ASSUME ~decJob.inPlace PROVE DecTypes /\ PoolInv /\ ScalesInv  BY DEF DecompositionInit, DecompositionInv
<1>1. /\ decJob \in DecompositionJobs /\ ProperJob(decJob) /\ decJob.nScales \in Nat \ {0}
      /\ decJob.threads \in Nat \ {0} /\ decJob.image \in ImagesOf(decJob)
  BY DEF DecompositionInit, JobsAreProper, ProperJob
<1>2. /\ buffers = [b \in -3 .. decJob.nScales |-> IF b = Input THEN decJob.image ELSE Blank]
      /\ decScale = 0 /\ phase = 1 /\ queuedParts = 0 /\ queuedTasks = <<>> /\ activeThreads = 0
      /\ poolThread = [t \in 1 .. decJob.threads |-> "awake"] /\ doing = [t \in 1 .. decJob.threads |-> NoWaveletTask]
      /\ decStage = "decompose"  BY DEF DecompositionInit, InputBuffer, Pool
<1>3. Blank \in ImagesOf(decJob)  BY OfTheJob DEF Blank, ImagesOf, Levels
<1>4. buffers \in [-3 .. decJob.nScales -> ImagesOf(decJob)] /\ buffers[Input] = decJob.image
  BY <1>1, <1>2, <1>3 DEF Input
<1>5. DecTypes  BY <1>1, <1>2, <1>4 DEF DecTypes, PoolStates
<1>6. \A t \in 1 .. decJob.threads : ~HasPart(t) /\ poolThread[t] \notin {"run", "ran"}  BY <1>2 DEF HasPart
<1>7. PoolInv
  <2>1. DOMAIN queuedTasks = {} /\ queuedTasks \in Seq(TasksOf(decJob, decScale, phase))  BY <1>2
  <2>2. QueueFits /\ WorkFits  BY <1>6, <2>1 DEF QueueFits, WorkFits
  <2>3. {t \in 1 .. decJob.threads : poolThread[t] \in {"run", "ran"}} = {}  BY <1>6
  <2>4. CountFits  BY <1>2, <2>3, FS_EmptySet DEF CountFits
  <2> QED BY <1>2, <2>2, <2>4 DEF PoolInv
<1>8. PICK S, L : SmoothingOf(decJob, S) /\ LargestOf(decJob, S, L)  BY <1>1, ImagesExist DEF HasImages
<1>9. DecomposeInv(S)
  <2>1. InputsFit(decJob, S, decScale, phase, buffers)  BY <1>2, <1>4, <1>8 DEF InputsFit, SourceOf, SmoothingOf
  <2>2. DetailsFit(decJob, S, decScale - 1, buffers)  BY <1>2 DEF DetailsFit
  <2>3. PartsFit(S)  BY <1>2 DEF PartsFit, PartDone
  <2> QED BY <2>1, <2>2, <2>3 DEF DecomposeInv
<1>10. ScalesInv  BY <1>2, <1>8, <1>9 DEF ScalesInv
<1> QED BY <1>5, <1>7, <1>10

LEMMA DecompositionGoesOn ==
  ASSUME JobsAreProper, DecompositionInv, [DecompositionNext]_decompositionVars
  PROVE  DecompositionInv'
<1>1. CASE decJob.inPlace
  <2>1. decJob' = decJob
    BY DEF DecompositionNext, DecompositionCallerStep, PoolThreadStep, DecompositionOver, decompositionVars,
           QueueTask, WaitForAllTasks, NextPhase, NextScale, Decomposed, RecomposeScale, DestroyPool, JoinThreads,
           TakeWaveletTask, ThreadWaits, RunTask, EndTask, ThreadEnds
  <2> QED BY <1>1, <2>1 DEF DecompositionInv
<1>2. CASE ~decJob.inPlace
  <2>0. Decomposing  BY <1>2 DEF Decomposing
  <2>1. CASE \E t \in Pool : PoolThreadStep(t)
    <3>1. PICK t \in 1 .. decJob.threads : PoolThreadStep(t)  BY <2>1 DEF Pool
    <3> QED BY <2>0, <3>1, TakingAPart, ExecutingAPart, EndingAPart, WaitingForATask DEF PoolThreadStep
  <2>2. CASE DecompositionCallerStep
    BY <2>0, <2>2, QueueingAPart, WaitingForATask, TakingThePhase, TakingTheScale, TakingTheLargest, AddingAScale,
       EndingThePool DEF DecompositionCallerStep
  <2>3. CASE DecompositionOver \/ UNCHANGED decompositionVars  BY <2>0, <2>3, WaitingForATask DEF DecompositionOver
  <2> QED BY <2>1, <2>2, <2>3 DEF DecompositionNext
<1> QED BY <1>1, <1>2

\* What Recompose makes of the largest scale.
LEMMA LargestIsRecomposed ==
  ASSUME ProperJob(decJob), NEW S, NEW L, LargestOf(decJob, S, L), largest = S[decJob.nScales]
  PROVE  LargestRecomposed = L[0]
<1> DEFINE n == decJob.nScales
           Recomposed(f) == f = [k \in 0 .. n |-> IF k = 0 THEN largest ELSE Convolve(f[k - 1], n + 1 - k)]
           r == CHOOSE f : Recomposed(f)
           g == [k \in 0 .. n |-> L[n - k]]
<1>1. n \in Nat \ {0} /\ L[n] = largest  BY DEF ProperJob, LargestOf
<1>2. LargestRecomposed = r[n]  BY DEF LargestRecomposed
<1>3. ASSUME NEW k \in 1 .. n PROVE L[n - k] = Convolve(L[n - (k - 1)], n + 1 - k)
  <2>1. n - k \in 0 .. n - 1 /\ n - (k - 1) = (n - k) + 1 /\ n + 1 - k = (n - k) + 1  BY <1>1
  <2>2. L[n - k] = ConvolvedOf(decJob, L[(n - k) + 1], (n - k) + 1)  BY <2>1 DEF LargestOf
  <2> QED BY <2>1, <2>2, OfTheJob
<1>4. Recomposed(g)
  <2>1. ASSUME NEW k \in 0 .. n PROVE g[k] = IF k = 0 THEN largest ELSE Convolve(g[k - 1], n + 1 - k)
    <3>1. CASE k = 0  BY <1>1, <3>1
    <3>2. CASE k # 0
      <4>1. k \in 1 .. n /\ k - 1 \in 0 .. n  BY <1>1, <3>2
      <4>2. g[k] = L[n - k] /\ g[k - 1] = L[n - (k - 1)]  BY <4>1
      <4> HIDE DEF g
      <4> QED BY <1>3, <3>2, <4>1, <4>2
    <3> QED BY <3>1, <3>2
  <2> QED BY <2>1
<1>5. Recomposed(r)
  <2> HIDE DEF Recomposed, g
  <2> QED BY <1>4
<1>6. \A k \in 0 .. n : r[k] = IF k = 0 THEN largest ELSE Convolve(r[k - 1], n + 1 - k)  BY <1>5
<1> HIDE DEF r
<1> DEFINE P == {k \in 0 .. n : r[k] = L[n - k]}
<1>7. 0 \in P  BY <1>1, <1>6
<1>8. ASSUME NEW k \in 0 .. n - 1, k \in P PROVE k + 1 \in P
  <2>1. k + 1 \in 1 .. n /\ k + 1 \in 0 .. n /\ k + 1 # 0 /\ (k + 1) - 1 = k  BY <1>1
  <2>2. r[k + 1] = Convolve(r[k], n + 1 - (k + 1)) /\ r[k] = L[n - k]  BY <1>6, <1>8, <2>1
  <2>3. L[n - (k + 1)] = Convolve(L[n - k], n + 1 - (k + 1))  BY <1>3, <2>1
  <2> QED BY <2>1, <2>2, <2>3
<1>9. \A k \in 0 .. n : k \in P
  <2> HIDE DEF P
  <2>1. \A k \in 0 .. n - 1 : k \in P => k + 1 \in P  BY <1>8
  <2> QED BY <1>1, <1>7, <2>1, Upwards
<1>10. n \in 0 .. n /\ n - n = 0  BY <1>1
<1> QED BY <1>2, <1>9, <1>10

LEMMA ScalesAreComplete ==
  ASSUME JobsAreProper, DecompositionInv
  PROVE  ~decJob.inPlace => DecompositionIsComplete
<1> SUFFICES ASSUME ~decJob.inPlace, decStage = "recompose", decScale = -1
             PROVE  buffers[I0] = IF decJob.includeLargest THEN decJob.image
                                  ELSE [i \in Pixels |-> Modulo(decJob.image[i] - LargestRecomposed[i])]
  BY DEF DecompositionIsComplete
<1>1. Decomposing  BY DEF Decomposing
<1>2. PICK S, L : SmoothingOf(decJob, S) /\ LargestOf(decJob, S, L) /\ RecomposeInv(S, L)
  BY <1>1, DecomposingFacts DEF ScalesInv
<1>3. buffers[I0] = IF decJob.includeLargest THEN S[0] ELSE DifferenceOf(decJob, S[0], L[0])  BY <1>2 DEF RecomposeInv
<1>4. S[0] = decJob.image /\ largest = S[decJob.nScales]  BY <1>2 DEF SmoothingOf, RecomposeInv
<1>5. LargestRecomposed = L[0]  BY <1>1, <1>2, <1>4, DecomposingFacts, LargestIsRecomposed
<1>6. DifferenceOf(decJob, S[0], L[0]) = [i \in Pixels |-> Modulo(decJob.image[i] - LargestRecomposed[i])]
  BY <1>4, <1>5, OfTheJob DEF DifferenceOf
<1> QED BY <1>3, <1>4, <1>6

DecompositionSpec == DecompositionInit /\ [][DecompositionNext]_decompositionVars

\* The scales of an image add up to it (IUWTDecomposition::DecomposeMT and Recompose), whatever the
\* image, the number of scales and the number of threads are and in whatever order the threads of
\* the pool take and finish their parts: when the last scale has been added, the output is the
\* image, or the image without what the scales make of the largest one when that is not asked for.
\* The image is not the scratch image itself.
THEOREM ScalesAddUp ==
  ASSUME JobsAreProper
  PROVE  DecompositionSpec => [](~decJob.inPlace => DecompositionIsComplete)
<1>1. DecompositionInit => DecompositionInv  BY DecompositionStarts
<1>2. DecompositionInv /\ [DecompositionNext]_decompositionVars => DecompositionInv'  BY DecompositionGoesOn
<1>3. DecompositionInv => (~decJob.inPlace => DecompositionIsComplete)  BY ScalesAreComplete
<1> QED BY <1>1, <1>2, <1>3, PTL DEF DecompositionSpec
=============================================================================
