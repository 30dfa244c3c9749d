-------------------------- MODULE LMSPredicterProofs --------------------------
(***************************************************************************)
(* Proofs about the prediction of rows, for any number of threads, rows    *)
(* and buffers and any size of the chunks: the caller gets every row once, *)
(* with the visibilities of that row and of the beam of its time.          *)
(*                                                                         *)
(* The argument: a row that was given away is in exactly one lane, thread  *)
(* or chunk; a buffer carries one row, or is free; and the functions that  *)
(* the reading thread posted are all waiting at the barrier, with nothing  *)
(* left in the lane, when it is let through to replace the beam.           *)
(***************************************************************************)
EXTENDS LMSPredicter, FiniteSetTheorems, SequenceTheorems, TLAPS

----
\* Sequences of rows and of buffers.
Elems(s) == {s[i] : i \in DOMAIN s}
Once(s) == \A i, j \in DOMAIN s : s[i] = s[j] => i = j
RowsOnce(s) == \A i, j \in DOMAIN s : s[i].row = s[j].row => i = j
HasRow(s, r) == \E i \in DOMAIN s : s[i].row = r

----
\* The inductive invariant.
Places == {"idle", "read", "predict", "barrier"}
ReaderPlaces ==
  {"next", "stop threads", "wait for threads", "calculate beam", "take buffer", "stop all", "wait for the end", "gone"}
Item == [row : PredictRows, buffer : PredictBuffers]

PredicterTypes ==
  /\ predictJob \in PredictJobs
  /\ reader \in ReaderPlaces
  /\ nextRow \in 1 .. Len(predictJob.rows) + 1
  /\ beam \in Nat
  /\ posted \in Nat
  /\ predicter \in [PredictThreads -> [at : Places, item : Item \cup {NoRow}, round : Nat, seen : Nat]]
  /\ workLane \in Seq(Item) /\ workEnded \in BOOLEAN
  /\ outputLane \in Seq(Item) /\ outputEnded \in BOOLEAN
  /\ freeLane \in Seq(PredictBuffers)
  /\ arrived \in Nat /\ round \in Nat /\ readerRound \in Nat
  /\ contents \in [PredictBuffers -> [row : Nat, beam : SUBSET Nat]]
  /\ consumer \in {"get", "use", "done"}
  /\ readChunk \in Seq(Item)
  /\ givenChunk \in Seq(PredictBuffers)
  /\ delivered \in Seq([row : PredictRows, found : [row : Nat, beam : SUBSET Nat]])

\* The reading thread waits in the present round of the barrier, as do the threads that have
\* ended their function in it.
ReaderWaits == reader \in {"wait for threads", "wait for the end"} /\ readerRound = round
Waits(t) == predicter[t].at = "barrier" /\ predicter[t].round = round
Waiting == {t \in PredictThreads : Waits(t)}
Runs(t) == predicter[t].at \in {"read", "predict"}
Engaged == {t \in PredictThreads : Runs(t) \/ Waits(t)}

\* The functions of this round are posted, running, or waiting at its end ...
Active ==
  /\ ~ predictJob.modelColumn
  /\ reader \in {"next", "take buffer", "stop threads", "stop all"} \/ ReaderWaits

\* ... otherwise there are none, and the lane is empty.
Meeting ==
  /\ arrived = Cardinality(Waiting) + (IF ReaderWaits THEN 1 ELSE 0)
  /\ \A t \in PredictThreads : predicter[t].round <= round
  /\ reader \in {"wait for threads", "wait for the end"} => readerRound <= round
  /\ Active => posted + Cardinality(Engaged) = Cardinality(PredictThreads)
  /\ ~ Active => posted = 0 /\ Engaged = {} /\ workLane = <<>>
  /\ Waiting # {} => workLane = <<>> /\ workEnded
  /\ ~ predictJob.modelColumn => (workEnded <=> reader \notin {"next", "take buffer", "calculate beam"})
  /\ predictJob.modelColumn => reader \in {"next", "take buffer", "gone"}

\* Where the reading thread is in the rows.
Reading ==
  /\ reader \in {"stop threads", "wait for threads", "calculate beam", "take buffer"} =>
       nextRow \in PredictRows /\ predictJob.rows[nextRow].cross
  /\ reader \in {"stop all", "wait for the end", "gone"} => nextRow \notin PredictRows
  /\ outputEnded <=> reader = "gone"

\* A row that was given away is in one place.
HeldBy(t, r) == predicter[t].at = "predict" /\ predicter[t].item.row = r
IsHeld(r) == \E t \in PredictThreads : HeldBy(t, r)
Given(r) == r \in CrossRows /\ r < nextRow
Stages ==
  /\ \A r \in PredictRows :
       /\ Given(r) <=> HasRow(workLane, r) \/ IsHeld(r) \/ HasRow(outputLane, r) \/ HasRow(readChunk, r)
                         \/ HasRow(delivered, r)
       /\ HasRow(workLane, r) => ~ IsHeld(r) /\ ~ HasRow(outputLane, r)
       /\ HasRow(workLane, r) \/ IsHeld(r) => ~ HasRow(readChunk, r) /\ ~ HasRow(delivered, r)
       /\ HasRow(outputLane, r) => ~ IsHeld(r) /\ ~ HasRow(readChunk, r) /\ ~ HasRow(delivered, r)
       /\ HasRow(readChunk, r) => ~ HasRow(delivered, r)
  /\ RowsOnce(workLane) /\ RowsOnce(outputLane) /\ RowsOnce(readChunk) /\ RowsOnce(delivered)
  /\ \A t, u \in PredictThreads, r \in PredictRows : HeldBy(t, r) /\ HeldBy(u, r) => t = u

\* A buffer is free, given back, or carries the visibilities of one row.
HeldItems == {predicter[t].item : t \in {u \in PredictThreads : predicter[u].at = "predict"}}
Carried == Elems(workLane) \cup HeldItems \cup Elems(outputLane) \cup Elems(readChunk)
Buffers ==
  /\ Carried \subseteq Item
  /\ \A x, y \in Carried : x.buffer = y.buffer => x = y
  /\ \A x \in Carried : x.buffer \notin Elems(freeLane) /\ x.buffer \notin Elems(givenChunk)
  /\ Elems(freeLane) \cap Elems(givenChunk) = {}
  /\ Once(freeLane) /\ Once(givenChunk)

\* With a beam, rows are on their way to the output only while their beam is the present one,
\* and what was put in the output was predicted with it.
UsesBeam == predictJob.applyBeam /\ ~ predictJob.modelColumn
Found(found, r) == found.row = r /\ (UsesBeam => found.beam = {TimeOf(r)})
RightBeam ==
  /\ UsesBeam =>
       /\ reader = "take buffer" => beam = TimeOf(nextRow)
       /\ \A x \in Elems(workLane) : TimeOf(x.row) = beam
       /\ \A t \in PredictThreads :
            predicter[t].at = "predict" => predicter[t].seen = beam /\ TimeOf(predicter[t].item.row) = beam
  /\ \A x \in Elems(outputLane) \cup Elems(readChunk) : Found(contents[x.buffer], x.row)
  /\ \A i \in DOMAIN delivered : Found(delivered[i].found, delivered[i].row)

\* Where the caller is.
Using ==
  /\ consumer = "use" => readChunk # <<>>
  /\ consumer = "done" => reader = "gone" /\ outputLane = <<>> /\ readChunk = <<>>

PredicterInv ==
  PredicterTypes /\ Meeting /\ Reading /\ Stages /\ Buffers /\ RightBeam /\ Using

----
(* Lemmas about sequences *)

LEMMA EmptyParts ==
  /\ Elems(<<>>) = {} /\ Once(<<>>) /\ RowsOnce(<<>>)
  /\ \A r : ~ HasRow(<<>>, r)
<1>1. DOMAIN <<>> = {}  OBVIOUS
<1>2. QED BY <1>1, Zenon DEF Elems, Once, RowsOnce, HasRow

LEMMA ElemsType ==
  ASSUME NEW S, NEW s \in Seq(S)
  PROVE  Elems(s) \subseteq S  BY ElementOfSeq, LenProperties DEF Elems

LEMMA RowOfElem ==
  ASSUME NEW s, NEW x \in Elems(s)
  PROVE  HasRow(s, x.row)  BY DEF Elems, HasRow

\* What is taken from a lane leaves it.
LEMMA TailParts ==
  ASSUME NEW S, NEW s \in Seq(S), s # <<>>
  PROVE  /\ Head(s) \in S /\ Tail(s) \in Seq(S)
         /\ Elems(s) = Elems(Tail(s)) \cup {Head(s)}
         /\ HasRow(s, Head(s).row)
         /\ Once(s) => Once(Tail(s)) /\ Head(s) \notin Elems(Tail(s))
         /\ RowsOnce(s) => /\ RowsOnce(Tail(s))
                           /\ \A r : HasRow(Tail(s), r) <=> HasRow(s, r) /\ r # Head(s).row
<1>1. /\ Len(s) \in Nat \ {0} /\ DOMAIN s = 1 .. Len(s)
      /\ Head(s) = s[1] /\ Tail(s) \in Seq(S)
      /\ DOMAIN Tail(s) = 1 .. Len(s) - 1
      /\ \A i \in 1 .. Len(s) - 1 : Tail(s)[i] = s[i + 1]  BY HeadTailProperties, LenProperties, EmptySeq
<1>2. 1 \in DOMAIN s /\ s[1] \in S  BY <1>1, ElementOfSeq
<1>3. \A i \in DOMAIN Tail(s) : i + 1 \in DOMAIN s /\ Tail(s)[i] = s[i + 1] /\ i + 1 # 1  BY <1>1
<1>4. \A j \in DOMAIN s : j # 1 => j - 1 \in DOMAIN Tail(s) /\ Tail(s)[j - 1] = s[j]
  <2> TAKE j \in DOMAIN s
  <2> HAVE j # 1
  <2>1. j - 1 \in 1 .. Len(s) - 1 /\ (j - 1) + 1 = j  BY <1>1
  <2>2. QED BY <1>1, <2>1
<1>5. Elems(s) = Elems(Tail(s)) \cup {Head(s)}  BY <1>1, <1>2, <1>3, <1>4 DEF Elems
<1>6. HasRow(s, Head(s).row)  BY <1>1, <1>2 DEF HasRow
<1>7. ASSUME Once(s) PROVE Once(Tail(s)) /\ Head(s) \notin Elems(Tail(s))
  <2>1. \A i, j \in DOMAIN Tail(s) : i + 1 = j + 1 => i = j  BY <1>1
  <2>2. QED BY <1>1, <1>2, <1>3, <1>7, <2>1 DEF Once, Elems
<1>8. ASSUME RowsOnce(s) PROVE RowsOnce(Tail(s))
  <2>1. \A i, j \in DOMAIN Tail(s) : i + 1 = j + 1 => i = j  BY <1>1
  <2>2. QED BY <1>1, <1>2, <1>3, <1>8, <2>1 DEF RowsOnce
<1>9. ASSUME RowsOnce(s), NEW r
      PROVE  HasRow(Tail(s), r) <=> HasRow(s, r) /\ r # Head(s).row
  <2>1. ASSUME NEW i \in DOMAIN Tail(s), Tail(s)[i].row = r
        PROVE  HasRow(s, r) /\ r # Head(s).row  BY <1>1, <1>2, <1>3, <1>9, <2>1 DEF HasRow, RowsOnce
  <2>2. ASSUME NEW j \in DOMAIN s, s[j].row = r, r # Head(s).row PROVE HasRow(Tail(s), r)
    BY <1>1, <1>4, <2>2 DEF HasRow
  <2>3. QED BY <2>1, <2>2 DEF HasRow
<1>10. QED BY <1>1, <1>2, <1>5, <1>6, <1>7, <1>8, <1>9

\* What is written to a lane is added to it.
LEMMA AppendParts ==
  ASSUME NEW S, NEW s \in Seq(S), NEW e \in S
  PROVE  /\ Append(s, e) \in Seq(S)
         /\ Elems(Append(s, e)) = Elems(s) \cup {e}
         /\ Once(s) /\ e \notin Elems(s) => Once(Append(s, e))
         /\ \A r : HasRow(Append(s, e), r) <=> HasRow(s, r) \/ r = e.row
         /\ RowsOnce(s) /\ ~ HasRow(s, e.row) => RowsOnce(Append(s, e))
<1> DEFINE t == Append(s, e)
<1>1. /\ Len(s) \in Nat /\ DOMAIN s = 1 .. Len(s) /\ t \in Seq(S)
      /\ DOMAIN t = 1 .. Len(s) + 1
      /\ \A i \in 1 .. Len(s) : t[i] = s[i]
      /\ t[Len(s) + 1] = e  BY AppendProperties, LenProperties
<1> HIDE DEF t
<1>2. \A i \in DOMAIN s : i \in DOMAIN t /\ t[i] = s[i]  BY <1>1
<1>3. \A i \in DOMAIN t : i \in DOMAIN s \/ i = Len(s) + 1  BY <1>1
<1>4. Len(s) + 1 \in DOMAIN t  BY <1>1
<1>5. Elems(t) = Elems(s) \cup {e}  BY <1>1, <1>2, <1>3, <1>4 DEF Elems
<1>6. ASSUME Once(s), e \notin Elems(s) PROVE Once(t)  BY <1>1, <1>2, <1>3, <1>6 DEF Once, Elems
<1>7. \A r : HasRow(t, r) <=> HasRow(s, r) \/ r = e.row  BY <1>1, <1>2, <1>3, <1>4 DEF HasRow
<1>8. ASSUME RowsOnce(s), ~ HasRow(s, e.row) PROVE RowsOnce(t)  BY <1>1, <1>2, <1>3, <1>8 DEF RowsOnce, HasRow
<1>9. QED BY <1>1, <1>5, <1>6, <1>7, <1>8 DEF t

\* A chunk that is given back.
LEMMA ConcatParts ==
  ASSUME NEW S, NEW a \in Seq(S), NEW b \in Seq(S)
  PROVE  /\ a \o b \in Seq(S)
         /\ Elems(a \o b) = Elems(a) \cup Elems(b)
         /\ Once(a) /\ Once(b) /\ Elems(a) \cap Elems(b) = {} => Once(a \o b)
<1> DEFINE c == a \o b
<1>1. /\ Len(a) \in Nat /\ Len(b) \in Nat /\ DOMAIN a = 1 .. Len(a) /\ DOMAIN b = 1 .. Len(b)
      /\ c \in Seq(S) /\ DOMAIN c = 1 .. Len(a) + Len(b)
      /\ \A i \in DOMAIN c : c[i] = IF i <= Len(a) THEN a[i] ELSE b[i - Len(a)]  BY ConcatProperties, LenProperties
<1> HIDE DEF c
<1>2. \A i \in DOMAIN a : i \in DOMAIN c /\ c[i] = a[i]  BY <1>1
<1>3. \A i \in DOMAIN b : Len(a) + i \in DOMAIN c /\ c[Len(a) + i] = b[i]
  <2> TAKE i \in DOMAIN b
  <2>1. Len(a) + i \in DOMAIN c /\ ~ (Len(a) + i <= Len(a)) /\ (Len(a) + i) - Len(a) = i  BY <1>1
  <2>2. QED BY <1>1, <2>1
<1>4. \A i \in DOMAIN c : \/ i \in DOMAIN a /\ c[i] = a[i]
                          \/ i - Len(a) \in DOMAIN b /\ c[i] = b[i - Len(a)]  BY <1>1
<1>5. Elems(c) = Elems(a) \cup Elems(b)  BY <1>2, <1>3, <1>4 DEF Elems
<1>6. ASSUME Once(a), Once(b), Elems(a) \cap Elems(b) = {} PROVE Once(c)
  <2>1. \A i, j \in DOMAIN c : i - Len(a) = j - Len(a) => i = j  BY <1>1
  <2>2. SUFFICES ASSUME NEW i \in DOMAIN c, NEW j \in DOMAIN c, c[i] = c[j] PROVE i = j  BY DEF Once
  <2>3. CASE i \in DOMAIN a /\ c[i] = a[i] /\ j \in DOMAIN a /\ c[j] = a[j]  BY <1>6, <2>2, <2>3 DEF Once
  <2>4. CASE i - Len(a) \in DOMAIN b /\ c[i] = b[i - Len(a)] /\ j - Len(a) \in DOMAIN b /\ c[j] = b[j - Len(a)]
    BY <1>6, <2>1, <2>2, <2>4 DEF Once
  <2>5. QED BY <1>4, <1>6, <2>2, <2>3, <2>4 DEF Elems
<1>7. QED BY <1>1, <1>5, <1>6 DEF c

(* Lemmas about the rows and the threads *)

LEMMA RowFacts ==
  ASSUME PredicterTypes
  PROVE  /\ Len(predictJob.rows) \in Nat \ {0}
         /\ PredictRows = 1 .. Len(predictJob.rows)
         /\ \A r \in PredictRows : TimeOf(r) \in Nat /\ predictJob.rows[r].cross \in BOOLEAN
         /\ predictJob.applyBeam \in BOOLEAN /\ predictJob.modelColumn \in BOOLEAN
         /\ PredictBuffers \subseteq Nat
         /\ NoRow \notin Item
<1>1. /\ predictJob.rows \in Seq([time : Nat, cross : BOOLEAN]) /\ predictJob.rows # <<>>
      /\ predictJob.applyBeam \in BOOLEAN /\ predictJob.modelColumn \in BOOLEAN
  BY PredictAssumption DEF PredictAssumption, PredicterTypes
<1>2. Len(predictJob.rows) \in Nat \ {0} /\ PredictRows = 1 .. Len(predictJob.rows)
  BY <1>1, LenProperties, EmptySeq DEF PredictRows
<1>3. \A r \in PredictRows : predictJob.rows[r] \in [time : Nat, cross : BOOLEAN]  BY <1>1, <1>2, ElementOfSeq
<1>4. \A r \in PredictRows : TimeOf(r) \in Nat /\ predictJob.rows[r].cross \in BOOLEAN  BY <1>3 DEF TimeOf
<1>5. PredictBuffers \subseteq Nat  BY PredictAssumption DEF PredictAssumption, PredictBuffers
<1>6. NoRow \notin Item  BY <1>2 DEF NoRow, Item
<1>7. QED BY <1>1, <1>2, <1>4, <1>5, <1>6

LEMMA ThreadNumber ==
  /\ Cardinality(PredictThreads) \in Nat \ {0}
  /\ Cardinality({}) = 0
  /\ \A S \in SUBSET PredictThreads :
       /\ Cardinality(S) \in Nat /\ Cardinality(S) <= Cardinality(PredictThreads)
       /\ Cardinality(S) = Cardinality(PredictThreads) => S = PredictThreads
       /\ \A t \in PredictThreads \ S : Cardinality(S \cup {t}) = Cardinality(S) + 1
<1>1. IsFiniteSet(PredictThreads) /\ PredictThreads # {}  BY PredictAssumption DEF PredictAssumption
<1>2. Cardinality(PredictThreads) \in Nat \ {0} /\ Cardinality({}) = 0  BY <1>1, FS_CardinalityType, FS_EmptySet
<1>3. ASSUME NEW S \in SUBSET PredictThreads
      PROVE  /\ IsFiniteSet(S) /\ Cardinality(S) \in Nat /\ Cardinality(S) <= Cardinality(PredictThreads)
             /\ Cardinality(S) = Cardinality(PredictThreads) => S = PredictThreads
  BY <1>1, FS_Subset, FS_CardinalityType
<1>4. ASSUME NEW S \in SUBSET PredictThreads, NEW t \in PredictThreads \ S
      PROVE  Cardinality(S \cup {t}) = Cardinality(S) + 1  BY <1>3, FS_AddElement
<1>5. QED BY <1>2, <1>3, <1>4

----
(* What a step leaves alone *)

LEMMA MeetingFrame ==
  ASSUME Meeting,
         UNCHANGED <<predictJob, reader, posted, workLane, workEnded, arrived, round, readerRound>>,
         \A t \in PredictThreads : /\ Waits(t)' = Waits(t) /\ Runs(t)' = Runs(t)
                                   /\ predicter'[t].round <= round
  PROVE  Meeting'
<1>1. Waiting' = Waiting /\ Engaged' = Engaged  BY DEF Waiting, Engaged
<1>2. ReaderWaits' = ReaderWaits /\ Active' = Active  BY DEF ReaderWaits, Active
<1>3. QED BY <1>1, <1>2 DEF Meeting

LEMMA StagesFrame ==
  ASSUME Stages,
         UNCHANGED <<workLane, outputLane, readChunk, delivered, predictJob>>,
         \A r \in PredictRows : Given(r)' = Given(r),
         \A t \in PredictThreads, r \in PredictRows : HeldBy(t, r)' = HeldBy(t, r)
  PROVE  Stages'
<1>1. PredictRows' = PredictRows  BY DEF PredictRows
<1>2. \A r \in PredictRows : IsHeld(r)' = IsHeld(r)  BY DEF IsHeld
<1>3. QED BY <1>1, <1>2 DEF Stages

LEMMA BuffersFrame ==
  ASSUME Buffers, UNCHANGED <<predictJob, freeLane, givenChunk>>, Carried' = Carried
  PROVE  Buffers'  BY DEF Buffers, Item, PredictRows

LEMMA GivenFrame ==
  ASSUME UNCHANGED <<predictJob, nextRow>>, NEW r
  PROVE  Given(r)' = Given(r)  BY DEF Given, CrossRows, PredictRows

LEMMA RightBeamFrame ==
  ASSUME RightBeam, reader' = "take buffer" => reader = "take buffer",
         UNCHANGED <<predictJob, nextRow, beam, workLane, outputLane, readChunk, contents, delivered>>,
         \A t \in PredictThreads : predicter'[t].at = "predict" =>
            predicter[t].at = "predict" /\ predicter'[t].seen = predicter[t].seen
              /\ predicter'[t].item = predicter[t].item
  PROVE  RightBeam'
<1>1. UsesBeam' = UsesBeam /\ (\A r : TimeOf(r)' = TimeOf(r))  BY DEF UsesBeam, TimeOf
<1>2. \A found, r : Found(found, r)' = Found(found, r)  BY <1>1 DEF Found
<1>3. QED BY <1>1, <1>2 DEF RightBeam

LEMMA ReadingFrame ==
  ASSUME Reading, UNCHANGED <<predictJob, reader, nextRow, outputEnded>>
  PROVE  Reading'  BY DEF Reading, PredictRows

\* A step of the reading thread that moves neither rows nor threads.
LEMMA ReaderStepKeeps ==
  ASSUME PredicterInv, UNCHANGED <<predictJob, predicter, workLane, outputLane, freeLane, contents,
                                   readChunk, givenChunk, delivered>>
  PROVE  /\ UNCHANGED nextRow => Stages'
         /\ Buffers'
<1>1. ASSUME UNCHANGED nextRow PROVE Stages'
  <2>1. \A r \in PredictRows : Given(r)' = Given(r)  BY <1>1, GivenFrame
  <2>2. \A t \in PredictThreads, r \in PredictRows : HeldBy(t, r)' = HeldBy(t, r)  BY DEF HeldBy
  <2>3. QED BY <2>1, <2>2, StagesFrame DEF PredicterInv
<1>2. Carried' = Carried  BY DEF Carried, HeldItems, Elems
<1>3. Buffers'  BY <1>2, BuffersFrame DEF PredicterInv
<1>4. QED BY <1>1, <1>3

----
(* Steps of the reading thread *)

LEMMA SkipAutoCorrelationKeeps ==
  ASSUME PredicterInv, SkipAutoCorrelation
  PROVE  PredicterInv'
<1> USE DEF predictLaneVars, predictBarrierVars, consumerVars
<1>0. /\ reader = "next" /\ nextRow \in PredictRows /\ ~ predictJob.rows[nextRow].cross
      /\ nextRow' = nextRow + 1
      /\ UNCHANGED <<predictJob, reader, beam, posted, predicter, workLane, workEnded, outputLane, outputEnded,
                     freeLane, arrived, round, readerRound, contents, consumer, readChunk, givenChunk, delivered>>
  BY DEF SkipAutoCorrelation
<1>1. PredicterTypes'
  <2>1. nextRow + 1 \in 1 .. Len(predictJob.rows) + 1  BY <1>0, RowFacts DEF PredicterInv
  <2>2. PredictRows' = PredictRows /\ Item' = Item  BY <1>0 DEF PredictRows, Item
  <2>3. QED BY <1>0, <2>1, <2>2 DEF PredicterInv, PredicterTypes
<1>2. Meeting'  BY <1>0, MeetingFrame DEF PredicterInv, Meeting, Waits, Runs
<1>3. Reading'  BY <1>0 DEF PredicterInv, Reading
<1>4. Stages'
  <2>1. \A r \in PredictRows : Given(r)' = Given(r)
    <3> TAKE r \in PredictRows
    <3>1. r \in Nat /\ nextRow \in Nat  BY <1>0, RowFacts DEF PredicterInv
    <3>2. CrossRows' = CrossRows /\ nextRow \notin CrossRows  BY <1>0 DEF CrossRows, PredictRows
    <3>3. QED BY <1>0, <3>1, <3>2 DEF Given
  <2>2. \A t \in PredictThreads, r \in PredictRows : HeldBy(t, r)' = HeldBy(t, r)  BY <1>0 DEF HeldBy
  <2>3. QED BY <1>0, <2>1, <2>2, StagesFrame DEF PredicterInv
<1>5. Buffers'  BY <1>0, ReaderStepKeeps
<1>6. RightBeam'
  <2>1. UsesBeam' = UsesBeam /\ (\A r : TimeOf(r)' = TimeOf(r))  BY <1>0 DEF UsesBeam, TimeOf
  <2>2. \A found, r : Found(found, r)' = Found(found, r)  BY <2>1 DEF Found
  <2>3. QED BY <1>0, <2>1, <2>2 DEF PredicterInv, RightBeam
<1>7. Using'  BY <1>0 DEF PredicterInv, Using
<1>8. QED BY <1>1, <1>2, <1>3, <1>4, <1>5, <1>6, <1>7 DEF PredicterInv

\* A step that changes only where the reading thread is and what it announces.
LEMMA ReaderGoesTypes ==
  ASSUME PredicterInv, reader' \in ReaderPlaces, workEnded' \in BOOLEAN, outputEnded' \in BOOLEAN,
         UNCHANGED <<predictJob, nextRow, beam, posted, predicter, workLane, outputLane, freeLane,
                     arrived, round, readerRound, contents, consumer, readChunk, givenChunk, delivered>>
  PROVE  PredicterTypes'
<1>1. PredictRows' = PredictRows /\ Item' = Item  BY DEF PredictRows, Item
<1>2. QED BY <1>1 DEF PredicterInv, PredicterTypes

LEMMA ReadCrossCorrelationKeeps ==
  ASSUME PredicterInv, ReadCrossCorrelation
  PROVE  PredicterInv'
<1> USE DEF predictLaneVars, predictBarrierVars, consumerVars
<1>0. /\ reader = "next" /\ nextRow \in PredictRows /\ predictJob.rows[nextRow].cross
      /\ \/ reader' = "stop threads" /\ workEnded' = TRUE /\ BeamIsOld
         \/ reader' = "take buffer" /\ workEnded' = workEnded /\ ~ BeamIsOld
      /\ UNCHANGED <<predictJob, nextRow, beam, posted, predicter, workLane, outputLane, outputEnded,
                     freeLane, arrived, round, readerRound, contents, consumer, readChunk, givenChunk, delivered>>
  BY DEF ReadCrossCorrelation
<1>1. PredicterTypes'
  <2>1. reader' \in ReaderPlaces /\ workEnded' \in BOOLEAN /\ outputEnded' \in BOOLEAN
    BY <1>0 DEF ReaderPlaces, PredicterInv, PredicterTypes
  <2>2. QED BY <1>0, <2>1, ReaderGoesTypes
<1>2. Meeting'
  <2>1. Waiting' = Waiting /\ Engaged' = Engaged  BY <1>0 DEF Waiting, Engaged, Waits, Runs
  <2>2. ~ ReaderWaits /\ ~ ReaderWaits'  BY <1>0 DEF ReaderWaits
  <2>3. Active' = Active  BY <1>0, <2>2 DEF Active
  <2>4. BeamIsOld => ~ predictJob.modelColumn  BY DEF BeamIsOld
  <2>5. QED
    <3>1. CASE BeamIsOld /\ reader' = "stop threads" /\ workEnded' = TRUE
      BY <1>0, <2>1, <2>2, <2>3, <2>4, <3>1 DEF PredicterInv, Meeting
    <3>2. CASE reader' = "take buffer" /\ workEnded' = workEnded
      BY <1>0, <2>1, <2>2, <2>3, <3>2 DEF PredicterInv, Meeting
    <3>3. QED BY <1>0, <3>1, <3>2
<1>3. Reading'  BY <1>0 DEF PredicterInv, Reading, PredictRows
<1>4. Stages' /\ Buffers'  BY <1>0, ReaderStepKeeps
<1>6. RightBeam'
  <2>1. UsesBeam' = UsesBeam /\ (\A r : TimeOf(r)' = TimeOf(r))  BY <1>0 DEF UsesBeam, TimeOf
  <2>2. \A found, r : Found(found, r)' = Found(found, r)  BY <2>1 DEF Found
  <2>3. UsesBeam /\ reader' = "take buffer" => beam = TimeOf(nextRow)
    BY <1>0, RowFacts DEF UsesBeam, BeamIsOld, PredicterInv
  <2>4. QED BY <1>0, <2>1, <2>2, <2>3 DEF PredicterInv, RightBeam
<1>7. Using'  BY <1>0 DEF PredicterInv, Using
<1>8. QED BY <1>1, <1>2, <1>3, <1>4, <1>6, <1>7 DEF PredicterInv

LEMMA NoMoreRowsKeeps ==
  ASSUME PredicterInv, NoMoreRows
  PROVE  PredicterInv'
<1> USE DEF predictLaneVars, predictBarrierVars, consumerVars
<1>0. /\ reader = "next" /\ nextRow \notin PredictRows
      /\ \/ predictJob.modelColumn /\ outputEnded' = TRUE /\ reader' = "gone" /\ workEnded' = workEnded
         \/ ~ predictJob.modelColumn /\ workEnded' = TRUE /\ reader' = "stop all" /\ outputEnded' = outputEnded
      /\ UNCHANGED <<predictJob, nextRow, beam, posted, predicter, workLane, outputLane,
                     freeLane, arrived, round, readerRound, contents, consumer, readChunk, givenChunk, delivered>>
  BY DEF NoMoreRows
<1>1. PredicterTypes'
  <2>1. reader' \in ReaderPlaces /\ workEnded' \in BOOLEAN /\ outputEnded' \in BOOLEAN
    BY <1>0 DEF ReaderPlaces, PredicterInv, PredicterTypes
  <2>2. QED BY <1>0, <2>1, ReaderGoesTypes
<1>2. Meeting'
  <2>1. Waiting' = Waiting /\ Engaged' = Engaged  BY <1>0 DEF Waiting, Engaged, Waits, Runs
  <2>2. ~ ReaderWaits /\ ~ ReaderWaits'  BY <1>0 DEF ReaderWaits
  <2>3. Active' = Active  BY <1>0, <2>2 DEF Active
  <2>5. QED
    <3>1. CASE predictJob.modelColumn /\ reader' = "gone" /\ workEnded' = workEnded
      BY <1>0, <2>1, <2>2, <2>3, <3>1 DEF PredicterInv, Meeting
    <3>2. CASE ~ predictJob.modelColumn /\ reader' = "stop all" /\ workEnded' = TRUE
      BY <1>0, <2>1, <2>2, <2>3, <3>2 DEF PredicterInv, Meeting
    <3>3. QED BY <1>0, <3>1, <3>2
<1>3. Reading'
  <2>1. CASE outputEnded' = TRUE /\ reader' = "gone"  BY <1>0, <2>1 DEF PredicterInv, Reading, PredictRows
  <2>2. CASE reader' = "stop all" /\ outputEnded' = outputEnded  BY <1>0, <2>2 DEF PredicterInv, Reading, PredictRows
  <2>3. QED BY <1>0, <2>1, <2>2
<1>4. Stages' /\ Buffers'  BY <1>0, ReaderStepKeeps
<1>6. RightBeam'  BY <1>0, RightBeamFrame DEF PredicterInv
<1>7. Using'  BY <1>0 DEF PredicterInv, Using
<1>8. QED BY <1>1, <1>2, <1>3, <1>4, <1>6, <1>7 DEF PredicterInv

LEMMA JoinPredictersKeeps ==
  ASSUME PredicterInv, JoinPredicters
  PROVE  PredicterInv'
<1> USE DEF predictLaneVars, predictBarrierVars, consumerVars
<1>0. /\ reader = "wait for the end" /\ round > readerRound
      /\ outputEnded' = TRUE /\ reader' = "gone"
      /\ UNCHANGED <<predictJob, nextRow, beam, posted, predicter, workLane, workEnded, outputLane,
                     freeLane, arrived, round, readerRound, contents, consumer, readChunk, givenChunk, delivered>>
  BY DEF JoinPredicters
<1>1. PredicterTypes'
  <2>1. reader' \in ReaderPlaces /\ workEnded' \in BOOLEAN /\ outputEnded' \in BOOLEAN
    BY <1>0 DEF ReaderPlaces, PredicterInv, PredicterTypes
  <2>2. QED BY <1>0, <2>1, ReaderGoesTypes
<1>2. Meeting'
  <2>1. Waiting' = Waiting /\ Engaged' = Engaged  BY <1>0 DEF Waiting, Engaged, Waits, Runs
  <2>2. readerRound # round
    <3>1. round \in Nat /\ readerRound \in Nat  BY DEF PredicterInv, PredicterTypes
    <3>2. round > readerRound  BY <1>0
    <3>3. QED BY <3>1, <3>2
  <2>3. ~ ReaderWaits /\ ~ ReaderWaits'  BY <1>0, <2>2 DEF ReaderWaits
  <2>4. ~ Active /\ ~ Active'  BY <1>0, <2>3 DEF Active
  <2>5. QED BY <1>0, <2>1, <2>3, <2>4 DEF PredicterInv, Meeting
<1>3. Reading'  BY <1>0 DEF PredicterInv, Reading, PredictRows
<1>4. Stages' /\ Buffers'  BY <1>0, ReaderStepKeeps
<1>6. RightBeam'  BY <1>0, RightBeamFrame DEF PredicterInv
<1>7. Using'  BY <1>0 DEF PredicterInv, Using
<1>8. QED BY <1>1, <1>2, <1>3, <1>4, <1>6, <1>7 DEF PredicterInv

\* The reading thread comes to the barrier; when it is the last one, all functions have ended.
LEMMA ReaderAtBarrierKeeps ==
  ASSUME PredicterInv, ReaderAtBarrier
  PROVE  PredicterInv'
<1> USE DEF predictLaneVars, predictBarrierVars, consumerVars
<1>0. /\ \/ reader = "stop all" /\ reader' = "wait for the end"
         \/ reader = "stop threads" /\ reader' = "wait for threads"
      /\ \/ arrived + 1 = Everybody /\ arrived' = 0 /\ round' = round + 1
         \/ arrived + 1 # Everybody /\ arrived' = arrived + 1 /\ round' = round
      /\ readerRound' = round
      /\ UNCHANGED <<predictJob, nextRow, beam, posted, predicter, workLane, workEnded, outputLane, outputEnded,
                     freeLane, contents, consumer, readChunk, givenChunk, delivered>>
  BY DEF ReaderAtBarrier, ArriveAtBarrier
<1>a. arrived \in Nat /\ round \in Nat /\ Everybody = Cardinality(PredictThreads) + 1
  BY DEF PredicterInv, PredicterTypes, Everybody
<1>1. PredicterTypes'
  <2>1. arrived' \in Nat /\ round' \in Nat /\ readerRound' \in Nat
    <3>1. /\ arrived' = 0 \/ arrived' = arrived + 1
          /\ round' = round \/ round' = round + 1
          /\ readerRound' = round  BY <1>0
    <3>2. QED BY <1>a, <3>1
  <2>2. reader' \in ReaderPlaces  BY <1>0 DEF ReaderPlaces
  <2>3. PredictRows' = PredictRows /\ Item' = Item  BY <1>0 DEF PredictRows, Item
  <2>4. QED BY <1>0, <2>1, <2>2, <2>3 DEF PredicterInv, PredicterTypes
<1>b. /\ Active /\ ~ ReaderWaits /\ ~ predictJob.modelColumn
      /\ arrived = Cardinality(Waiting)
      /\ posted + Cardinality(Engaged) = Cardinality(PredictThreads)
      /\ Waiting # {} => workLane = <<>> /\ workEnded
      /\ \A t \in PredictThreads : predicter[t].round <= round
      /\ workEnded
  <2>1. ~ ReaderWaits  BY <1>0 DEF ReaderWaits
  <2>2. ~ predictJob.modelColumn  BY <1>0 DEF PredicterInv, Meeting
  <2>3. Active  BY <1>0, <2>2 DEF Active
  <2>4. arrived = Cardinality(Waiting) + 0  BY <2>1 DEF PredicterInv, Meeting
  <2>5. Cardinality(Waiting) \in Nat  BY ThreadNumber DEF Waiting
  <2>6. arrived = Cardinality(Waiting)  BY <2>4, <2>5
  <2>7. QED BY <1>0, <2>1, <2>2, <2>3, <2>6 DEF PredicterInv, Meeting
<1>2. Meeting'
  <2>1. CASE arrived + 1 = Everybody
    <3>1. arrived' = 0 /\ round' = round + 1 /\ readerRound' = round  BY <1>0, <2>1
    <3>2. Waiting = PredictThreads
      <4>1. arrived = Cardinality(PredictThreads)  BY <1>a, <2>1, ThreadNumber
      <4>2. Waiting \in SUBSET PredictThreads  BY DEF Waiting
      <4>3. QED BY <1>b, <4>1, <4>2, ThreadNumber
    <3>3. Engaged = PredictThreads /\ Waiting # {}  BY <3>2, ThreadNumber DEF Engaged, Waiting
    <3>4. posted = 0
      <4>1. posted \in Nat  BY DEF PredicterInv, PredicterTypes
      <4>2. QED BY <1>b, <3>3, <4>1, ThreadNumber
    <3>5. round' # round /\ (\A t \in PredictThreads : predicter[t].round # round')
      <4>1. \A t \in PredictThreads : predicter[t].round \in Nat  BY DEF PredicterInv, PredicterTypes
      <4>2. QED BY <1>a, <1>b, <3>1, <4>1
    <3>6. Waiting' = {} /\ Engaged' = {}
      <4>1. \A t \in PredictThreads : predicter[t].at = "barrier"  BY <3>2 DEF Waiting, Waits
      <4>2. \A t \in PredictThreads : ~ Waits(t)' /\ ~ Runs(t)'  BY <1>0, <3>5, <4>1 DEF Waits, Runs
      <4>3. QED BY <4>2 DEF Waiting, Engaged
    <3>7. ~ ReaderWaits' /\ ~ Active'  BY <1>0, <3>1, <3>5 DEF ReaderWaits, Active
    <3>8. \A t \in PredictThreads : predicter'[t].round <= round'
      <4>1. \A t \in PredictThreads : predicter[t].round \in Nat  BY DEF PredicterInv, PredicterTypes
      <4>2. ASSUME NEW t \in PredictThreads PROVE predicter[t].round <= round + 1
        <5>1. predicter[t].round \in Nat /\ predicter[t].round <= round  BY <1>b, <4>1
        <5>2. QED BY <1>a, <5>1
      <4>3. predicter' = predicter  BY <1>0
      <4>4. QED BY <3>1, <4>2, <4>3
    <3>9. arrived' = Cardinality(Waiting') + 0 /\ readerRound' <= round'  BY <1>a, <3>1, <3>6, ThreadNumber
    <3>10. QED BY <1>0, <1>b, <3>3, <3>4, <3>6, <3>7, <3>8, <3>9 DEF Meeting
  <2>2. CASE arrived + 1 # Everybody
    <3>1. arrived' = arrived + 1 /\ round' = round /\ readerRound' = round  BY <1>0, <2>2
    <3>2. ReaderWaits' /\ Active'  BY <1>0, <1>b, <3>1 DEF ReaderWaits, Active
    <3>3. Waiting' = Waiting /\ Engaged' = Engaged  BY <1>0, <3>1 DEF Waiting, Engaged, Waits, Runs
    <3>4. arrived' = Cardinality(Waiting') + 1 /\ readerRound' <= round'  BY <1>a, <1>b, <3>1, <3>3
    <3>5. QED BY <1>0, <1>b, <3>1, <3>2, <3>3, <3>4 DEF Meeting
  <2>3. QED BY <2>1, <2>2
<1>3. Reading'  BY <1>0 DEF PredicterInv, Reading, PredictRows
<1>4. Stages' /\ Buffers'  BY <1>0, ReaderStepKeeps
<1>6. RightBeam'  BY <1>0, RightBeamFrame DEF PredicterInv
<1>7. Using'  BY <1>0 DEF PredicterInv, Using
<1>8. QED BY <1>1, <1>2, <1>3, <1>4, <1>6, <1>7 DEF PredicterInv

\* While the beam is replaced no thread holds a row and none is in the lane.
LEMMA NothingOnItsWay ==
  ASSUME PredicterInv, ~ Active
  PROVE  /\ posted = 0 /\ Engaged = {} /\ Waiting = {} /\ workLane = <<>>
         /\ \A t \in PredictThreads : predicter[t].at # "predict"
<1>1. posted = 0 /\ Engaged = {} /\ workLane = <<>>  BY DEF PredicterInv, Meeting
<1>2. Waiting = {}  BY <1>1 DEF Engaged, Waiting
<1>3. \A t \in PredictThreads : predicter[t].at # "predict"  BY <1>1 DEF Engaged, Runs
<1>4. QED BY <1>1, <1>2, <1>3

\* A step that replaces the beam while nothing is on its way.
LEMMA BeamStepKeepsFound ==
  ASSUME PredicterInv, ~ Active,
         UNCHANGED <<predictJob, nextRow, predicter, workLane, outputLane, readChunk, contents, delivered>>,
         UsesBeam /\ reader' = "take buffer" => beam' = TimeOf(nextRow)
  PROVE  RightBeam'
<1>1. UsesBeam' = UsesBeam /\ (\A r : TimeOf(r)' = TimeOf(r))  BY DEF UsesBeam, TimeOf
<1>2. \A found, r : Found(found, r)' = Found(found, r)  BY <1>1 DEF Found
<1>3. /\ workLane = <<>> /\ \A t \in PredictThreads : predicter[t].at # "predict"  BY NothingOnItsWay
<1>4. Elems(workLane) = {}  BY <1>3, EmptyParts
<1>5. QED BY <1>1, <1>2, <1>3, <1>4 DEF PredicterInv, RightBeam

LEMMA RenewBeamKeeps ==
  ASSUME PredicterInv, RenewBeam
  PROVE  PredicterInv'
<1> USE DEF predictLaneVars, predictBarrierVars, consumerVars
<1>0. /\ reader = "wait for threads" /\ reader' = "calculate beam" /\ round > readerRound
      /\ workLane' = <<>> /\ workEnded' = FALSE /\ beam' = AnyTime
      /\ UNCHANGED <<predictJob, nextRow, posted, predicter, outputLane, outputEnded,
                     freeLane, arrived, round, readerRound, contents, consumer, readChunk, givenChunk, delivered>>
  BY DEF RenewBeam
<1>a. readerRound # round
  <2>1. round \in Nat /\ readerRound \in Nat  BY DEF PredicterInv, PredicterTypes
  <2>2. round > readerRound  BY <1>0
  <2>3. QED BY <2>1, <2>2
<1>b. ~ ReaderWaits /\ ~ Active  BY <1>0, <1>a DEF ReaderWaits, Active
<1>c. /\ posted = 0 /\ Engaged = {} /\ Waiting = {} /\ workLane = <<>>
      /\ \A t \in PredictThreads : predicter[t].at # "predict"  BY <1>b, NothingOnItsWay
<1>d. workLane' = workLane  BY <1>0, <1>c
<1>1. PredicterTypes'
  <2>1. PredictRows' = PredictRows /\ Item' = Item  BY <1>0 DEF PredictRows, Item
  <2>2. reader' \in ReaderPlaces /\ workEnded' \in BOOLEAN /\ beam' \in Nat  BY <1>0 DEF ReaderPlaces, AnyTime
  <2>3. QED BY <1>0, <1>d, <2>1, <2>2 DEF PredicterInv, PredicterTypes
<1>2. Meeting'
  <2>1. Waiting' = {} /\ Engaged' = {}  BY <1>0, <1>c DEF Waiting, Engaged, Waits, Runs
  <2>2. ~ ReaderWaits' /\ ~ Active'  BY <1>0 DEF ReaderWaits, Active
  <2>3. arrived = Cardinality(Waiting) + 0  BY <1>b DEF PredicterInv, Meeting
  <2>4. arrived' = Cardinality(Waiting') + 0  BY <1>0, <1>c, <2>1, <2>3
  <2>5. QED BY <1>0, <1>c, <1>d, <2>1, <2>2, <2>4 DEF PredicterInv, Meeting
<1>3. Reading'  BY <1>0 DEF PredicterInv, Reading, PredictRows
<1>4. Stages' /\ Buffers'  BY <1>0, <1>d, ReaderStepKeeps
<1>6. RightBeam'  BY <1>0, <1>b, <1>d, BeamStepKeepsFound
<1>7. Using'  BY <1>0 DEF PredicterInv, Using
<1>8. QED BY <1>1, <1>2, <1>3, <1>4, <1>6, <1>7 DEF PredicterInv

LEMMA RestartThreadsKeeps ==
  ASSUME PredicterInv, RestartThreads
  PROVE  PredicterInv'
<1> USE DEF predictLaneVars, predictBarrierVars, consumerVars
<1>0. /\ reader = "calculate beam" /\ reader' = "take buffer"
      /\ beam' = TimeOf(nextRow) /\ posted' = Cardinality(PredictThreads)
      /\ UNCHANGED <<predictJob, nextRow, predicter, workLane, workEnded, outputLane, outputEnded,
                     freeLane, arrived, round, readerRound, contents, consumer, readChunk, givenChunk, delivered>>
  BY DEF RestartThreads
<1>b. ~ ReaderWaits /\ ~ Active  BY <1>0 DEF ReaderWaits, Active
<1>c. /\ posted = 0 /\ Engaged = {} /\ Waiting = {} /\ workLane = <<>>
      /\ \A t \in PredictThreads : predicter[t].at # "predict"  BY <1>b, NothingOnItsWay
<1>d. ~ predictJob.modelColumn  BY <1>0 DEF PredicterInv, Meeting
<1>1. PredicterTypes'
  <2>1. PredictRows' = PredictRows /\ Item' = Item  BY <1>0 DEF PredictRows, Item
  <2>2. nextRow \in PredictRows  BY <1>0 DEF PredicterInv, Reading
  <2>3. beam' \in Nat  BY <1>0, <2>2, RowFacts DEF PredicterInv
  <2>4. reader' \in ReaderPlaces /\ posted' \in Nat  BY <1>0, ThreadNumber DEF ReaderPlaces
  <2>5. QED BY <1>0, <2>1, <2>3, <2>4 DEF PredicterInv, PredicterTypes
<1>2. Meeting'
  <2>1. Waiting' = {} /\ Engaged' = {}  BY <1>0, <1>c DEF Waiting, Engaged, Waits, Runs
  <2>2. ~ ReaderWaits' /\ Active'  BY <1>0, <1>d DEF ReaderWaits, Active
  <2>3. arrived = Cardinality(Waiting) + 0  BY <1>b DEF PredicterInv, Meeting
  <2>4. arrived' = Cardinality(Waiting') + 0  BY <1>0, <1>c, <2>1, <2>3
  <2>5. posted' + Cardinality(Engaged') = Cardinality(PredictThreads)
    <3>1. posted' = Cardinality(PredictThreads) /\ Cardinality(Engaged') = 0  BY <1>0, <2>1, ThreadNumber
    <3>2. Cardinality(PredictThreads) \in Nat  BY ThreadNumber
    <3>3. QED BY <3>1, <3>2
  <2>6. QED BY <1>0, <1>c, <1>d, <2>1, <2>2, <2>4, <2>5 DEF PredicterInv, Meeting
<1>3. Reading'  BY <1>0 DEF PredicterInv, Reading, PredictRows
<1>4. Stages' /\ Buffers'  BY <1>0, ReaderStepKeeps
<1>6. RightBeam'  BY <1>0, <1>b, BeamStepKeepsFound
<1>7. Using'  BY <1>0 DEF PredicterInv, Using
<1>8. QED BY <1>1, <1>2, <1>3, <1>4, <1>6, <1>7 DEF PredicterInv

\* A row is given to a thread or, from the model column, to the caller.
LEMMA GiveRowKeeps ==
  ASSUME PredicterInv, GiveRow
  PROVE  PredicterInv'
<1> USE DEF predictLaneVars, predictBarrierVars, consumerVars
<1> DEFINE b == Head(freeLane)
           item == [row |-> nextRow, buffer |-> b]
<1>0. /\ reader = "take buffer" /\ reader' = "next" /\ freeLane # <<>> /\ freeLane' = Tail(freeLane)
      /\ nextRow' = nextRow + 1
      /\ \/ /\ predictJob.modelColumn
            /\ outputLane' = Append(outputLane, item) /\ workLane' = workLane
            /\ contents' = [contents EXCEPT ![b] = [row |-> nextRow, beam |-> {}]]
         \/ /\ ~ predictJob.modelColumn
            /\ workLane' = Append(workLane, item) /\ outputLane' = outputLane /\ contents' = contents
      /\ UNCHANGED <<predictJob, beam, posted, predicter, workEnded, outputEnded, arrived, round, readerRound,
                     consumer, readChunk, givenChunk, delivered>>  BY DEF GiveRow
<1>a. /\ nextRow \in PredictRows /\ nextRow \in Nat /\ predictJob.rows[nextRow].cross
      /\ \A r \in PredictRows : r \in Nat
  <2>1. nextRow \in PredictRows /\ predictJob.rows[nextRow].cross  BY <1>0 DEF PredicterInv, Reading
  <2>2. PredictRows \subseteq Nat  BY RowFacts DEF PredicterInv
  <2>3. QED BY <2>1, <2>2
<1>b. /\ workLane \in Seq(Item) /\ outputLane \in Seq(Item) /\ readChunk \in Seq(Item)
      /\ freeLane \in Seq(PredictBuffers) /\ givenChunk \in Seq(PredictBuffers)
      /\ contents \in [PredictBuffers -> [row : Nat, beam : SUBSET Nat]]  BY DEF PredicterInv, PredicterTypes
<1>c. /\ b \in PredictBuffers /\ Tail(freeLane) \in Seq(PredictBuffers)
      /\ Elems(freeLane) = Elems(Tail(freeLane)) \cup {b}
      /\ Once(freeLane) => Once(Tail(freeLane)) /\ b \notin Elems(Tail(freeLane))  BY <1>0, <1>b, TailParts
<1> HIDE DEF b
<1>d. item \in Item /\ item.row = nextRow /\ item.buffer = b  BY <1>a, <1>c DEF Item
<1> HIDE DEF item
<1>e. PredictRows' = PredictRows /\ Item' = Item  BY <1>0 DEF PredictRows, Item
<1>f. \A s \in Seq(Item) :
        /\ Append(s, item) \in Seq(Item)
        /\ Elems(Append(s, item)) = Elems(s) \cup {item}
        /\ \A r : HasRow(Append(s, item), r) <=> HasRow(s, r) \/ r = nextRow
        /\ RowsOnce(s) /\ ~ HasRow(s, nextRow) => RowsOnce(Append(s, item))  BY <1>d, AppendParts
<1>1. PredicterTypes'
  <2>1. nextRow + 1 \in 1 .. Len(predictJob.rows) + 1  BY <1>a, RowFacts DEF PredicterInv
  <2>2. workLane' \in Seq(Item) /\ outputLane' \in Seq(Item) /\ freeLane' \in Seq(PredictBuffers)
    BY <1>0, <1>b, <1>c, <1>f
  <2>3. contents' \in [PredictBuffers -> [row : Nat, beam : SUBSET Nat]]
    <3>1. [row |-> nextRow, beam |-> {}] \in [row : Nat, beam : SUBSET Nat]  BY <1>a
    <3>2. QED BY <1>0, <1>b, <3>1
  <2>4. QED BY <1>0, <1>e, <2>1, <2>2, <2>3 DEF PredicterInv, PredicterTypes, ReaderPlaces
<1>2. Meeting'
  <2>1. Waiting' = Waiting /\ Engaged' = Engaged  BY <1>0 DEF Waiting, Engaged, Waits, Runs
  <2>2. ~ ReaderWaits /\ ~ ReaderWaits'  BY <1>0 DEF ReaderWaits
  <2>3. Active' = Active /\ (Active <=> ~ predictJob.modelColumn)  BY <1>0, <2>2 DEF Active
  <2>4. ~ predictJob.modelColumn => Waiting = {}  BY <1>0 DEF PredicterInv, Meeting
  <2>5. predictJob.modelColumn => workLane' = workLane  BY <1>0
  <2>6. /\ reader = "take buffer" /\ reader' = "next"
        /\ UNCHANGED <<predictJob, posted, predicter, workEnded, arrived, round, readerRound>>  BY <1>0
  <2>7. QED BY <2>1, <2>2, <2>3, <2>4, <2>5, <2>6 DEF PredicterInv, Meeting
<1>3. Reading'  BY <1>0 DEF PredicterInv, Reading
<1>g. \A r \in PredictRows : Given(r)' <=> Given(r) \/ r = nextRow
  <2> TAKE r \in PredictRows
  <2>1. CrossRows' = CrossRows /\ nextRow \in CrossRows /\ nextRow' = nextRow + 1
    BY <1>0, <1>a DEF CrossRows, PredictRows
  <2>2. r < nextRow + 1 <=> r < nextRow \/ r = nextRow  BY <1>a
  <2>3. QED BY <2>1, <2>2 DEF Given
<1>h. ~ Given(nextRow)  BY <1>a DEF Given
<1>i. /\ ~ HasRow(workLane, nextRow) /\ ~ IsHeld(nextRow) /\ ~ HasRow(outputLane, nextRow)
      /\ ~ HasRow(readChunk, nextRow) /\ ~ HasRow(delivered, nextRow)  BY <1>a, <1>h DEF PredicterInv, Stages
<1>j. \A r : IsHeld(r)' = IsHeld(r) /\ \A t : HeldBy(t, r)' = HeldBy(t, r)  BY <1>0 DEF IsHeld, HeldBy
<1>4. Stages'
  <2>1. readChunk' = readChunk /\ delivered' = delivered  BY <1>0
  <2>2. CASE predictJob.modelColumn
    <3>1. workLane' = workLane /\ outputLane' = Append(outputLane, item)  BY <1>0, <2>2
    <3>2. QED BY <1>a, <1>b, <1>e, <1>f, <1>g, <1>i, <1>j, <2>1, <3>1 DEF PredicterInv, Stages
  <2>3. CASE ~ predictJob.modelColumn
    <3>1. outputLane' = outputLane /\ workLane' = Append(workLane, item)  BY <1>0, <2>3
    <3>2. QED BY <1>a, <1>b, <1>e, <1>f, <1>g, <1>i, <1>j, <2>1, <3>1 DEF PredicterInv, Stages
  <2>4. QED BY <2>2, <2>3
<1>5. Buffers'
  <2>1. HeldItems' = HeldItems /\ Elems(readChunk)' = Elems(readChunk)  BY <1>0 DEF HeldItems, Elems
  <2>2. Carried' = Carried \cup {item}
    <3>1. CASE predictJob.modelColumn  BY <1>0, <1>b, <1>f, <2>1, <3>1 DEF Carried
    <3>2. CASE ~ predictJob.modelColumn  BY <1>0, <1>b, <1>f, <2>1, <3>2 DEF Carried
    <3>3. QED BY <3>1, <3>2
  <2>3. freeLane' = Tail(freeLane) /\ givenChunk' = givenChunk  BY <1>0
  <2>4. QED BY <1>c, <1>d, <1>e, <2>2, <2>3 DEF PredicterInv, Buffers
<1>6. RightBeam'
  <2>1. UsesBeam' = UsesBeam /\ (\A r : TimeOf(r)' = TimeOf(r))  BY <1>0 DEF UsesBeam, TimeOf
  <2>2. \A found, r : Found(found, r)' = Found(found, r)  BY <2>1 DEF Found
  <2>3. reader' # "take buffer" /\ predicter' = predicter /\ beam' = beam
        /\ readChunk' = readChunk /\ delivered' = delivered  BY <1>0
  <2>4. CASE predictJob.modelColumn
    <3>1. ~ UsesBeam  BY <2>4 DEF UsesBeam
    <3>2. \A x \in Elems(outputLane) \cup Elems(readChunk) : x.buffer \in PredictBuffers /\ x.buffer # b
      BY <1>c DEF PredicterInv, Buffers, Carried, Item
    <3>3. contents' = [contents EXCEPT ![b] = [row |-> nextRow, beam |-> {}]] /\ outputLane' = Append(outputLane, item)
      BY <1>0, <2>4
    <3>4. Elems(outputLane') = Elems(outputLane) \cup {item}  BY <1>b, <1>f, <3>3
    <3>5. \A x \in Elems(outputLane) \cup Elems(readChunk) : contents'[x.buffer] = contents[x.buffer]
      BY <1>b, <3>2, <3>3
    <3>6. Found(contents'[b], nextRow)  BY <1>b, <1>c, <3>1, <3>3 DEF Found
    <3>7. QED BY <1>d, <2>1, <2>2, <2>3, <3>1, <3>4, <3>5, <3>6 DEF PredicterInv, RightBeam
  <2>5. CASE ~ predictJob.modelColumn
    <3>1. workLane' = Append(workLane, item) /\ outputLane' = outputLane /\ contents' = contents  BY <1>0, <2>5
    <3>2. Elems(workLane') = Elems(workLane) \cup {item}  BY <1>b, <1>f, <3>1
    <3>3. UsesBeam => TimeOf(item.row) = beam  BY <1>0, <1>d DEF PredicterInv, RightBeam
    <3>4. QED BY <2>1, <2>2, <2>3, <3>1, <3>2, <3>3 DEF PredicterInv, RightBeam
  <2>6. QED BY <2>4, <2>5
<1>7. Using'  BY <1>0 DEF PredicterInv, Using
<1>8. QED BY <1>1, <1>2, <1>3, <1>4, <1>5, <1>6, <1>7 DEF PredicterInv

----
(* Steps of a predicting thread *)

\* What happens to the lanes of the caller and to the rows when a thread only goes elsewhere.
LEMMA ThreadGoesKeeps ==
  ASSUME PredicterInv, NEW t \in PredictThreads,
         UNCHANGED <<predictJob, reader, nextRow, beam, workLane, workEnded, outputLane, outputEnded,
                     freeLane, contents, consumer, readChunk, givenChunk, delivered>>,
         predicter[t].at # "predict", predicter'[t].at # "predict",
         \A u \in PredictThreads \ {t} : predicter'[u] = predicter[u]
  PROVE  Reading' /\ Stages' /\ Buffers' /\ RightBeam' /\ Using'
<1>1. Reading'  BY ReadingFrame DEF PredicterInv
<1>2. Stages'
  <2>1. \A r \in PredictRows : Given(r)' = Given(r)  BY GivenFrame
  <2>2. \A u \in PredictThreads, r \in PredictRows : HeldBy(u, r)' = HeldBy(u, r)  BY DEF HeldBy
  <2>3. QED BY <2>1, <2>2, StagesFrame DEF PredicterInv
<1>3. Buffers'
  <2>1. HeldItems' = HeldItems  BY DEF HeldItems
  <2>2. Carried' = Carried  BY <2>1 DEF Carried, Elems
  <2>3. QED BY <2>2, BuffersFrame DEF PredicterInv
<1>4. RightBeam'
  <2>1. \A u \in PredictThreads : predicter'[u].at = "predict" =>
          predicter[u].at = "predict" /\ predicter'[u].seen = predicter[u].seen
            /\ predicter'[u].item = predicter[u].item  OBVIOUS
  <2>2. QED BY <2>1, RightBeamFrame DEF PredicterInv
<1>5. Using'  BY DEF PredicterInv, Using
<1>6. QED BY <1>1, <1>2, <1>3, <1>4, <1>5

LEMMA RunFunctionKeeps ==
  ASSUME PredicterInv, NEW t \in PredictThreads, RunFunction(t)
  PROVE  PredicterInv'
<1> USE DEF predictLaneVars, predictBarrierVars, consumerVars
<1>a. /\ predicter \in [PredictThreads -> [at : Places, item : Item \cup {NoRow}, round : Nat, seen : Nat]]
      /\ posted \in Nat  BY DEF PredicterInv, PredicterTypes
<1>0. /\ predicter[t].at = "idle" /\ posted > 0 /\ posted' = posted - 1
      /\ predicter' = [predicter EXCEPT ![t].at = "read"]
      /\ UNCHANGED <<predictJob, reader, nextRow, beam, workLane, workEnded, outputLane, outputEnded,
                     freeLane, arrived, round, readerRound, contents, consumer, readChunk, givenChunk, delivered>>
  BY DEF RunFunction
<1>b. /\ predicter'[t].at = "read" /\ predicter'[t].round = predicter[t].round
      /\ \A u \in PredictThreads \ {t} : predicter'[u] = predicter[u]
      /\ posted' \in Nat /\ posted # 0  BY <1>0, <1>a
<1>1. PredicterTypes'
  <2>1. PredictRows' = PredictRows /\ Item' = Item  BY <1>0 DEF PredictRows, Item
  <2>2. predicter' \in [PredictThreads -> [at : Places, item : Item \cup {NoRow}, round : Nat, seen : Nat]]
    BY <1>0, <1>a DEF Places
  <2>3. QED BY <1>0, <1>b, <2>1, <2>2 DEF PredicterInv, PredicterTypes
<1>2. Meeting'
  <2>1. Active  BY <1>b DEF PredicterInv, Meeting
  <2>2. Waiting' = Waiting  BY <1>0, <1>b DEF Waiting, Waits
  <2>3. Engaged' = Engaged \cup {t} /\ t \notin Engaged  BY <1>0, <1>b DEF Engaged, Runs, Waits
  <2>4. Active' = Active /\ ReaderWaits' = ReaderWaits  BY <1>0 DEF Active, ReaderWaits
  <2>5. posted' + Cardinality(Engaged') = Cardinality(PredictThreads)
    <3>1. posted + Cardinality(Engaged) = Cardinality(PredictThreads)  BY <2>1 DEF PredicterInv, Meeting
    <3>2. Engaged \in SUBSET PredictThreads  BY DEF Engaged
    <3>3. Cardinality(Engaged') = Cardinality(Engaged) + 1 /\ Cardinality(Engaged) \in Nat
      BY <2>3, <3>2, ThreadNumber
    <3>4. posted' = posted - 1  BY <1>0
    <3>5. QED BY <1>a, <3>1, <3>3, <3>4
  <2>6. \A u \in PredictThreads : predicter'[u].round <= round  BY <1>b DEF PredicterInv, Meeting
  <2>7. QED BY <1>0, <2>1, <2>2, <2>4, <2>5, <2>6 DEF PredicterInv, Meeting
<1>3. Reading' /\ Stages' /\ Buffers' /\ RightBeam' /\ Using'  BY <1>0, <1>b, ThreadGoesKeeps
<1>4. QED BY <1>1, <1>2, <1>3 DEF PredicterInv

\* A function returns when the barrier has been passed.
LEMMA LeaveFunctionKeeps ==
  ASSUME PredicterInv, NEW t \in PredictThreads, LeaveFunction(t)
  PROVE  PredicterInv'
<1> USE DEF predictLaneVars, predictBarrierVars, consumerVars
<1>a. /\ predicter \in [PredictThreads -> [at : Places, item : Item \cup {NoRow}, round : Nat, seen : Nat]]
      /\ round \in Nat  BY DEF PredicterInv, PredicterTypes
<1>0. /\ predicter[t].at = "barrier" /\ round > predicter[t].round
      /\ predicter' = [predicter EXCEPT ![t].at = "idle"]
      /\ UNCHANGED <<predictJob, reader, nextRow, beam, posted, workLane, workEnded, outputLane, outputEnded,
                     freeLane, arrived, round, readerRound, contents, consumer, readChunk, givenChunk, delivered>>
  BY DEF LeaveFunction
<1>b. /\ predicter'[t].at = "idle" /\ predicter'[t].round = predicter[t].round
      /\ predicter[t].round \in Nat
      /\ \A u \in PredictThreads \ {t} : predicter'[u] = predicter[u]  BY <1>0, <1>a
<1>c. predicter[t].round # round  BY <1>0, <1>a, <1>b
<1>1. PredicterTypes'
  <2>1. PredictRows' = PredictRows /\ Item' = Item  BY <1>0 DEF PredictRows, Item
  <2>2. predicter' \in [PredictThreads -> [at : Places, item : Item \cup {NoRow}, round : Nat, seen : Nat]]
    BY <1>0, <1>a DEF Places
  <2>3. QED BY <1>0, <2>1, <2>2 DEF PredicterInv, PredicterTypes
<1>2. Meeting'
  <2>1. \A u \in PredictThreads : /\ Waits(u)' = Waits(u) /\ Runs(u)' = Runs(u)
                                  /\ predicter'[u].round <= round
    <3>1. ~ Waits(t) /\ ~ Waits(t)' /\ ~ Runs(t) /\ ~ Runs(t)'  BY <1>0, <1>b, <1>c DEF Waits, Runs
    <3>2. ASSUME NEW u \in PredictThreads \ {t} PROVE Waits(u)' = Waits(u) /\ Runs(u)' = Runs(u)
      BY <1>0, <1>b DEF Waits, Runs
    <3>3. \A u \in PredictThreads : predicter'[u].round <= round  BY <1>b DEF PredicterInv, Meeting
    <3>4. TAKE u \in PredictThreads
    <3>5. CASE u = t  BY <3>1, <3>3, <3>5 DEF Waits, Runs
    <3>6. CASE u # t  BY <3>2, <3>3, <3>6
    <3>7. QED BY <3>5, <3>6
  <2>2. QED BY <1>0, <2>1, MeetingFrame DEF PredicterInv
<1>3. Reading' /\ Stages' /\ Buffers' /\ RightBeam' /\ Using'  BY <1>0, <1>b, ThreadGoesKeeps
<1>4. QED BY <1>1, <1>2, <1>3 DEF PredicterInv

\* A function ends when the lane is empty and ended; the last one lets everybody pass.
LEMMA EndFunctionKeeps ==
  ASSUME PredicterInv, NEW t \in PredictThreads, EndFunction(t)
  PROVE  PredicterInv'
<1> USE DEF predictLaneVars, predictBarrierVars, consumerVars
<1>a. /\ predicter \in [PredictThreads -> [at : Places, item : Item \cup {NoRow}, round : Nat, seen : Nat]]
      /\ round \in Nat /\ arrived \in Nat /\ posted \in Nat /\ readerRound \in Nat
      /\ Everybody = Cardinality(PredictThreads) + 1  BY DEF PredicterInv, PredicterTypes, Everybody
<1>0. /\ predicter[t].at = "read" /\ workLane = <<>> /\ workEnded
      /\ \/ arrived + 1 = Everybody /\ arrived' = 0 /\ round' = round + 1
         \/ arrived + 1 # Everybody /\ arrived' = arrived + 1 /\ round' = round
      /\ predicter' = [predicter EXCEPT ![t].at = "barrier", ![t].round = round]
      /\ UNCHANGED <<predictJob, reader, nextRow, beam, posted, workLane, workEnded, outputLane, outputEnded,
                     freeLane, readerRound, contents, consumer, readChunk, givenChunk, delivered>>
  BY DEF EndFunction, ArriveAtBarrier, LaneIsOver
<1>b. /\ predicter'[t].at = "barrier" /\ predicter'[t].round = round
      /\ \A u \in PredictThreads \ {t} : predicter'[u] = predicter[u]  BY <1>0, <1>a
<1>1. PredicterTypes'
  <2>1. PredictRows' = PredictRows /\ Item' = Item  BY <1>0 DEF PredictRows, Item
  <2>2. predicter' \in [PredictThreads -> [at : Places, item : Item \cup {NoRow}, round : Nat, seen : Nat]]
    BY <1>0, <1>a DEF Places
  <2>3. arrived' \in Nat /\ round' \in Nat
    <3>1. /\ arrived' = 0 \/ arrived' = arrived + 1
          /\ round' = round \/ round' = round + 1  BY <1>0
    <3>2. QED BY <1>a, <3>1
  <2>4. QED BY <1>0, <2>1, <2>2, <2>3 DEF PredicterInv, PredicterTypes
<1>c. t \in Engaged /\ t \notin Waiting /\ Engaged \in SUBSET PredictThreads /\ Waiting \in SUBSET PredictThreads
  BY <1>0 DEF Engaged, Waiting, Runs, Waits
<1>d. /\ Active /\ ~ predictJob.modelColumn
      /\ posted + Cardinality(Engaged) = Cardinality(PredictThreads)
      /\ reader \in {"wait for threads", "wait for the end"} => readerRound <= round
      /\ \A u \in PredictThreads : predicter[u].round <= round
  <2>1. Active  BY <1>c DEF PredicterInv, Meeting
  <2>2. QED BY <2>1 DEF PredicterInv, Meeting, Active
<1>e. \A u \in PredictThreads : predicter[u].round \in Nat  BY <1>a
<1>2. Meeting'
  <2>1. CASE arrived + 1 = Everybody
    <3>1. arrived' = 0 /\ round' = round + 1  BY <1>0, <2>1
    <3>2. Cardinality(Waiting) + 1 <= Cardinality(PredictThreads) /\ Cardinality(Waiting) \in Nat
      <4>1. Waiting \cup {t} \in SUBSET PredictThreads  BY <1>c
      <4>2. Cardinality(Waiting \cup {t}) = Cardinality(Waiting) + 1  BY <1>c, ThreadNumber
      <4>3. QED BY <1>c, <4>1, <4>2, ThreadNumber
    <3>3. arrived = Cardinality(PredictThreads)  BY <1>a, <2>1, ThreadNumber
    <3>4. arrived = Cardinality(Waiting) + (IF ReaderWaits THEN 1 ELSE 0)  BY DEF PredicterInv, Meeting
    <3>5. ReaderWaits
      <4>1. CASE ~ ReaderWaits
        <5>1. arrived = Cardinality(Waiting) + 0  BY <3>4, <4>1
        <5>2. QED BY <3>2, <3>3, <5>1
      <4>2. QED BY <4>1
    <3>6. Waiting \cup {t} = PredictThreads
      <4>1. arrived = Cardinality(Waiting) + 1  BY <3>4, <3>5
      <4>2. Cardinality(Waiting \cup {t}) = Cardinality(PredictThreads)  BY <1>c, <3>3, <4>1, ThreadNumber
      <4>3. Waiting \cup {t} \in SUBSET PredictThreads  BY <1>c
      <4>4. QED BY <4>2, <4>3, ThreadNumber
    <3>7. Engaged = PredictThreads  BY <1>c, <3>6 DEF Engaged, Waiting
    <3>8. posted = 0
      <4>1. posted + Cardinality(PredictThreads) = Cardinality(PredictThreads)  BY <1>d, <3>7
      <4>2. QED BY <1>a, <4>1, ThreadNumber
    <3>9. \A u \in PredictThreads : predicter'[u].at = "barrier" /\ predicter'[u].round <= round
      <4>1. ASSUME NEW u \in PredictThreads \ {t} PROVE predicter'[u].at = "barrier" /\ predicter'[u].round <= round
        BY <1>b, <1>d, <3>6, <4>1 DEF Waiting, Waits
      <4>2. predicter'[t].at = "barrier" /\ predicter'[t].round <= round  BY <1>a, <1>b
      <4>3. QED BY <4>1, <4>2
    <3>10. \A u \in PredictThreads : predicter'[u].round \in Nat  BY <1>a, <1>b, <1>e
    <3>11. \A u \in PredictThreads : predicter'[u].round # round' /\ predicter'[u].round <= round'
      <4>1. ASSUME NEW u \in PredictThreads PROVE predicter'[u].round # round + 1 /\ predicter'[u].round <= round + 1
        <5>1. predicter'[u].round \in Nat /\ predicter'[u].round <= round  BY <3>9, <3>10
        <5>2. QED BY <1>a, <5>1
      <4>2. QED BY <3>1, <4>1
    <3>12. Waiting' = {} /\ Engaged' = {}
      <4>1. \A u \in PredictThreads : ~ Waits(u)' /\ ~ Runs(u)'  BY <3>9, <3>11 DEF Waits, Runs
      <4>2. QED BY <4>1 DEF Waiting, Engaged
    <3>13. readerRound = round /\ reader \in {"wait for threads", "wait for the end"}  BY <3>5 DEF ReaderWaits
    <3>14. readerRound' # round' /\ readerRound' <= round'
      <4>1. readerRound' = round  BY <1>0, <3>13
      <4>2. QED BY <1>a, <3>1, <4>1
    <3>15. ~ ReaderWaits' /\ ~ Active'  BY <1>0, <3>13, <3>14 DEF ReaderWaits, Active
    <3>16. arrived' = Cardinality(Waiting') + 0  BY <3>1, <3>12, ThreadNumber
    <3>17. QED BY <1>0, <1>d, <3>8, <3>11, <3>12, <3>13, <3>14, <3>15, <3>16 DEF PredicterInv, Meeting
  <2>2. CASE arrived + 1 # Everybody
    <3>1. arrived' = arrived + 1 /\ round' = round  BY <1>0, <2>2
    <3>2. ReaderWaits' = ReaderWaits /\ Active'  BY <1>0, <1>d, <3>1 DEF ReaderWaits, Active
    <3>3. Waiting' = Waiting \cup {t}  BY <1>0, <1>b, <3>1 DEF Waiting, Waits
    <3>4. Engaged' = Engaged  BY <1>0, <1>b, <1>c, <3>1 DEF Engaged, Waits, Runs
    <3>5. arrived' = Cardinality(Waiting') + (IF ReaderWaits' THEN 1 ELSE 0)
      <4>1. Cardinality(Waiting \cup {t}) = Cardinality(Waiting) + 1 /\ Cardinality(Waiting) \in Nat
        BY <1>c, ThreadNumber
      <4>2. arrived = Cardinality(Waiting) + (IF ReaderWaits THEN 1 ELSE 0)  BY DEF PredicterInv, Meeting
      <4>3. CASE ReaderWaits
        <5>1. arrived = Cardinality(Waiting) + 1  BY <4>2, <4>3
        <5>2. arrived' = Cardinality(Waiting') + 1  BY <3>1, <3>3, <4>1, <5>1
        <5>3. QED BY <3>2, <4>3, <5>2
      <4>4. CASE ~ ReaderWaits
        <5>1. arrived = Cardinality(Waiting) + 0  BY <4>2, <4>4
        <5>2. arrived' = Cardinality(Waiting') + 0  BY <3>1, <3>3, <4>1, <5>1
        <5>3. QED BY <3>2, <4>4, <5>2
      <4>5. QED BY <4>3, <4>4
    <3>6. \A u \in PredictThreads : predicter'[u].round <= round'
      <4>1. round <= round  BY <1>a
      <4>2. QED BY <1>b, <1>d, <3>1, <4>1
    <3>7. QED BY <1>0, <1>d, <3>1, <3>2, <3>4, <3>5, <3>6 DEF PredicterInv, Meeting
  <2>3. QED BY <2>1, <2>2
<1>3. Reading' /\ Stages' /\ Buffers' /\ RightBeam' /\ Using'  BY <1>0, <1>b, ThreadGoesKeeps
<1>4. QED BY <1>1, <1>2, <1>3 DEF PredicterInv

\* The items that threads hold.
LEMMA HeldItemsByThread ==
  ASSUME NEW t \in PredictThreads,
         \A u \in PredictThreads \ {t} : predicter'[u] = predicter[u]
  PROVE  /\ predicter[t].at # "predict" /\ predicter'[t].at = "predict" =>
              HeldItems' = HeldItems \cup {predicter'[t].item}
         /\ predicter[t].at = "predict" => HeldItems \subseteq HeldItems' \cup {predicter[t].item}
         /\ predicter'[t].at # "predict" => HeldItems' \subseteq HeldItems  BY DEF HeldItems

\* A thread takes the first row of the lane.
LEMMA TakeWorkKeeps ==
  ASSUME PredicterInv, NEW t \in PredictThreads, TakeWork(t)
  PROVE  PredicterInv'
<1> USE DEF predictLaneVars, predictBarrierVars, consumerVars
<1> DEFINE item == Head(workLane)
<1>a. /\ predicter \in [PredictThreads -> [at : Places, item : Item \cup {NoRow}, round : Nat, seen : Nat]]
      /\ workLane \in Seq(Item) /\ beam \in Nat  BY DEF PredicterInv, PredicterTypes
<1>0. /\ predicter[t].at = "read" /\ workLane # <<>> /\ workLane' = Tail(workLane)
      /\ predicter' = [predicter EXCEPT ![t].at = "predict", ![t].item = item, ![t].seen = beam]
      /\ UNCHANGED <<predictJob, reader, nextRow, beam, posted, workEnded, outputLane, outputEnded,
                     freeLane, arrived, round, readerRound, contents, consumer, readChunk, givenChunk, delivered>>
  BY DEF TakeWork
<1>b. /\ item \in Item /\ workLane' \in Seq(Item)
      /\ Elems(workLane) = Elems(workLane') \cup {item}
      /\ HasRow(workLane, item.row)
      /\ RowsOnce(workLane) => /\ RowsOnce(workLane')
                               /\ \A r : HasRow(workLane', r) <=> HasRow(workLane, r) /\ r # item.row
  BY <1>0, <1>a, TailParts
<1> HIDE DEF item
<1>c. /\ predicter'[t].at = "predict" /\ predicter'[t].round = predicter[t].round
      /\ predicter'[t].item = item /\ predicter'[t].seen = beam
      /\ \A u \in PredictThreads \ {t} : predicter'[u] = predicter[u]  BY <1>0, <1>a
<1>d. PredictRows' = PredictRows /\ Item' = Item  BY <1>0 DEF PredictRows, Item
<1>1. PredicterTypes'
  <2>1. predicter' \in [PredictThreads -> [at : Places, item : Item \cup {NoRow}, round : Nat, seen : Nat]]
    BY <1>0, <1>a, <1>b DEF Places
  <2>2. QED BY <1>0, <1>b, <1>d, <2>1 DEF PredicterInv, PredicterTypes
<1>2. Meeting'
  <2>1. t \in Engaged /\ Waiting = {}  BY <1>0 DEF Engaged, Runs, PredicterInv, Meeting
  <2>2. Active  BY <2>1 DEF PredicterInv, Meeting
  <2>3. Waiting' = Waiting /\ Engaged' = Engaged  BY <1>0, <1>c DEF Waiting, Engaged, Waits, Runs
  <2>4. ReaderWaits' = ReaderWaits /\ Active' = Active  BY <1>0 DEF ReaderWaits, Active
  <2>5. \A u \in PredictThreads : predicter'[u].round <= round  BY <1>c DEF PredicterInv, Meeting
  <2>6. QED BY <1>0, <2>1, <2>2, <2>3, <2>4, <2>5 DEF PredicterInv, Meeting
<1>3. Reading'  BY <1>0, ReadingFrame DEF PredicterInv
<1>e. item.row \in PredictRows /\ RowsOnce(workLane)  BY <1>b DEF Item, PredicterInv, Stages
<1>f. \A u \in PredictThreads, r \in PredictRows :
        HeldBy(u, r)' <=> HeldBy(u, r) \/ (u = t /\ r = item.row)  BY <1>0, <1>c DEF HeldBy
<1>g. \A r \in PredictRows : /\ IsHeld(r)' <=> IsHeld(r) \/ r = item.row
                             /\ Given(r)' = Given(r)
                             /\ HasRow(workLane', r) <=> HasRow(workLane, r) /\ r # item.row
  <2>1. \A r \in PredictRows : IsHeld(r)' <=> IsHeld(r) \/ r = item.row  BY <1>f DEF IsHeld
  <2>2. \A r \in PredictRows : Given(r)' = Given(r)  BY <1>0, GivenFrame
  <2>3. QED BY <1>b, <1>e, <2>1, <2>2
<1>4. Stages'
  <2>1. UNCHANGED <<outputLane, readChunk, delivered>>  BY <1>0
  <2>2. \A r \in PredictRows :
          /\ Given(r)' <=> HasRow(workLane', r) \/ IsHeld(r)' \/ HasRow(outputLane, r) \/ HasRow(readChunk, r)
                             \/ HasRow(delivered, r)
          /\ HasRow(workLane', r) => ~ IsHeld(r)' /\ ~ HasRow(outputLane, r)
          /\ HasRow(workLane', r) \/ IsHeld(r)' => ~ HasRow(readChunk, r) /\ ~ HasRow(delivered, r)
          /\ HasRow(outputLane, r) => ~ IsHeld(r)' /\ ~ HasRow(readChunk, r) /\ ~ HasRow(delivered, r)
          /\ HasRow(readChunk, r) => ~ HasRow(delivered, r)  BY <1>b, <1>e, <1>g DEF PredicterInv, Stages
  <2>3. RowsOnce(workLane')  BY <1>b, <1>e
  <2>4. ASSUME NEW u \in PredictThreads, NEW v \in PredictThreads, NEW r \in PredictRows,
               HeldBy(u, r)', HeldBy(v, r)'
        PROVE  u = v
    <3>1. ~ IsHeld(item.row)  BY <1>b, <1>e DEF PredicterInv, Stages
    <3>2. \A w \in PredictThreads : ~ HeldBy(w, item.row)  BY <3>1 DEF IsHeld
    <3>3. QED BY <1>f, <2>4, <3>2 DEF PredicterInv, Stages
  <2>5. QED BY <1>d, <2>1, <2>2, <2>3, <2>4 DEF PredicterInv, Stages
<1>5. Buffers'
  <2>1. HeldItems' = HeldItems \cup {item}  BY <1>0, <1>c, HeldItemsByThread
  <2>2. Carried' = Carried  BY <1>0, <1>b, <2>1 DEF Carried
  <2>3. QED BY <1>0, <2>2, BuffersFrame DEF PredicterInv
<1>6. RightBeam'
  <2>1. UsesBeam' = UsesBeam /\ (\A r : TimeOf(r)' = TimeOf(r))  BY <1>0 DEF UsesBeam, TimeOf
  <2>2. \A found, r : Found(found, r)' = Found(found, r)  BY <2>1 DEF Found
  <2>3. UsesBeam => TimeOf(item.row) = beam /\ \A x \in Elems(workLane') : TimeOf(x.row) = beam
    BY <1>b DEF PredicterInv, RightBeam
  <2>4. UsesBeam => \A u \in PredictThreads :
          predicter'[u].at = "predict" => predicter'[u].seen = beam /\ TimeOf(predicter'[u].item.row) = beam
    BY <1>c, <2>3 DEF PredicterInv, RightBeam
  <2>5. UNCHANGED <<reader, nextRow, beam, outputLane, readChunk, contents, delivered>>  BY <1>0
  <2>6. QED BY <2>1, <2>2, <2>3, <2>4, <2>5 DEF PredicterInv, RightBeam
<1>7. Using'  BY <1>0 DEF PredicterInv, Using
<1>8. QED BY <1>1, <1>2, <1>3, <1>4, <1>5, <1>6, <1>7 DEF PredicterInv

\* A thread puts its row in the output, after it has predicted it in its buffer.
LEMMA PredictKeeps ==
  ASSUME PredicterInv, NEW t \in PredictThreads, Predict(t)
  PROVE  PredicterInv'
<1> USE DEF predictLaneVars, predictBarrierVars, consumerVars
<1> DEFINE item == predicter[t].item
           result == [row |-> item.row, beam |-> {predicter[t].seen, beam}]
<1>a. /\ predicter \in [PredictThreads -> [at : Places, item : Item \cup {NoRow}, round : Nat, seen : Nat]]
      /\ outputLane \in Seq(Item) /\ beam \in Nat
      /\ contents \in [PredictBuffers -> [row : Nat, beam : SUBSET Nat]]  BY DEF PredicterInv, PredicterTypes
<1>0. /\ predicter[t].at = "predict"
      /\ contents' = [contents EXCEPT ![item.buffer] = result]
      /\ outputLane' = Append(outputLane, item)
      /\ predicter' = [predicter EXCEPT ![t].at = "read"]
      /\ UNCHANGED <<predictJob, reader, nextRow, beam, posted, workLane, workEnded, outputEnded,
                     freeLane, arrived, round, readerRound, consumer, readChunk, givenChunk, delivered>>
  BY DEF Predict
<1>b. item \in HeldItems  BY <1>0 DEF HeldItems
<1>c. item \in Carried /\ item \in Item /\ item.row \in PredictRows /\ item.buffer \in PredictBuffers
  <2>1. item \in Carried  BY <1>b DEF Carried
  <2>2. item \in Item  BY <2>1 DEF PredicterInv, Buffers
  <2>3. QED BY <2>1, <2>2 DEF Item
<1>d. /\ predicter'[t].at = "read" /\ predicter'[t].round = predicter[t].round
      /\ \A u \in PredictThreads \ {t} : predicter'[u] = predicter[u]  BY <1>0, <1>a
<1>e. PredictRows' = PredictRows /\ Item' = Item  BY <1>0 DEF PredictRows, Item
<1>s. predicter[t].seen \in Nat /\ item.row \in Nat
  <2>1. PredictRows \subseteq Nat  BY RowFacts DEF PredicterInv
  <2>2. QED BY <1>a, <1>c, <2>1
<1>r. result \in [row : Nat, beam : SUBSET Nat] /\ result.row = item.row /\ result.beam = {predicter[t].seen, beam}
  BY <1>a, <1>s
<1> HIDE DEF result
<1>t. HeldBy(t, item.row)  BY <1>0 DEF HeldBy
<1> HIDE DEF item
<1>f. /\ outputLane' \in Seq(Item)
      /\ Elems(outputLane') = Elems(outputLane) \cup {item}
      /\ \A r : HasRow(outputLane', r) <=> HasRow(outputLane, r) \/ r = item.row
      /\ RowsOnce(outputLane) /\ ~ HasRow(outputLane, item.row) => RowsOnce(outputLane')
  BY <1>0, <1>a, <1>c, AppendParts
<1>1. PredicterTypes'
  <2>1. predicter' \in [PredictThreads -> [at : Places, item : Item \cup {NoRow}, round : Nat, seen : Nat]]
    BY <1>0, <1>a DEF Places
  <2>2. contents' \in [PredictBuffers -> [row : Nat, beam : SUBSET Nat]]  BY <1>0, <1>a, <1>r
  <2>3. QED BY <1>0, <1>e, <1>f, <2>1, <2>2 DEF PredicterInv, PredicterTypes
<1>2. Meeting'
  <2>1. \A u \in PredictThreads : /\ Waits(u)' = Waits(u) /\ Runs(u)' = Runs(u)
                                  /\ predicter'[u].round <= round
    <3>1. ~ Waits(t) /\ ~ Waits(t)' /\ Runs(t) /\ Runs(t)'  BY <1>0, <1>d DEF Waits, Runs
    <3>2. ASSUME NEW u \in PredictThreads \ {t} PROVE Waits(u)' = Waits(u) /\ Runs(u)' = Runs(u)
      BY <1>0, <1>d DEF Waits, Runs
    <3>3. \A u \in PredictThreads : predicter'[u].round <= round  BY <1>d DEF PredicterInv, Meeting
    <3>4. TAKE u \in PredictThreads
    <3>5. CASE u = t  BY <3>1, <3>3, <3>5 DEF Waits, Runs
    <3>6. CASE u # t  BY <3>2, <3>3, <3>6
    <3>7. QED BY <3>5, <3>6
  <2>2. QED BY <1>0, <2>1, MeetingFrame DEF PredicterInv
<1>3. Reading'  BY <1>0, ReadingFrame DEF PredicterInv
<1>h. \A u \in PredictThreads, r \in PredictRows :
        HeldBy(u, r)' <=> HeldBy(u, r) /\ u # t  BY <1>0, <1>d DEF HeldBy
<1>i. \A r \in PredictRows : HeldBy(t, r) => r = item.row  BY DEF HeldBy, item
<1>g. \A r \in PredictRows : /\ IsHeld(r)' <=> IsHeld(r) /\ r # item.row
                             /\ Given(r)' = Given(r)
  <2>1. ASSUME NEW r \in PredictRows, IsHeld(r)' PROVE IsHeld(r) /\ r # item.row
    <3>1. PICK u \in PredictThreads : HeldBy(u, r)'  BY <2>1 DEF IsHeld
    <3>2. HeldBy(u, r) /\ u # t  BY <1>h, <3>1
    <3>3. QED BY <1>t, <3>2 DEF IsHeld, PredicterInv, Stages
  <2>2. ASSUME NEW r \in PredictRows, IsHeld(r), r # item.row PROVE IsHeld(r)'
    <3>1. PICK u \in PredictThreads : HeldBy(u, r)  BY <2>2 DEF IsHeld
    <3>2. HeldBy(u, r)'  BY <1>h, <1>i, <2>2, <3>1
    <3>3. QED BY <3>2 DEF IsHeld
  <2>3. \A r \in PredictRows : Given(r)' = Given(r)  BY <1>0, GivenFrame
  <2>4. QED BY <2>1, <2>2, <2>3
<1>j. IsHeld(item.row)  BY <1>t DEF IsHeld
<1>4. Stages'
  <2>1. UNCHANGED <<workLane, readChunk, delivered>>  BY <1>0
  <2>2. \A r \in PredictRows :
          /\ Given(r)' <=> HasRow(workLane, r) \/ IsHeld(r)' \/ HasRow(outputLane', r) \/ HasRow(readChunk, r)
                             \/ HasRow(delivered, r)
          /\ HasRow(workLane, r) => ~ IsHeld(r)' /\ ~ HasRow(outputLane', r)
          /\ HasRow(workLane, r) \/ IsHeld(r)' => ~ HasRow(readChunk, r) /\ ~ HasRow(delivered, r)
          /\ HasRow(outputLane', r) => ~ IsHeld(r)' /\ ~ HasRow(readChunk, r) /\ ~ HasRow(delivered, r)
          /\ HasRow(readChunk, r) => ~ HasRow(delivered, r)  BY <1>c, <1>f, <1>g, <1>j DEF PredicterInv, Stages
  <2>3. RowsOnce(outputLane')  BY <1>c, <1>f, <1>j DEF PredicterInv, Stages
  <2>4. \A u, v \in PredictThreads, r \in PredictRows : HeldBy(u, r)' /\ HeldBy(v, r)' => u = v
    BY <1>h DEF PredicterInv, Stages
  <2>5. QED BY <1>e, <2>1, <2>2, <2>3, <2>4 DEF PredicterInv, Stages
<1>5. Buffers'
  <2>1. HeldItems \subseteq HeldItems' \cup {item} /\ HeldItems' \subseteq HeldItems
    BY <1>0, <1>d, HeldItemsByThread DEF item
  <2>2. Carried' = Carried  BY <1>0, <1>b, <1>f, <2>1 DEF Carried
  <2>3. QED BY <1>0, <2>2, BuffersFrame DEF PredicterInv
<1>6. RightBeam'
  <2>1. UsesBeam' = UsesBeam /\ (\A r : TimeOf(r)' = TimeOf(r))  BY <1>0 DEF UsesBeam, TimeOf
  <2>2. \A found, r : Found(found, r)' = Found(found, r)  BY <2>1 DEF Found
  <2>3. \A x \in Elems(outputLane) \cup Elems(readChunk) : x.buffer # item.buffer /\ x.buffer \in PredictBuffers
    <3>1. ASSUME NEW x \in Elems(outputLane) \cup Elems(readChunk) PROVE x # item
      <4>1. HasRow(outputLane, x.row) \/ HasRow(readChunk, x.row)  BY RowOfElem
      <4>2. QED BY <1>c, <1>j, <4>1 DEF PredicterInv, Stages
    <3>2. QED BY <1>c, <3>1 DEF PredicterInv, Buffers, Carried, Item
  <2>4. \A x \in Elems(outputLane) \cup Elems(readChunk) : contents'[x.buffer] = contents[x.buffer]
    BY <1>0, <1>a, <2>3
  <2>5. Found(contents'[item.buffer], item.row)
    <3>1. contents'[item.buffer] = result  BY <1>0, <1>a, <1>c
    <3>2. UsesBeam => predicter[t].seen = beam /\ TimeOf(item.row) = beam  BY <1>0 DEF PredicterInv, RightBeam, item
    <3>3. QED BY <1>r, <3>1, <3>2 DEF Found
  <2>6. \A x \in Elems(outputLane') \cup Elems(readChunk) : Found(contents'[x.buffer], x.row)
    BY <1>f, <2>4, <2>5 DEF PredicterInv, RightBeam
  <2>7. UsesBeam => \A u \in PredictThreads :
          predicter'[u].at = "predict" => predicter'[u].seen = beam /\ TimeOf(predicter'[u].item.row) = beam
    BY <1>d DEF PredicterInv, RightBeam
  <2>8. UNCHANGED <<reader, nextRow, beam, workLane, readChunk, delivered>>  BY <1>0
  <2>9. QED BY <2>1, <2>2, <2>6, <2>7, <2>8 DEF PredicterInv, RightBeam
<1>7. Using'
  <2>1. reader # "gone"
    <3>1. CASE reader = "gone"
      <4>1. ~ Active  BY <3>1 DEF Active, ReaderWaits
      <4>2. QED BY <1>0, <4>1, NothingOnItsWay
    <3>2. QED BY <3>1
  <2>2. QED BY <1>0, <2>1 DEF PredicterInv, Using
<1>8. QED BY <1>1, <1>2, <1>3, <1>4, <1>5, <1>6, <1>7 DEF PredicterInv

----
(* Steps of the caller *)

\* What a step of the caller leaves to the threads.
LEMMA CallerFrame ==
  ASSUME PredicterInv,
         UNCHANGED <<predictJob, reader, nextRow, beam, posted, predicter, workLane, workEnded, outputEnded,
                     arrived, round, readerRound, contents>>
  PROVE  /\ Meeting' /\ Reading'
         /\ \A r \in PredictRows : Given(r)' = Given(r) /\ IsHeld(r)' = IsHeld(r)
         /\ \A t \in PredictThreads, r \in PredictRows : HeldBy(t, r)' = HeldBy(t, r)
         /\ PredictRows' = PredictRows /\ Item' = Item /\ UsesBeam' = UsesBeam
         /\ \A found, r : Found(found, r)' = Found(found, r)
         /\ \A r : TimeOf(r)' = TimeOf(r)
         /\ HeldItems' = HeldItems
<1>1. Meeting'
  <2>1. \A t \in PredictThreads : /\ Waits(t)' = Waits(t) /\ Runs(t)' = Runs(t)
                                  /\ predicter'[t].round <= round  BY DEF Waits, Runs, PredicterInv, Meeting
  <2>2. QED BY <2>1, MeetingFrame DEF PredicterInv
<1>2. Reading'  BY ReadingFrame DEF PredicterInv
<1>3. \A r \in PredictRows : Given(r)' = Given(r)  BY GivenFrame
<1>4. \A t \in PredictThreads, r \in PredictRows : HeldBy(t, r)' = HeldBy(t, r)  BY DEF HeldBy
<1>5. \A r \in PredictRows : IsHeld(r)' = IsHeld(r)  BY <1>4 DEF IsHeld
<1>6. PredictRows' = PredictRows /\ Item' = Item /\ UsesBeam' = UsesBeam /\ HeldItems' = HeldItems
  BY DEF PredictRows, Item, UsesBeam, HeldItems
<1>7. \A r : TimeOf(r)' = TimeOf(r)  BY DEF TimeOf
<1>8. \A found, r : Found(found, r)' = Found(found, r)  BY <1>6, <1>7 DEF Found
<1>9. QED BY <1>1, <1>2, <1>3, <1>4, <1>5, <1>6, <1>7, <1>8

LEMMA FillChunkKeeps ==
  ASSUME PredicterInv, FillChunk
  PROVE  PredicterInv'
<1> USE DEF predictLaneVars, predictBarrierVars, consumerVars
<1> DEFINE item == Head(outputLane)
<1>a. outputLane \in Seq(Item) /\ readChunk \in Seq(Item)  BY DEF PredicterInv, PredicterTypes
<1>0. /\ consumer = "get" /\ outputLane # <<>>
      /\ readChunk' = Append(readChunk, item) /\ outputLane' = Tail(outputLane)
      /\ UNCHANGED <<predictJob, reader, nextRow, beam, posted, predicter, workLane, workEnded, outputEnded,
                     freeLane, arrived, round, readerRound, contents, consumer, givenChunk, delivered>>
  BY DEF FillChunk
<1>b. /\ item \in Item /\ outputLane' \in Seq(Item)
      /\ Elems(outputLane) = Elems(outputLane') \cup {item}
      /\ HasRow(outputLane, item.row)
      /\ RowsOnce(outputLane) => /\ RowsOnce(outputLane')
                                 /\ \A r : HasRow(outputLane', r) <=> HasRow(outputLane, r) /\ r # item.row
  BY <1>0, <1>a, TailParts
<1> HIDE DEF item
<1>c. /\ readChunk' \in Seq(Item)
      /\ Elems(readChunk') = Elems(readChunk) \cup {item}
      /\ \A r : HasRow(readChunk', r) <=> HasRow(readChunk, r) \/ r = item.row
      /\ RowsOnce(readChunk) /\ ~ HasRow(readChunk, item.row) => RowsOnce(readChunk')
  BY <1>0, <1>a, <1>b, AppendParts
<1>d. item.row \in PredictRows /\ RowsOnce(outputLane)  BY <1>b DEF Item, PredicterInv, Stages
<1>f. /\ Meeting' /\ Reading'
      /\ \A r \in PredictRows : Given(r)' = Given(r) /\ IsHeld(r)' = IsHeld(r)
      /\ \A t \in PredictThreads, r \in PredictRows : HeldBy(t, r)' = HeldBy(t, r)
      /\ PredictRows' = PredictRows /\ Item' = Item /\ UsesBeam' = UsesBeam
      /\ \A found, r : Found(found, r)' = Found(found, r)
      /\ \A r : TimeOf(r)' = TimeOf(r)
      /\ HeldItems' = HeldItems  BY <1>0, CallerFrame
<1>1. PredicterTypes'  BY <1>0, <1>b, <1>c, <1>f DEF PredicterInv, PredicterTypes
<1>4. Stages'
  <2>1. UNCHANGED <<workLane, delivered>>  BY <1>0
  <2>2. \A r \in PredictRows :
          /\ Given(r) <=> HasRow(workLane, r) \/ IsHeld(r) \/ HasRow(outputLane', r) \/ HasRow(readChunk', r)
                             \/ HasRow(delivered, r)
          /\ HasRow(workLane, r) => ~ IsHeld(r) /\ ~ HasRow(outputLane', r)
          /\ HasRow(workLane, r) \/ IsHeld(r) => ~ HasRow(readChunk', r) /\ ~ HasRow(delivered, r)
          /\ HasRow(outputLane', r) => ~ IsHeld(r) /\ ~ HasRow(readChunk', r) /\ ~ HasRow(delivered, r)
          /\ HasRow(readChunk', r) => ~ HasRow(delivered, r)  BY <1>b, <1>c, <1>d DEF PredicterInv, Stages
  <2>3. RowsOnce(outputLane') /\ RowsOnce(readChunk')  BY <1>b, <1>c, <1>d DEF PredicterInv, Stages
  <2>4. QED BY <1>f, <2>1, <2>2, <2>3 DEF PredicterInv, Stages
<1>5. Buffers'
  <2>1. Carried' = Carried  BY <1>0, <1>b, <1>c, <1>f DEF Carried
  <2>2. QED BY <1>0, <2>1, BuffersFrame DEF PredicterInv
<1>6. RightBeam'
  <2>1. Elems(outputLane') \cup Elems(readChunk') = Elems(outputLane) \cup Elems(readChunk)  BY <1>b, <1>c
  <2>2. UNCHANGED <<reader, nextRow, beam, predicter, workLane, contents, delivered>>  BY <1>0
  <2>3. QED BY <1>f, <2>1, <2>2 DEF PredicterInv, RightBeam
<1>7. Using'  BY <1>0 DEF PredicterInv, Using
<1>8. QED BY <1>1, <1>4, <1>5, <1>6, <1>7, <1>f DEF PredicterInv

\* An empty chunk is complete only when there is nothing more to come.
LEMMA StartUsingKeeps ==
  ASSUME PredicterInv, StartUsing
  PROVE  PredicterInv'
<1> USE DEF predictLaneVars, predictBarrierVars, consumerVars
<1>0. /\ ChunkIsComplete
      /\ \/ readChunk = <<>> /\ consumer' = "done"
         \/ readChunk # <<>> /\ consumer' = "use"
      /\ UNCHANGED <<predictJob, reader, nextRow, beam, posted, predicter, workLane, workEnded, outputLane,
                     outputEnded, freeLane, arrived, round, readerRound, contents, readChunk, givenChunk, delivered>>
  BY DEF StartUsing
<1>f. /\ Meeting' /\ Reading'
      /\ \A r \in PredictRows : Given(r)' = Given(r) /\ IsHeld(r)' = IsHeld(r)
      /\ \A t \in PredictThreads, r \in PredictRows : HeldBy(t, r)' = HeldBy(t, r)
      /\ PredictRows' = PredictRows /\ Item' = Item /\ UsesBeam' = UsesBeam
      /\ \A found, r : Found(found, r)' = Found(found, r)
      /\ \A r : TimeOf(r)' = TimeOf(r)
      /\ HeldItems' = HeldItems  BY <1>0, CallerFrame
<1>1. PredicterTypes'  BY <1>0, <1>f DEF PredicterInv, PredicterTypes
<1>4. Stages' /\ Buffers'  BY <1>0, ReaderStepKeeps
<1>6. RightBeam'  BY <1>0, RightBeamFrame DEF PredicterInv
<1>7. Using'
  <2>1. CASE readChunk = <<>> /\ consumer' = "done"
    <3>1. Len(readChunk) = 0  BY <2>1
    <3>2. PredictChunk # 0  BY PredictAssumption DEF PredictAssumption
    <3>3. outputLane = <<>> /\ outputEnded  BY <1>0, <3>1, <3>2 DEF ChunkIsComplete
    <3>4. reader = "gone"  BY <3>3 DEF PredicterInv, Reading
    <3>5. QED BY <1>0, <2>1, <3>3, <3>4 DEF Using
  <2>2. CASE readChunk # <<>> /\ consumer' = "use"  BY <1>0, <2>2 DEF Using
  <2>3. QED BY <1>0, <2>1, <2>2
<1>8. QED BY <1>1, <1>4, <1>6, <1>7, <1>f DEF PredicterInv

\* The first row of the chunk is used, and its buffer is given back with the chunk.
LEMMA UseRowKeeps ==
  ASSUME PredicterInv, UseRow
  PROVE  PredicterInv'
<1> USE DEF predictLaneVars, predictBarrierVars, consumerVars
<1> DEFINE item == Head(readChunk)
           given == Append(givenChunk, item.buffer)
           use == [row |-> item.row, found |-> contents[item.buffer]]
<1>a. /\ readChunk \in Seq(Item) /\ givenChunk \in Seq(PredictBuffers) /\ freeLane \in Seq(PredictBuffers)
      /\ contents \in [PredictBuffers -> [row : Nat, beam : SUBSET Nat]]
      /\ delivered \in Seq([row : PredictRows, found : [row : Nat, beam : SUBSET Nat]])
  BY DEF PredicterInv, PredicterTypes
<1>0. /\ consumer = "use"
      /\ delivered' = Append(delivered, use)
      /\ readChunk' = Tail(readChunk)
      /\ \/ Len(readChunk) = 1 /\ consumer' = "get"
         \/ Len(readChunk) # 1 /\ consumer' = "use"
      /\ \/ freeLane' = freeLane \o given /\ givenChunk' = <<>>
         \/ freeLane' = freeLane /\ givenChunk' = given
      /\ UNCHANGED <<predictJob, reader, nextRow, beam, posted, predicter, workLane, workEnded, outputLane,
                     outputEnded, arrived, round, readerRound, contents>>  BY DEF UseRow
<1>n. readChunk # <<>>  BY <1>0 DEF PredicterInv, Using
<1>b. /\ item \in Item /\ readChunk' \in Seq(Item)
      /\ Elems(readChunk) = Elems(readChunk') \cup {item}
      /\ HasRow(readChunk, item.row)
      /\ RowsOnce(readChunk) => /\ RowsOnce(readChunk')
                                /\ \A r : HasRow(readChunk', r) <=> HasRow(readChunk, r) /\ r # item.row
  BY <1>0, <1>a, <1>n, TailParts
<1>m. consumer' = "use" => readChunk' # <<>>
  <2>1. /\ Len(readChunk) \in Nat \ {0} /\ readChunk' \in Seq(Item) /\ Len(readChunk') = Len(readChunk) - 1
    BY <1>0, <1>a, <1>n, HeadTailProperties, LenProperties, EmptySeq
  <2>2. ASSUME consumer' = "use" PROVE Len(readChunk') # 0
    <3>1. Len(readChunk) # 1  BY <1>0, <2>2
    <3>2. QED BY <2>1, <3>1
  <2>3. QED BY <2>1, <2>2, EmptySeq
<1> HIDE DEF item
<1>c. item.row \in PredictRows /\ item.buffer \in PredictBuffers /\ RowsOnce(readChunk)
  BY <1>b DEF Item, PredicterInv, Stages
<1>u. /\ use \in [row : PredictRows, found : [row : Nat, beam : SUBSET Nat]]
      /\ use.row = item.row /\ use.found = contents[item.buffer]  BY <1>a, <1>c
<1> HIDE DEF use
<1>d. /\ delivered' \in Seq([row : PredictRows, found : [row : Nat, beam : SUBSET Nat]])
      /\ Elems(delivered') = Elems(delivered) \cup {use}
      /\ \A r : HasRow(delivered', r) <=> HasRow(delivered, r) \/ r = item.row
      /\ RowsOnce(delivered) /\ ~ HasRow(delivered, item.row) => RowsOnce(delivered')
  <2> DEFINE Uses == [row : PredictRows, found : [row : Nat, beam : SUBSET Nat]]
  <2>1. delivered \in Seq(Uses) /\ use \in Uses /\ delivered' = Append(delivered, use)  BY <1>0, <1>a, <1>u
  <2> HIDE DEF Uses
  <2>2. /\ Append(delivered, use) \in Seq(Uses)
        /\ Elems(Append(delivered, use)) = Elems(delivered) \cup {use}
        /\ \A r : HasRow(Append(delivered, use), r) <=> HasRow(delivered, r) \/ r = use.row
        /\ RowsOnce(delivered) /\ ~ HasRow(delivered, use.row) => RowsOnce(Append(delivered, use))
    BY <2>1, AppendParts
  <2>3. QED BY <1>u, <2>1, <2>2 DEF Uses
<1>e. item \in Carried  BY <1>b DEF Carried
<1>g. /\ item.buffer \notin Elems(freeLane) /\ item.buffer \notin Elems(givenChunk)
      /\ Elems(freeLane) \cap Elems(givenChunk) = {} /\ Once(freeLane) /\ Once(givenChunk)
  BY <1>e DEF PredicterInv, Buffers
<1>h. /\ given \in Seq(PredictBuffers) /\ Elems(given) = Elems(givenChunk) \cup {item.buffer} /\ Once(given)
  BY <1>a, <1>c, <1>g, AppendParts
<1> HIDE DEF given
<1>i. /\ freeLane' \in Seq(PredictBuffers) /\ givenChunk' \in Seq(PredictBuffers)
      /\ Elems(freeLane') \cup Elems(givenChunk') = Elems(freeLane) \cup Elems(givenChunk) \cup {item.buffer}
      /\ Elems(freeLane') \cap Elems(givenChunk') = {}
      /\ Once(freeLane') /\ Once(givenChunk')
  <2>1. CASE freeLane' = freeLane \o given /\ givenChunk' = <<>>
    <3>1. Elems(freeLane) \cap Elems(given) = {}  BY <1>g, <1>h
    <3>2. /\ freeLane' \in Seq(PredictBuffers)
          /\ Elems(freeLane') = Elems(freeLane) \cup Elems(given)
          /\ Once(freeLane')  BY <1>a, <1>g, <1>h, <2>1, <3>1, ConcatParts
    <3>3. /\ givenChunk' \in Seq(PredictBuffers) /\ Elems(givenChunk') = {} /\ Once(givenChunk')
      BY <2>1, EmptyParts, EmptySeq
    <3>4. QED BY <1>h, <3>2, <3>3
  <2>2. CASE freeLane' = freeLane /\ givenChunk' = given  BY <1>a, <1>g, <1>h, <2>2
  <2>3. QED BY <1>0, <2>1, <2>2
<1>f. /\ Meeting' /\ Reading'
      /\ \A r \in PredictRows : Given(r)' = Given(r) /\ IsHeld(r)' = IsHeld(r)
      /\ \A t \in PredictThreads, r \in PredictRows : HeldBy(t, r)' = HeldBy(t, r)
      /\ PredictRows' = PredictRows /\ Item' = Item /\ UsesBeam' = UsesBeam
      /\ \A found, r : Found(found, r)' = Found(found, r)
      /\ \A r : TimeOf(r)' = TimeOf(r)
      /\ HeldItems' = HeldItems  BY <1>0, CallerFrame
<1>1. PredicterTypes'
  <2>1. consumer' \in {"get", "use", "done"}  BY <1>0
  <2>2. UNCHANGED <<predictJob, reader, nextRow, beam, posted, predicter, workLane, workEnded, outputLane,
                     outputEnded, arrived, round, readerRound, contents>>  BY <1>0
  <2>3. QED BY <1>b, <1>d, <1>f, <1>i, <2>1, <2>2 DEF PredicterInv, PredicterTypes
<1>4. Stages'
  <2>1. UNCHANGED <<workLane, outputLane>>  BY <1>0
  <2>2. \A r \in PredictRows :
          /\ Given(r) <=> HasRow(workLane, r) \/ IsHeld(r) \/ HasRow(outputLane, r) \/ HasRow(readChunk', r)
                             \/ HasRow(delivered', r)
          /\ HasRow(workLane, r) => ~ IsHeld(r) /\ ~ HasRow(outputLane, r)
          /\ HasRow(workLane, r) \/ IsHeld(r) => ~ HasRow(readChunk', r) /\ ~ HasRow(delivered', r)
          /\ HasRow(outputLane, r) => ~ IsHeld(r) /\ ~ HasRow(readChunk', r) /\ ~ HasRow(delivered', r)
          /\ HasRow(readChunk', r) => ~ HasRow(delivered', r)  BY <1>b, <1>c, <1>d DEF PredicterInv, Stages
  <2>3. RowsOnce(readChunk') /\ RowsOnce(delivered')  BY <1>b, <1>c, <1>d DEF PredicterInv, Stages
  <2>4. QED BY <1>f, <2>1, <2>2, <2>3 DEF PredicterInv, Stages
<1>k. \A x \in Elems(workLane) \cup HeldItems \cup Elems(outputLane) \cup Elems(readChunk') : x # item
  <2>1. \A r \in {item.row} : ~ HasRow(workLane, r) /\ ~ IsHeld(r) /\ ~ HasRow(outputLane, r) /\ ~ HasRow(readChunk', r)
    BY <1>b, <1>c DEF PredicterInv, Stages
  <2>2. item \notin HeldItems  BY <2>1 DEF HeldItems, IsHeld, HeldBy
  <2>3. QED BY <2>1, <2>2, RowOfElem
<1>5. Buffers'
  <2>1. UNCHANGED <<workLane, outputLane>>  BY <1>0
  <2>2. Carried' \subseteq Carried  BY <1>b, <1>f, <2>1 DEF Carried
  <2>3. \A x \in Carried' : x # item  BY <1>f, <1>k, <2>1 DEF Carried
  <2>4. \A x \in Carried' : x.buffer # item.buffer  BY <1>e, <2>2, <2>3 DEF PredicterInv, Buffers
  <2>5. QED BY <1>f, <1>i, <2>2, <2>4 DEF PredicterInv, Buffers
<1>6. RightBeam'
  <2>1. Elems(readChunk') \subseteq Elems(readChunk)  BY <1>b
  <2>2. UNCHANGED <<reader, nextRow, beam, predicter, workLane, outputLane, contents>>  BY <1>0
  <2>3. Found(use.found, use.row)  BY <1>b, <1>u DEF PredicterInv, RightBeam
  <2>4. \A i \in DOMAIN delivered' : Found(delivered'[i].found, delivered'[i].row)
    <3>1. \A d \in Elems(delivered) : Found(d.found, d.row)  BY DEF Elems, PredicterInv, RightBeam
    <3>2. \A d \in Elems(delivered') : Found(d.found, d.row)  BY <1>d, <2>3, <3>1
    <3>3. QED BY <3>2 DEF Elems
  <2>5. QED BY <1>f, <2>1, <2>2, <2>4 DEF PredicterInv, RightBeam
<1>7. Using'  BY <1>0, <1>m DEF Using
<1>8. QED BY <1>1, <1>4, <1>5, <1>6, <1>7, <1>f DEF PredicterInv

----
(* The theorems *)

LEMMA PredicterStarts ==
  ASSUME PredicterInit
  PROVE  PredicterInv
<1>0. /\ predictJob \in PredictJobs
      /\ reader = "next" /\ nextRow = 1 /\ beam = TimeOf(1)
      /\ \/ predictJob.modelColumn /\ posted = 0
         \/ ~ predictJob.modelColumn /\ posted = Cardinality(PredictThreads)
      /\ predicter = [t \in PredictThreads |-> [at |-> "idle", item |-> NoRow, round |-> 0, seen |-> AnyTime]]
      /\ workLane = <<>> /\ workEnded = FALSE /\ outputLane = <<>> /\ outputEnded = FALSE
      /\ freeLane = [b \in PredictBuffers |-> b]
      /\ arrived = 0 /\ round = 0 /\ readerRound = 0
      /\ contents = [b \in PredictBuffers |-> [row |-> 0, beam |-> {}]]
      /\ consumer = "get" /\ readChunk = <<>> /\ givenChunk = <<>> /\ delivered = <<>>  BY DEF PredicterInit
<1>a. /\ predictJob.rows \in Seq([time : Nat, cross : BOOLEAN]) /\ predictJob.rows # <<>>
      /\ predictJob.applyBeam \in BOOLEAN /\ predictJob.modelColumn \in BOOLEAN
      /\ PredictLane \in Nat  BY <1>0, PredictAssumption DEF PredictAssumption
<1>b. Len(predictJob.rows) \in Nat \ {0} /\ PredictRows = 1 .. Len(predictJob.rows)
  BY <1>a, LenProperties, EmptySeq DEF PredictRows
<1>c. 1 \in PredictRows /\ beam \in Nat
  <2>1. 1 \in PredictRows  BY <1>b
  <2>2. predictJob.rows[1] \in [time : Nat, cross : BOOLEAN]  BY <1>a, <1>b, <2>1, ElementOfSeq
  <2>3. QED BY <1>0, <2>1, <2>2 DEF TimeOf
<1>d. /\ freeLane \in Seq(PredictBuffers)
      /\ Once(freeLane)
  <2>1. \A b \in 1 .. PredictLane : freeLane[b] = b  BY <1>0 DEF PredictBuffers
  <2>2. DOMAIN freeLane = 1 .. PredictLane  BY <1>0 DEF PredictBuffers
  <2>3. freeLane \in [1 .. PredictLane -> PredictBuffers]  BY <1>0 DEF PredictBuffers
  <2>4. freeLane \in Seq(PredictBuffers)  BY <1>a, <2>3, SeqDef
  <2>5. QED BY <2>1, <2>2, <2>4 DEF Once
<1>e. \A t \in PredictThreads : predicter[t] = [at |-> "idle", item |-> NoRow, round |-> 0, seen |-> AnyTime]  BY <1>0
<1>f. \A t \in PredictThreads : predicter[t].at = "idle" /\ predicter[t].round = 0  BY <1>e
<1>1. PredicterTypes
  <2>1. /\ predicter \in [PredictThreads -> [at : Places, item : Item \cup {NoRow}, round : Nat, seen : Nat]]
    BY <1>0 DEF Places, AnyTime
  <2>2. posted \in Nat  BY <1>0, ThreadNumber
  <2>3. contents \in [PredictBuffers -> [row : Nat, beam : SUBSET Nat]]  BY <1>0
  <2>4. nextRow \in 1 .. Len(predictJob.rows) + 1  BY <1>0, <1>b
  <2>5. /\ \A S : <<>> \in Seq(S)  OBVIOUS
  <2>6. reader \in ReaderPlaces /\ consumer \in {"get", "use", "done"} /\ workEnded \in BOOLEAN /\ outputEnded \in BOOLEAN
        /\ arrived \in Nat /\ round \in Nat /\ readerRound \in Nat /\ predictJob \in PredictJobs
    BY <1>0 DEF ReaderPlaces
  <2>7. /\ workLane \in Seq(Item) /\ outputLane \in Seq(Item) /\ readChunk \in Seq(Item)
        /\ givenChunk \in Seq(PredictBuffers)
        /\ delivered \in Seq([row : PredictRows, found : [row : Nat, beam : SUBSET Nat]])  BY <1>0, <2>5
  <2>8. QED BY <1>c, <1>d, <2>1, <2>2, <2>3, <2>4, <2>6, <2>7 DEF PredicterTypes
<1>2. Meeting
  <2>1. Waiting = {} /\ Engaged = {}  BY <1>f DEF Waiting, Engaged, Waits, Runs
  <2>2. ~ ReaderWaits /\ (Active <=> ~ predictJob.modelColumn)  BY <1>0 DEF ReaderWaits, Active
  <2>3. arrived = Cardinality(Waiting) + 0  BY <1>0, <2>1, ThreadNumber
  <2>4. Active => posted + Cardinality(Engaged) = Cardinality(PredictThreads)
    <3>1. ASSUME Active PROVE posted = Cardinality(PredictThreads)  BY <1>0, <2>2, <3>1
    <3>2. Cardinality(Engaged) = 0 /\ Cardinality(PredictThreads) \in Nat  BY <2>1, ThreadNumber
    <3>3. QED BY <3>1, <3>2
  <2>5. ~ Active => posted = 0  BY <1>0, <2>2
  <2>6. \A t \in PredictThreads : predicter[t].round <= round  BY <1>0, <1>f
  <2>7. QED BY <1>0, <2>1, <2>2, <2>3, <2>4, <2>5, <2>6 DEF Meeting
<1>3. Reading  BY <1>0 DEF Reading
<1>4. \A t \in PredictThreads, r \in PredictRows : ~ HeldBy(t, r)  BY <1>f DEF HeldBy
<1>5. \A r \in PredictRows : ~ Given(r) /\ ~ IsHeld(r)
  <2>1. \A r \in PredictRows : ~ (r < nextRow)  BY <1>0, <1>b
  <2>2. QED BY <1>4, <2>1 DEF Given, IsHeld
<1>g. /\ \A r : ~ HasRow(workLane, r) /\ ~ HasRow(outputLane, r) /\ ~ HasRow(readChunk, r) /\ ~ HasRow(delivered, r)
      /\ RowsOnce(workLane) /\ RowsOnce(outputLane) /\ RowsOnce(readChunk) /\ RowsOnce(delivered)
      /\ Elems(workLane) = {} /\ Elems(outputLane) = {} /\ Elems(readChunk) = {} /\ Elems(givenChunk) = {}
      /\ Once(givenChunk)  BY <1>0, EmptyParts
<1>6. Stages  BY <1>4, <1>5, <1>g DEF Stages
<1>7. Buffers
  <2>1. HeldItems = {}  BY <1>f DEF HeldItems
  <2>2. Carried = {}  BY <1>g, <2>1 DEF Carried
  <2>3. QED BY <1>d, <1>g, <2>2 DEF Buffers
<1>8. RightBeam
  <2>1. DOMAIN <<>> = {}  OBVIOUS
  <2>2. DOMAIN delivered = {}  BY <1>0, <2>1
  <2>3. reader # "take buffer"  BY <1>0
  <2>4. QED BY <1>f, <1>g, <2>2, <2>3 DEF RightBeam
<1>9. Using  BY <1>0 DEF Using
<1>10. QED BY <1>1, <1>2, <1>3, <1>6, <1>7, <1>8, <1>9 DEF PredicterInv

LEMMA PredicterStutters ==
  ASSUME PredicterInv, UNCHANGED predicterVars
  PROVE  PredicterInv'
<1> USE DEF predicterVars
<1>1. PredicterTypes' /\ Reading' /\ Using'  BY DEF PredicterInv, PredicterTypes, Reading, Using, Item, PredictRows
<1>2. Meeting'
  <2>1. \A t \in PredictThreads : /\ Waits(t)' = Waits(t) /\ Runs(t)' = Runs(t)
                                  /\ predicter'[t].round <= round  BY DEF Waits, Runs, PredicterInv, Meeting
  <2>2. QED BY <2>1, MeetingFrame DEF PredicterInv
<1>3. Stages' /\ Buffers'  BY ReaderStepKeeps
<1>4. RightBeam'  BY RightBeamFrame DEF PredicterInv
<1>5. QED BY <1>1, <1>2, <1>3, <1>4 DEF PredicterInv

LEMMA PredicterInvHolds == PredicterSpec => []PredicterInv
<1>1. PredicterInit => PredicterInv  BY PredicterStarts
<1>2. PredicterInv /\ [PredicterNext]_predicterVars => PredicterInv'
  <2> SUFFICES ASSUME PredicterInv, [PredicterNext]_predicterVars PROVE PredicterInv'  OBVIOUS
  <2>1. CASE ReaderThreadStep
    BY <2>1, SkipAutoCorrelationKeeps, ReadCrossCorrelationKeeps, ReaderAtBarrierKeeps, RenewBeamKeeps,
       RestartThreadsKeeps, GiveRowKeeps, NoMoreRowsKeeps, JoinPredictersKeeps DEF ReaderThreadStep
  <2>2. ASSUME NEW t \in PredictThreads, PredicterStep(t) PROVE PredicterInv'
    BY <2>2, RunFunctionKeeps, TakeWorkKeeps, PredictKeeps, EndFunctionKeeps, LeaveFunctionKeeps DEF PredicterStep
  <2>3. CASE ConsumerStep  BY <2>3, FillChunkKeeps, StartUsingKeeps, UseRowKeeps DEF ConsumerStep
  <2>4. CASE PredicterOver \/ UNCHANGED predicterVars  BY <2>4, PredicterStutters DEF PredicterOver
  <2>5. QED BY <2>1, <2>2, <2>3, <2>4 DEF PredicterNext
<1>3. QED BY <1>1, <1>2, PTL DEF PredicterSpec

\* Every variable of the prediction keeps its type: rows and buffers in the lanes, threads at
\* known places, results that belong to rows (LMSPredicter in lmspredicter.h).
THEOREM PredicterTypesHold == PredicterSpec => []PredicterTypes
<1>1. PredicterInv => PredicterTypes  BY DEF PredicterInv
<1>2. QED BY <1>1, PredicterInvHolds, PTL

\* While the reading thread replaces the beam, between the barrier and the restart of the
\* functions, no thread runs a function, no function is posted, and no row is in the lane
\* (LMSPredicter::ReadThreadFunc).
NothingRunsDuringBeam ==
  reader = "calculate beam" =>
    /\ posted = 0 /\ workLane = <<>>
    /\ \A t \in PredictThreads : predicter[t].at \notin {"read", "predict"}

THEOREM BeamIsReplacedAlone == PredicterSpec => []NothingRunsDuringBeam
<1>1. PredicterInv => NothingRunsDuringBeam
  <2> SUFFICES ASSUME PredicterInv, reader = "calculate beam"
               PROVE  /\ posted = 0 /\ workLane = <<>>
                      /\ \A t \in PredictThreads : predicter[t].at \notin {"read", "predict"}
    BY DEF NothingRunsDuringBeam
  <2>1. ~ Active  BY DEF Active, ReaderWaits
  <2>2. posted = 0 /\ Engaged = {} /\ workLane = <<>>  BY <2>1, NothingOnItsWay
  <2>3. QED BY <2>2 DEF Engaged, Runs
<1>2. QED BY <1>1, PredicterInvHolds, PTL

\* The caller gets every cross-correlation once, with the visibilities of that row and of
\* the beam of its time (LMSPredicter::GetNextRow and FinishRow).
THEOREM PredicterGivesEveryRow == PredicterSpec => []RowsPredictedOnce
<1>1. PredicterInv => RowsPredictedOnce
  <2> SUFFICES ASSUME PredicterInv PROVE RowsPredictedOnce  OBVIOUS
  <2>1. ASSUME NEW i \in DOMAIN delivered
        PROVE  /\ delivered[i].found.row = delivered[i].row
               /\ predictJob.applyBeam /\ ~ predictJob.modelColumn =>
                    delivered[i].found.beam = {TimeOf(delivered[i].found.row)}
               /\ \A j \in DOMAIN delivered : delivered[j].row = delivered[i].row => i = j
    BY DEF PredicterInv, RightBeam, Found, UsesBeam, Stages, RowsOnce
  <2>2. ASSUME consumer = "done" PROVE {delivered[i].row : i \in DOMAIN delivered} = CrossRows
    <3>1. reader = "gone" /\ outputLane = <<>> /\ readChunk = <<>>  BY <2>2 DEF PredicterInv, Using
    <3>2. ~ Active  BY <3>1 DEF Active, ReaderWaits
    <3>3. workLane = <<>> /\ \A t \in PredictThreads : predicter[t].at # "predict"  BY <3>2, NothingOnItsWay
    <3>4. \A r \in PredictRows : ~ HasRow(workLane, r) /\ ~ IsHeld(r) /\ ~ HasRow(outputLane, r) /\ ~ HasRow(readChunk, r)
      BY <3>1, <3>3, EmptyParts DEF IsHeld, HeldBy
    <3>5. \A r \in PredictRows : Given(r) <=> HasRow(delivered, r)  BY <3>4 DEF PredicterInv, Stages
    <3>6. \A r \in PredictRows : Given(r) <=> r \in CrossRows
      <4>1. nextRow \notin PredictRows  BY <3>1 DEF PredicterInv, Reading
      <4>2. /\ nextRow \in 1 .. Len(predictJob.rows) + 1
            /\ Len(predictJob.rows) \in Nat /\ PredictRows = 1 .. Len(predictJob.rows)
        BY RowFacts DEF PredicterInv, PredicterTypes
      <4>3. \A r \in PredictRows : r < nextRow  BY <4>1, <4>2
      <4>4. QED BY <4>3 DEF Given
    <3>7. \A i \in DOMAIN delivered : delivered[i].row \in PredictRows
      <4>1. delivered \in Seq([row : PredictRows, found : [row : Nat, beam : SUBSET Nat]])
        BY DEF PredicterInv, PredicterTypes
      <4>2. QED
        <5> DEFINE Uses == [row : PredictRows, found : [row : Nat, beam : SUBSET Nat]]
        <5>1. delivered \in Seq(Uses)  BY <4>1
        <5> HIDE DEF Uses
        <5>2. \A i \in DOMAIN delivered : delivered[i] \in Uses  BY <5>1, ElementOfSeq, LenProperties
        <5>3. QED BY <5>2 DEF Uses
    <3>8. CrossRows \subseteq PredictRows  BY DEF CrossRows
    <3>9. QED BY <3>5, <3>6, <3>7, <3>8 DEF HasRow
  <2>3. QED BY <2>1, <2>2 DEF RowsPredictedOnce
<1>2. QED BY <1>1, PredicterInvHolds, PTL
=============================================================================
