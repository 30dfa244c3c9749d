---------------------------- MODULE LMSPredicter ----------------------------
(***************************************************************************)
(* Prediction of the rows of a LOFAR measurement set.  A thread reads the  *)
(* rows, a number of threads predict them, and the caller of GetNextRow    *)
(* uses them and gives their buffers back with FinishRow, so that a fixed  *)
(* number of buffers goes round.  When the time of the rows changes, the   *)
(* predicting threads are stopped at a barrier while the beam is replaced. *)
(*                                                                         *)
(* The lanes are the first-in-first-out queues that Lane implements; the   *)
(* chunks of buffered_lane.h are kept, since a buffer in an unfinished     *)
(* chunk does not go round.  The mutex of the measurement set, which the   *)
(* reading thread gives up before it waits for a lane, is left out.        *)
(***************************************************************************)
EXTENDS Integers, Sequences, FiniteSets

CONSTANTS
  PredictThreads,    \* the threads of the io service
  PredictJobs,       \* rows, each with a time, whether a beam is applied, and whether the model column is used
  PredictLane,       \* _laneSize, the room of every lane and the number of buffers
  PredictChunk       \* what the caller reads and gives back at once

ASSUME PredictAssumption ==
  /\ IsFiniteSet(PredictThreads) /\ PredictThreads # {}
  /\ PredictLane \in Nat \ {0} /\ PredictChunk \in Nat \ {0}
  /\ \A j \in PredictJobs :
       /\ j \in [rows : Seq([time : Nat, cross : BOOLEAN]), applyBeam : BOOLEAN, modelColumn : BOOLEAN]
       /\ j.rows # <<>>

VARIABLES
  predictJob,
  reader,            \* where the reading thread is
  nextRow,           \* its row
  beam,              \* the time for which the beam was calculated
  posted,            \* functions that are posted and not yet run
  predicter,         \* what each thread does, with its row
  workLane, workEnded, outputLane, outputEnded, freeLane,
  arrived, round,    \* of the barrier
  readerRound,       \* in which the reading thread came to it
  contents,          \* what is in the buffers
  consumer,          \* "get", "use" or "done"
  readChunk, givenChunk,   \* the chunks of the caller
  delivered          \* the rows that the caller used, with what it found

predicterVars ==
  <<predictJob, reader, nextRow, beam, posted, predicter, workLane, workEnded, outputLane, outputEnded,
    freeLane, arrived, round, readerRound, contents, consumer, readChunk, givenChunk, delivered>>
predictLaneVars == <<workLane, workEnded, outputLane, outputEnded, freeLane>>
predictBarrierVars == <<arrived, round, readerRound>>
consumerVars == <<consumer, readChunk, givenChunk, delivered>>

PredictBuffers == 1 .. PredictLane
NoRow == [row |-> 0, buffer |-> 1]
PredictRows == DOMAIN predictJob.rows
TimeOf(r) == predictJob.rows[r].time
AnyTime == 0    \* while the beam is being calculated

\* With a chunk of several rows, FinishRow keeps the buffers until the chunk is full.
PredicterInit ==
  /\ predictJob \in PredictJobs
  /\ reader = "next" /\ nextRow = 1
  /\ beam = TimeOf(1)
  /\ posted = IF predictJob.modelColumn THEN 0 ELSE Cardinality(PredictThreads)
  /\ predicter = [t \in PredictThreads |-> [at |-> "idle", item |-> NoRow, round |-> 0, seen |-> AnyTime]]
  /\ workLane = <<>> /\ workEnded = FALSE /\ outputLane = <<>> /\ outputEnded = FALSE
  /\ freeLane = [b \in PredictBuffers |-> b]
  /\ arrived = 0 /\ round = 0 /\ readerRound = 0
  /\ contents = [b \in PredictBuffers |-> [row |-> 0, beam |-> {}]]
  /\ consumer = "get" /\ readChunk = <<>> /\ givenChunk = <<>> /\ delivered = <<>>

-----------------------------------------------------------------------------
(* The barrier of all predicting threads and the reading thread *)

Everybody == Cardinality(PredictThreads) + 1
\* The last one starts the next round.
ArriveAtBarrier ==
  IF arrived + 1 = Everybody THEN arrived' = 0 /\ round' = round + 1
  ELSE arrived' = arrived + 1 /\ UNCHANGED round

-----------------------------------------------------------------------------
(* The reading thread *)

\* Auto-correlations are skipped.
SkipAutoCorrelation ==
  /\ reader = "next" /\ nextRow \in PredictRows /\ ~predictJob.rows[nextRow].cross
  /\ nextRow' = nextRow + 1
  /\ UNCHANGED <<predictJob, reader, beam, posted, predicter, predictLaneVars, predictBarrierVars, contents, consumerVars>>

BeamIsOld == ~predictJob.modelColumn /\ predictJob.applyBeam /\ beam # TimeOf(nextRow)

ReadCrossCorrelation ==
  /\ reader = "next" /\ nextRow \in PredictRows /\ predictJob.rows[nextRow].cross
  /\ IF BeamIsOld THEN workEnded' = TRUE /\ reader' = "stop threads"
     ELSE reader' = "take buffer" /\ UNCHANGED workEnded
  /\ UNCHANGED <<predictJob, nextRow, beam, posted, predicter, workLane, outputLane, outputEnded, freeLane,
                 predictBarrierVars, contents, consumerVars>>

\* _barrier.wait() comes in, and is left in a later round.
ReaderAtBarrier ==
  /\ reader \in {"stop threads", "stop all"}
  /\ ArriveAtBarrier
  /\ reader' = IF reader = "stop all" THEN "wait for the end" ELSE "wait for threads"
  /\ readerRound' = round
  /\ UNCHANGED <<predictJob, nextRow, beam, posted, predicter, predictLaneVars, contents, consumerVars>>

\* The lane is cleared, and the calculation of the beam begins.
RenewBeam ==
  /\ reader = "wait for threads" /\ round > readerRound
  /\ workLane' = <<>> /\ workEnded' = FALSE
  /\ beam' = AnyTime /\ reader' = "calculate beam"
  /\ UNCHANGED <<predictJob, nextRow, posted, predicter, outputLane, outputEnded, freeLane, predictBarrierVars,
                 contents, consumerVars>>

\* The functions are posted again.
RestartThreads ==
  /\ reader = "calculate beam"
  /\ beam' = TimeOf(nextRow) /\ posted' = Cardinality(PredictThreads)
  /\ reader' = "take buffer"
  /\ UNCHANGED <<predictJob, nextRow, predicter, predictLaneVars, predictBarrierVars, contents, consumerVars>>

\* A row of the model column is copied to the buffer; other rows are for the threads.
GiveRow ==
  /\ reader = "take buffer" /\ freeLane # <<>>
  /\ LET item == [row |-> nextRow, buffer |-> Head(freeLane)]
     IN  /\ freeLane' = Tail(freeLane)
         /\ IF predictJob.modelColumn
              THEN /\ Len(outputLane) < PredictLane
                   /\ outputLane' = Append(outputLane, item)
                   /\ contents' = [contents EXCEPT ![item.buffer] = [row |-> nextRow, beam |-> {}]]
                   /\ UNCHANGED workLane
              ELSE /\ Len(workLane) < PredictLane
                   /\ workLane' = Append(workLane, item) /\ UNCHANGED <<outputLane, contents>>
  /\ nextRow' = nextRow + 1 /\ reader' = "next"
  /\ UNCHANGED <<predictJob, beam, posted, predicter, workEnded, outputEnded, predictBarrierVars, consumerVars>>

NoMoreRows ==
  /\ reader = "next" /\ nextRow \notin PredictRows
  /\ IF predictJob.modelColumn
       THEN outputEnded' = TRUE /\ reader' = "gone" /\ UNCHANGED workEnded
       ELSE workEnded' = TRUE /\ reader' = "stop all" /\ UNCHANGED outputEnded
  /\ UNCHANGED <<predictJob, nextRow, beam, posted, predicter, workLane, outputLane, freeLane, predictBarrierVars,
                 contents, consumerVars>>

\* The io service is stopped and its threads are joined.
JoinPredicters ==
  /\ reader = "wait for the end" /\ round > readerRound
  /\ \A t \in PredictThreads : predicter[t].at = "idle"
  /\ outputEnded' = TRUE /\ reader' = "gone"
  /\ UNCHANGED <<predictJob, nextRow, beam, posted, predicter, workLane, workEnded, outputLane, freeLane,
                 predictBarrierVars, contents, consumerVars>>

ReaderThreadStep ==
  \/ SkipAutoCorrelation \/ ReadCrossCorrelation \/ ReaderAtBarrier \/ RenewBeam \/ RestartThreads \/ GiveRow \/ NoMoreRows
  \/ JoinPredicters

-----------------------------------------------------------------------------
(* A predicting thread *)

RunFunction(t) ==
  /\ predicter[t].at = "idle" /\ posted > 0
  /\ posted' = posted - 1
  /\ predicter' = [predicter EXCEPT ![t].at = "read"]
  /\ UNCHANGED <<predictJob, reader, nextRow, beam, predictLaneVars, predictBarrierVars, contents, consumerVars>>

\* The first channels are predicted with the beam of this moment.
TakeWork(t) ==
  /\ predicter[t].at = "read" /\ workLane # <<>>
  /\ workLane' = Tail(workLane)
  /\ predicter' = [predicter EXCEPT ![t].at = "predict", ![t].item = Head(workLane), ![t].seen = beam]
  /\ UNCHANGED <<predictJob, reader, nextRow, beam, posted, workEnded, outputLane, outputEnded, freeLane,
                 predictBarrierVars, contents, consumerVars>>

\* The last channels are predicted with the beam of that moment.
Predict(t) ==
  /\ predicter[t].at = "predict" /\ Len(outputLane) < PredictLane
  /\ LET item == predicter[t].item
     IN  /\ contents' = [contents EXCEPT ![item.buffer] = [row |-> item.row, beam |-> {predicter[t].seen, beam}]]
         /\ outputLane' = Append(outputLane, item)
  /\ predicter' = [predicter EXCEPT ![t].at = "read"]
  /\ UNCHANGED <<predictJob, reader, nextRow, beam, posted, workLane, workEnded, outputEnded, freeLane, predictBarrierVars, consumerVars>>

LaneHasEnded == workEnded   \* mutant: what is left in the lane is lost
LaneIsOver == workLane = <<>> /\ workEnded

EndFunction(t) ==
  /\ predicter[t].at = "read" /\ LaneIsOver
  /\ ArriveAtBarrier
  /\ predicter' = [predicter EXCEPT ![t].at = "barrier", ![t].round = round]
  /\ UNCHANGED <<readerRound, predictJob, reader, nextRow, beam, posted, predictLaneVars, contents, consumerVars>>

LeaveFunction(t) ==
  /\ predicter[t].at = "barrier" /\ round > predicter[t].round
  /\ predicter' = [predicter EXCEPT ![t].at = "idle"]
  /\ UNCHANGED <<predictJob, reader, nextRow, beam, posted, predictLaneVars, predictBarrierVars, contents, consumerVars>>

PredicterStep(t) == RunFunction(t) \/ TakeWork(t) \/ Predict(t) \/ EndFunction(t) \/ LeaveFunction(t)

-----------------------------------------------------------------------------
(* The caller *)

\* lane_read_buffer waits for a whole chunk or the end.
FillChunk ==
  /\ consumer = "get" /\ Len(readChunk) < PredictChunk /\ outputLane # <<>>
  /\ readChunk' = Append(readChunk, Head(outputLane)) /\ outputLane' = Tail(outputLane)
  /\ UNCHANGED <<predictJob, reader, nextRow, beam, posted, predicter, workLane, workEnded, outputEnded,
                 freeLane, predictBarrierVars, contents, consumer, givenChunk, delivered>>

ChunkIsComplete ==
  \/ Len(readChunk) = PredictChunk
  \/ outputLane = <<>> /\ outputEnded

StartUsing ==
  /\ consumer = "get" /\ ChunkIsComplete
  /\ consumer' = IF readChunk = <<>> THEN "done" ELSE "use"
  /\ UNCHANGED <<predictJob, reader, nextRow, beam, posted, predicter, predictLaneVars, predictBarrierVars, contents,
                 readChunk, givenChunk, delivered>>

\* FinishRow gives a full chunk back.
UseRow ==
  LET item == Head(readChunk)
      given == Append(givenChunk, item.buffer)
  IN  /\ consumer = "use"
      /\ delivered' = Append(delivered, [row |-> item.row, found |-> contents[item.buffer]])
      /\ readChunk' = Tail(readChunk)
      /\ consumer' = IF Len(readChunk) = 1 THEN "get" ELSE "use"
      /\ IF Len(given) = PredictChunk
           THEN freeLane' = freeLane \o given /\ givenChunk' = <<>>
           ELSE givenChunk' = given /\ UNCHANGED freeLane
      /\ UNCHANGED <<predictJob, reader, nextRow, beam, posted, predicter, workLane, workEnded, outputLane,
                     outputEnded, predictBarrierVars, contents>>

ConsumerStep == FillChunk \/ StartUsing \/ UseRow

PredicterDone == consumer = "done" /\ reader = "gone"
PredicterOver == PredicterDone /\ UNCHANGED predicterVars

PredicterNext ==
  ReaderThreadStep \/ (\E t \in PredictThreads : PredicterStep(t)) \/ ConsumerStep \/ PredicterOver

\* All threads and the caller keep running.
PredicterFairness ==
  /\ WF_predicterVars(ReaderThreadStep) /\ WF_predicterVars(ConsumerStep)
  /\ \A t \in PredictThreads : WF_predicterVars(PredicterStep(t))

PredicterSpec == PredicterInit /\ [][PredicterNext]_predicterVars /\ PredicterFairness

-----------------------------------------------------------------------------
(* Properties *)

CrossRows == {r \in PredictRows : predictJob.rows[r].cross}

\* The caller gets every cross-correlation once, and finds in its buffer the visibilities
\* of that row, calculated with the beam of the time of that row from the first to the last
\* channel: buffers go round between three kinds of threads, and the beam is replaced while
\* rows are on their way (lmspredicter.cpp).
RowsPredictedOnce ==
  /\ \A i \in DOMAIN delivered :
       LET found == delivered[i].found
       IN  /\ found.row = delivered[i].row
           /\ predictJob.applyBeam /\ ~predictJob.modelColumn => found.beam = {TimeOf(found.row)}
           /\ \A j \in DOMAIN delivered : delivered[j].row = delivered[i].row => i = j
  /\ consumer = "done" => {delivered[i].row : i \in DOMAIN delivered} = CrossRows
=============================================================================
