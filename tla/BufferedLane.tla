---------------------------- MODULE BufferedLane ----------------------------
(***************************************************************************)
(* lane_write_buffer and lane_read_buffer (buffered_lane.h) around one     *)
(* lane, used the way the gridders use them: each producer pushes its      *)
(* items through a write buffer of its own and flushes the remainder when  *)
(* the buffer is destroyed; the owner joins the producers and then ends    *)
(* the lane; each consumer pops from a read buffer of its own until the    *)
(* lane reports the end.                                                   *)
(*                                                                         *)
(* The write buffer of w holds its items sent[w]+1 .. pushed[w]; the read  *)
(* buffer of r holds the part of got[r] after the first popped[r] items.   *)
(***************************************************************************)
EXTENDS Lane

CONSTANTS
  WriteBufferSize,   \* _buffer_size of the write buffers, not zero
  ReadBufferSize,    \* _buffer_size of the read buffers, not zero
  Items              \* number of items every producer pushes

ASSUME BufferAssumption ==
  /\ WriteBufferSize \in 1 .. MaxChunk /\ ReadBufferSize \in 1 .. MaxChunk
  /\ Items \in Nat /\ Readers # {}

VARIABLES
  pushed,    \* items given to the write buffer of a producer
  popped,    \* items taken out of the read buffer of a consumer
  stopped    \* the consumer's read returned false: its loop has ended

bufferVars == <<vars, pushed, popped, stopped>>

BufferInit ==
  /\ Init
  /\ pushed = [w \in Writers |-> 0]
  /\ popped = [r \in Readers |-> 0]
  /\ stopped = [r \in Readers |-> FALSE]

\* What flush() hands to the lane: the elements in the buffer.
Buffered(w) == pushed[w] - sent[w]

\* lane_write_buffer::write, which flushes when the buffer has filled up.
Push(w) ==
  /\ call[w] = "none"
  /\ pushed[w] < Items
  /\ pushed' = [pushed EXCEPT ![w] = @ + 1]
  /\ IF pushed'[w] - sent[w] = WriteBufferSize
       THEN Write(w, WriteBufferSize)
       ELSE UNCHANGED vars
  /\ UNCHANGED <<popped, stopped>>

\* The destructor flushes what is left.
FlushRest(w) ==
  /\ call[w] = "none"
  /\ pushed[w] = Items
  /\ sent[w] < Items
  /\ Write(w, Buffered(w))
  /\ UNCHANGED <<pushed, popped, stopped>>

ProducerDone(w) == sent[w] = Items /\ call[w] = "none"

\* The owner has joined the producers: nobody writes any more.
EndStream ==
  /\ \A w \in Writers : ProducerDone(w)
  /\ ~ ended
  /\ \E w \in Writers : WriteEnd(w)
  /\ UNCHANGED <<pushed, popped, stopped>>

\* A fetch that returns without a single element makes read() return false.
StopIfEmpty(r) ==
  stopped' = [stopped EXCEPT ![r] = call'[r] = "none" /\ Len(got'[r]) = popped[r]]

\* lane_read_buffer::read with an empty buffer fetches a whole buffer ...
Fetch(r) ==
  /\ ~ stopped[r]
  /\ popped[r] = Len(got[r])
  /\ Read(r, ReadBufferSize)
  /\ StopIfEmpty(r)
  /\ UNCHANGED <<pushed, popped>>

ContinueFetch(r) ==
  /\ ResumeRead(r)
  /\ StopIfEmpty(r)
  /\ UNCHANGED <<pushed, popped>>

\* ... and afterwards hands out one element per call.
Pop(r) ==
  /\ call[r] = "none"
  /\ popped[r] < Len(got[r])
  /\ popped' = [popped EXCEPT ![r] = @ + 1]
  /\ UNCHANGED <<vars, pushed, stopped>>

ContinueWrite(w) == ResumeWrite(w) /\ UNCHANGED <<pushed, popped, stopped>>
Spurious(t) == WaitReturnsEarly(t) /\ UNCHANGED <<pushed, popped, stopped>>

AllStopped == \A r \in Readers : stopped[r]
Finished == AllStopped /\ UNCHANGED bufferVars

WriterStep(w) == Push(w) \/ FlushRest(w) \/ ContinueWrite(w)
ReaderStep(r) == Fetch(r) \/ ContinueFetch(r) \/ Pop(r)

BufferNext ==
  \/ \E w \in Writers : WriterStep(w)
  \/ EndStream
  \/ \E r \in Readers : ReaderStep(r)
  \/ \E t \in Callers : Spurious(t)
  \/ Finished

\* Every thread keeps running; a thread that waits runs once it is notified.
BufferFairness ==
  /\ \A w \in Writers : WF_bufferVars(WriterStep(w))
  /\ WF_bufferVars(EndStream)
  /\ \A r \in Readers : WF_bufferVars(ReaderStep(r))

BufferSpec == BufferInit /\ [][BufferNext]_bufferVars /\ BufferFairness

(***************************************************************************)
(* Properties.                                                             *)
(***************************************************************************)

Popped(w, i) == \E r \in Readers : \E k \in 1 .. popped[r] : got[r][k] = <<w, i>>

\* No item is left behind: once the stream has ended and every consumer has
\* left its loop, each item of each producer was handed out, whatever the two
\* buffer sizes and the capacity are.  It needs the flush in the destructor,
\* the join before write_end and a fetch that still returns the remainder.
NothingStranded ==
  (\A r \in Readers : stopped[r]) => \A w \in Writers, i \in 1 .. Items : Popped(w, i)

\* Every item reaches one consumer, in the order of its producer, and none is left behind.
EachItemDeliveredOnce == DeliveredOnceInOrder /\ NothingStranded
=============================================================================
