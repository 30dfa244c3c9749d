----------------------------- MODULE BoundedFifo -----------------------------
(***************************************************************************)
(* What a lane promises to the threads around it, without slots, positions *)
(* or condition variables: a bounded queue with an end-of-stream flag.     *)
(* Elements leave in the order in which they entered and each goes to one  *)
(* client; a client is kept waiting with part of its elements only when    *)
(* the queue is full; nothing new is accepted once the stream is closed,   *)
(* but what was accepted before may still enter.                           *)
(***************************************************************************)
EXTENDS Integers, Sequences

CONSTANTS Bound, Clients, Item

VARIABLES
  queue,      \* elements that were put and not yet taken
  pending,    \* elements accepted from a client that did not fit yet
  closed,     \* the end of the stream was announced
  delivered   \* what each client received since the last reset

fifoVars == <<queue, pending, closed, delivered>>

FifoInit ==
  /\ queue = <<>>
  /\ pending = [c \in Clients |-> <<>>]
  /\ closed = FALSE
  /\ delivered = [c \in Clients |-> <<>>]

Front(s, k) == SubSeq(s, 1, k)
Back(s, k) == SubSeq(s, k + 1, Len(s))

\* The queue grows at its tail only, within its bound.
Extended ==
  /\ queue' \in Seq(Item)
  /\ Len(queue) <= Len(queue')
  /\ Len(queue') <= Bound
  /\ Front(queue', Len(queue)) = queue

\* A client offers new elements; what does not fit stays pending.
Offer(c) ==
  /\ ~ closed
  /\ pending[c] = <<>>
  /\ Extended
  /\ pending' \in [Clients -> Seq(Item)]
  /\ \A d \in Clients \ {c} : pending'[d] = pending[d]
  /\ pending'[c] /= <<>> => Len(queue') = Bound
  /\ UNCHANGED <<closed, delivered>>

\* The next k pending elements of a client enter.
Enter(c, k) ==
  /\ k <= Len(pending[c])
  /\ Len(queue) + k <= Bound
  /\ queue' = queue \o Front(pending[c], k)
  /\ pending' = [pending EXCEPT ![c] = Back(@, k)]
  /\ pending'[c] /= <<>> => Len(queue') = Bound
  /\ UNCHANGED <<closed, delivered>>

\* A client takes the k oldest elements.
Take(c, k) ==
  /\ k <= Len(queue)
  /\ queue' = Back(queue, k)
  /\ delivered' = [delivered EXCEPT ![c] = @ \o Front(queue, k)]
  /\ UNCHANGED <<pending, closed>>

\* The k oldest elements are thrown away.
Drop(k) ==
  /\ k <= Len(queue)
  /\ queue' = Back(queue, k)
  /\ UNCHANGED <<pending, closed, delivered>>

Close == closed' = TRUE /\ UNCHANGED <<queue, pending, delivered>>

Reset ==
  /\ \A c \in Clients : pending[c] = <<>>
  /\ queue' = <<>>
  /\ closed' = FALSE
  /\ delivered' = [c \in Clients |-> <<>>]
  /\ UNCHANGED pending

FifoNext ==
  \/ \E c \in Clients : Offer(c) \/ \E k \in 0 .. Bound : Enter(c, k) \/ Take(c, k)
  \/ \E k \in 0 .. Bound : Drop(k)
  \/ Close
  \/ Reset

FifoSpec == FifoInit /\ [][FifoNext]_fifoVars
=============================================================================
