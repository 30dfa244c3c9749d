-------------------------------- MODULE Lane --------------------------------
(***************************************************************************)
(* ao::lane<Tp> (aocommon/lane_11.h): the cyclic buffer through which      *)
(* every producer of the imager hands work to its consumers.  All methods  *)
(* run under one mutex, so a stretch of code between taking the mutex and  *)
(* waiting or returning is one action.  A thread that waits sits in the    *)
(* wait set of its condition variable until it is notified, or wakes up    *)
(* spuriously, and then looks at the lane again.                           *)
(*                                                                         *)
(* write(e), emplace(...), write(e&&) and the n = 1 case of write(es, n)   *)
(* perform the same steps and are one action with n = 1; so are read(e)    *)
(* and read(es, 1).  An element is identified by its writer and its        *)
(* number in that writer's stream.                                         *)
(***************************************************************************)
EXTENDS Integers, Sequences, FiniteSets

CONSTANTS
  Capacity,    \* number of slots of the cyclic buffer
  Writers,     \* threads that write, end the stream or wait for it to drain
  Readers,     \* threads that read or discard; a thread may be both
  MaxSent,     \* bound: elements a thread writes between two clear()s
  MaxChunk     \* bound: elements of one multi-element call

ASSUME CapacityAssumption == Capacity \in Nat \ {0}
ASSUME BoundsAssumption == MaxSent \in Nat /\ MaxChunk \in Nat \ {0}

Callers == Writers \cup Readers

VARIABLES
  buffer,          \* _buffer
  writePosition,   \* _write_position
  freeWriteSpace,  \* _free_write_space
  ended,           \* _status = status_end
  waitingWriting,  \* threads waiting on _writing_possible_condition
  waitingReading,  \* threads waiting on _reading_possible_condition
  call,            \* the call a thread is inside
  rest,            \* elements its write still has to store
  need,            \* elements its read or discard still wants (n_left)
  sent,            \* history: elements a thread has offered
  written,         \* history: all elements stored, in order
  taken,           \* history: how many of them have left the buffer
  got,             \* history: what each thread's reads returned
  short            \* history: a read of the thread returned less than n

laneVars == <<buffer, writePosition, freeWriteSpace, ended>>
waitVars == <<waitingWriting, waitingReading>>
callVars == <<call, rest, need>>
vars == <<laneVars, waitVars, callVars, sent, written, taken, got, short>>

Slots == 0 .. Capacity - 1
Element == Callers \X (Nat \ {0})
NoElement == <<"none", 0>>

Minimum(a, b) == IF a < b THEN a ELSE b

\* Positions go round the buffer.
Advance(p, n) == (p + n) % Capacity

FreeReadSpace == Capacity - freeWriteSpace
ReadPositionStale == writePosition   \* mutant: ignores the free slots
ReadPosition == (writePosition + freeWriteSpace) % Capacity

\* What a reader of the whole lane would see, oldest element first.
Content == [i \in 1 .. FreeReadSpace |-> buffer[(ReadPosition + i - 1) % Capacity]]

Init ==
  /\ buffer = [s \in Slots |-> NoElement]
  /\ writePosition = 0
  /\ freeWriteSpace = Capacity
  /\ ended = FALSE
  /\ waitingWriting = {}
  /\ waitingReading = {}
  /\ call = [t \in Callers |-> "none"]
  /\ rest = [t \in Callers |-> <<>>]
  /\ need = [t \in Callers |-> 0]
  /\ sent = [t \in Callers |-> 0]
  /\ written = <<>>
  /\ taken = 0
  /\ got = [t \in Callers |-> <<>>]
  /\ short = [t \in Callers |-> FALSE]

(***************************************************************************)
(* Storing and taking elements.                                            *)
(***************************************************************************)

\* Distance from the write position to slot s, going round the buffer.
Ahead(s) == (s + Capacity - writePosition) % Capacity

\* notify_all, done when n elements were moved and n > 0.
NotifyForgotten(waiting, n) == waiting   \* mutant
Notify(waiting, n) == IF n = 0 THEN waiting ELSE {}

\* immediate_write: store es, advance, and wake the readers.
ImmediateWrite(es) ==
  /\ buffer' = [s \in Slots |-> IF Ahead(s) < Len(es) THEN es[Ahead(s) + 1] ELSE buffer[s]]
  /\ writePosition' = Advance(writePosition, Len(es))
  /\ freeWriteSpace' = freeWriteSpace - Len(es)
  /\ waitingReading' = Notify(waitingReading, Len(es))
  /\ written' = written \o es

\* immediate_read and immediate_discard: take the k oldest elements and
\* wake the writers.
ImmediateRead(k) ==
  /\ freeWriteSpace' = freeWriteSpace + k
  /\ waitingWriting' = Notify(waitingWriting, k)
  /\ taken' = taken + k

\* What a write still has to store after its first k elements are stored.
RemainderNotAdvanced(es, k) == SubSeq(es, 1, Len(es) - k)   \* mutant: elements += write_size lost
Remainder(es, k) == SubSeq(es, k + 1, Len(es))

\* write() looks at _status once, when it is called.
AcceptsAlways == TRUE   \* mutant
Accepts == ~ ended

\* A read that got k of the n elements it wants waits, unless the end of the
\* lane was announced.
MustWait(k, n) == k < n /\ ~ ended

(***************************************************************************)
(* One pass of a write: store what fits; what does not fit makes the       *)
(* thread wait.  write(e) tests for space first and write(es, n) stores    *)
(* first, which is the same for what either of them stores in one pass.    *)
(***************************************************************************)
WritePass(t, es) ==
  LET k == Minimum(Len(es), freeWriteSpace)
      left == Remainder(es, k)
  IN  /\ ImmediateWrite(SubSeq(es, 1, k))
      /\ rest' = [rest EXCEPT ![t] = left]
      /\ call' = [call EXCEPT ![t] = IF left = <<>> THEN "none" ELSE "write"]
      /\ waitingWriting' = IF left = <<>> THEN waitingWriting ELSE waitingWriting \cup {t}
      /\ UNCHANGED <<ended, need, taken, got, short>>

\* One pass of read(es, n) or, when keep is FALSE, of discard(n).
ReadPass(t, n, keep) ==
  LET k == Minimum(n, FreeReadSpace)
      waits == MustWait(k, n)
  IN  /\ ImmediateRead(k)
      /\ got' = [got EXCEPT ![t] = IF keep THEN @ \o SubSeq(Content, 1, k) ELSE @]
      /\ need' = [need EXCEPT ![t] = IF waits THEN n - k ELSE 0]
      /\ call' = [call EXCEPT ![t] = IF ~waits THEN "none" ELSE IF keep THEN "read" ELSE "discard"]
      /\ short' = [short EXCEPT ![t] = @ \/ (k < n /\ ended)]
      /\ waitingReading' = IF waits THEN waitingReading \cup {t} ELSE waitingReading
      /\ UNCHANGED <<buffer, writePosition, ended, rest, sent, written>>

(***************************************************************************)
(* The calls.                                                              *)
(***************************************************************************)

\* write(), emplace(), move_write(): ignored after write_end().
Write(t, n) ==
  /\ call[t] = "none"
  /\ sent[t] + n <= MaxSent
  /\ Accepts
  /\ sent' = [sent EXCEPT ![t] = @ + n]
  /\ WritePass(t, [i \in 1 .. n |-> <<t, sent[t] + i>>])

WriteIgnored(t, n) ==
  /\ call[t] = "none"
  /\ sent[t] + n <= MaxSent
  /\ ~ Accepts
  /\ sent' = [sent EXCEPT ![t] = @ + n]
  /\ UNCHANGED <<laneVars, waitVars, callVars, written, taken, got, short>>

\* The writer was notified: it does not look at _status any more.
ResumeWrite(t) ==
  /\ call[t] = "write"
  /\ t \notin waitingWriting
  /\ WritePass(t, rest[t])
  /\ UNCHANGED sent

Read(t, n) == call[t] = "none" /\ ReadPass(t, n, TRUE)
ResumeRead(t) == call[t] = "read" /\ t \notin waitingReading /\ ReadPass(t, need[t], TRUE)

Discard(t, n) == call[t] = "none" /\ ReadPass(t, n, FALSE)
ResumeDiscard(t) == call[t] = "discard" /\ t \notin waitingReading /\ ReadPass(t, need[t], FALSE)

\* Mutant: write_end() forgets the readers.
WriteEndSilent(t) ==
  /\ call[t] = "none"
  /\ ended' = TRUE
  /\ waitingWriting' = {}
  /\ UNCHANGED <<buffer, writePosition, freeWriteSpace, waitingReading, callVars, sent, written, taken, got, short>>

WriteEnd(t) ==
  /\ call[t] = "none"
  /\ ended' = TRUE
  /\ waitingWriting' = {}
  /\ waitingReading' = {}
  /\ UNCHANGED <<buffer, writePosition, freeWriteSpace, callVars, sent, written, taken, got, short>>

\* wait_for_empty() waits on the condition variable of the writers.
EmptyPass(t) ==
  /\ IF freeWriteSpace = Capacity
       THEN call' = [call EXCEPT ![t] = "none"] /\ UNCHANGED waitingWriting
       ELSE /\ call' = [call EXCEPT ![t] = "waitForEmpty"]
            /\ waitingWriting' = waitingWriting \cup {t}
  /\ UNCHANGED <<laneVars, waitingReading, rest, need, sent, written, taken, got, short>>

WaitForEmpty(t) == call[t] = "none" /\ EmptyPass(t)
ResumeWaitForEmpty(t) ==
  call[t] = "waitForEmpty" /\ t \notin waitingWriting /\ EmptyPass(t)

\* clear() and resize() take no lock: they are called when no other thread
\* is inside the lane.
Clear ==
  /\ \A t \in Callers : call[t] = "none"
  /\ writePosition' = 0
  /\ freeWriteSpace' = Capacity
  /\ ended' = FALSE
  /\ sent' = [t \in Callers |-> 0]
  /\ written' = <<>>
  /\ taken' = 0
  /\ got' = [t \in Callers |-> <<>>]
  /\ short' = [t \in Callers |-> FALSE]
  /\ UNCHANGED <<buffer, waitVars, callVars>>

\* std::condition_variable::wait may return without a notification.
WaitReturnsEarly(t) ==
  /\ t \in waitingWriting \cup waitingReading
  /\ waitingWriting' = waitingWriting \ {t}
  /\ waitingReading' = waitingReading \ {t}
  /\ UNCHANGED <<laneVars, callVars, sent, written, taken, got, short>>

Resume(t) ==
  ResumeWrite(t) \/ ResumeRead(t) \/ ResumeDiscard(t) \/ ResumeWaitForEmpty(t)

Next ==
  \/ \E w \in Writers :
       \/ \E n \in 1 .. MaxChunk : Write(w, n) \/ WriteIgnored(w, n)
       \/ WriteEnd(w)
       \/ WaitForEmpty(w)
  \/ \E r \in Readers, n \in 1 .. MaxChunk : Read(r, n) \/ Discard(r, n)
  \/ \E t \in Callers : Resume(t) \/ WaitReturnsEarly(t)
  \/ Clear

Spec == Init /\ [][Next]_vars

(***************************************************************************)
(* Properties.                                                             *)
(***************************************************************************)

\* Every field has its type; a thread waits only inside a call, and on the
\* condition variable of that call.
TypeOK ==
  /\ buffer \in [Slots -> Element \cup {NoElement}]
  /\ writePosition \in Slots
  /\ freeWriteSpace \in 0 .. Capacity
  /\ ended \in BOOLEAN
  /\ waitingWriting \subseteq {t \in Callers : call[t] \in {"write", "waitForEmpty"}}
  /\ waitingReading \subseteq {t \in Callers : call[t] \in {"read", "discard"}}
  /\ call \in [Callers -> {"none", "write", "read", "discard", "waitForEmpty"}]
  /\ rest \in [Callers -> Seq(Element)]
  /\ need \in [Callers -> Nat]
  /\ sent \in [Callers -> Nat]
  /\ written \in Seq(Element)
  /\ taken \in 0 .. Len(written)
  /\ got \in [Callers -> Seq(Element)]
  /\ short \in [Callers -> BOOLEAN]

\* Nothing that was stored is lost, repeated or reordered, however calls of
\* any size interleave and however often the positions went round: the
\* buffer holds exactly the stored elements that were not taken yet
\* (lane_11.h: immediate_write, immediate_read, read_position).
FifoOrder == Content = SubSeq(written, taken + 1, Len(written))

\* No wakeup is lost: a thread is asleep only while the lane gives it a
\* reason to be, so every change that could let it go on has notified it
\* (the notify_all calls of lane_11.h; wait_for_empty shares the condition
\* variable of the writers).
NoLostWakeup ==
  /\ \A t \in waitingReading : FreeReadSpace = 0 /\ ~ ended
  /\ \A t \in waitingWriting :
       IF call[t] = "write" THEN freeWriteSpace = 0 ELSE freeWriteSpace < Capacity

\* A thread's elements are stored in the order in which it wrote them, even
\* when a multi-element write is split around the writes of others.
InWriterOrder(seq) ==
  \A i, j \in DOMAIN seq : i < j /\ seq[i][1] = seq[j][1] => seq[i][2] < seq[j][2]
WriterOrder == \A t \in Callers : InWriterOrder(written \o rest[t])

\* Every reader sees the elements of one writer in the order in which they
\* were written, and no element reaches two readers.
DeliveredOnceInOrder ==
  /\ \A t \in Callers : InWriterOrder(got[t])
  /\ \A t, u \in Callers :
       t /= u => \A i \in DOMAIN got[t], j \in DOMAIN got[u] : got[t][i] /= got[u][j]

\* The lane is a bounded queue.
Fifo == INSTANCE BoundedFifo WITH
          Bound <- Capacity, Clients <- Callers, Item <- Element,
          queue <- Content, pending <- rest, closed <- ended, delivered <- got

\* Seen through its unread elements, the lane behaves as BoundedFifo says.
FifoRefinement == Fifo!FifoSpec
=============================================================================
