----------------------------- MODULE LaneProofs -----------------------------
(***************************************************************************)
(* Proofs about the lane for every capacity, every set of threads and      *)
(* calls of every size: types, order of the elements and wakeups; and      *)
(* about the buffers around it (BufferedLane), which use only its calls.   *)
(***************************************************************************)
EXTENDS BufferedLane, SequenceTheorems, TLAPS

----
\* Positions are taken modulo the capacity, and never exceed it twice.
LEMMA ModSmall ==
  ASSUME NEW C \in Nat \ {0}, NEW a \in 0 .. C - 1
  PROVE  a % C = a  OBVIOUS

LEMMA ModOnce ==
  ASSUME NEW C \in Nat \ {0}, NEW a \in C .. 2 * C - 1
  PROVE  a % C = a - C  OBVIOUS

\* p modulo the capacity, for a position that went round at most once.
Wrap(p) == IF p < Capacity THEN p ELSE p - Capacity

LEMMA WrapIsModulo == \A p \in 0 .. 2 * Capacity - 1 : p % Capacity = Wrap(p) /\ Wrap(p) \in Slots
<1> SUFFICES ASSUME NEW p \in 0 .. 2 * Capacity - 1
             PROVE  p % Capacity = Wrap(p) /\ Wrap(p) \in Slots  OBVIOUS
<1>1. CASE p < Capacity  BY <1>1, CapacityAssumption, ModSmall DEF CapacityAssumption, Wrap, Slots
<1>2. CASE ~ (p < Capacity)  BY <1>2, CapacityAssumption, ModOnce DEF CapacityAssumption, Wrap, Slots
<1>3. QED BY <1>1, <1>2

\* The i-th slot from the read position, seen from the write position.
LEMMA AheadOfWrite ==
  ASSUME NEW w \in Slots, NEW f \in 0 .. Capacity, NEW i \in 1 .. Capacity
  PROVE  Wrap(Wrap(Wrap(w + f) + i - 1) + Capacity - w) = Wrap(f + i - 1)
  BY CapacityAssumption DEF CapacityAssumption, Slots, Wrap

\* Moving the read position k slots on shifts what is read by k.
LEMMA ShiftOfRead ==
  ASSUME NEW w \in Slots, NEW f \in 0 .. Capacity, NEW k \in 0 .. Capacity - f,
         NEW i \in 1 .. Capacity - f - k
  PROVE  Wrap(Wrap(w + f + k) + i - 1) = Wrap(Wrap(w + f) + k + i - 1)
  BY CapacityAssumption DEF CapacityAssumption, Slots, Wrap

----
\* The inductive invariant.  The counters agree with the history, and the
\* i-th slot from the read position holds the i-th element not yet taken.
Counted == FreeReadSpace = Len(written) - taken

Stored == \A i \in 1 .. FreeReadSpace :
            buffer[(ReadPosition + i - 1) % Capacity] = written[taken + i]

\* The part of the type invariant that speaks of the cyclic buffer ...
BufferOK ==
  /\ buffer \in [Slots -> Element \cup {NoElement}]
  /\ writePosition \in Slots
  /\ freeWriteSpace \in 0 .. Capacity
  /\ written \in Seq(Element)
  /\ taken \in 0 .. Len(written)
  /\ Counted
  /\ Stored

\* ... and the part that speaks of the threads.
ThreadsOK ==
  /\ ended \in BOOLEAN
  /\ waitingWriting \subseteq {t \in Callers : call[t] \in {"write", "waitForEmpty"}}
  /\ waitingReading \subseteq {t \in Callers : call[t] \in {"read", "discard"}}
  /\ call \in [Callers -> {"none", "write", "read", "discard", "waitForEmpty"}]
  /\ rest \in [Callers -> Seq(Element)]
  /\ need \in [Callers -> Nat]
  /\ sent \in [Callers -> Nat]
  /\ got \in [Callers -> Seq(Element)]
  /\ short \in [Callers -> BOOLEAN]

IInv == BufferOK /\ ThreadsOK

LEMMA InitIInv == Init => IInv
<1> SUFFICES ASSUME Init PROVE IInv  OBVIOUS
<1> USE CapacityAssumption DEF CapacityAssumption
<1>1. BufferOK  BY DEF Init, BufferOK, Counted, Stored, FreeReadSpace, Slots
<1>2. ThreadsOK  BY EmptySeq DEF Init, ThreadsOK
<1>3. QED BY <1>1, <1>2 DEF IInv

\* Where the read position is, and which slot is the i-th from it.
LEMMA Positions ==
  ASSUME BufferOK
  PROVE  /\ writePosition + freeWriteSpace \in 0 .. 2 * Capacity - 1
         /\ ReadPosition = Wrap(writePosition + freeWriteSpace)
         /\ ReadPosition \in Slots
         /\ \A i \in 1 .. Capacity : /\ (ReadPosition + i - 1) % Capacity = Wrap(ReadPosition + i - 1)
                                     /\ Wrap(ReadPosition + i - 1) \in Slots
<1> USE CapacityAssumption DEF CapacityAssumption
<1>1. writePosition + freeWriteSpace \in 0 .. 2 * Capacity - 1  BY DEF BufferOK, Slots
<1>2. ReadPosition = Wrap(writePosition + freeWriteSpace) /\ ReadPosition \in Slots
  BY <1>1, WrapIsModulo DEF ReadPosition
<1>3. ASSUME NEW i \in 1 .. Capacity PROVE ReadPosition + i - 1 \in 0 .. 2 * Capacity - 1  BY <1>2 DEF Slots
<1>4. QED BY <1>1, <1>2, <1>3, WrapIsModulo

\* immediate_write keeps the unread elements where they are and appends.
LEMMA WriteKeepsBuffer ==
  ASSUME BufferOK, NEW es \in Seq(Element), Len(es) <= freeWriteSpace,
         ImmediateWrite(es), taken' = taken
  PROVE  BufferOK' /\ ReadPosition' = ReadPosition
<1> USE CapacityAssumption DEF CapacityAssumption
<1> DEFINE n == Len(es)
<1>0. /\ Capacity \in Nat \ {0}
      /\ n \in Nat /\ n <= freeWriteSpace
      /\ freeWriteSpace \in 0 .. Capacity
      /\ writePosition \in 0 .. Capacity - 1  BY DEF BufferOK, Slots
<1>1. writePosition' = Wrap(writePosition + n)
  <2>1. writePosition + n \in 0 .. 2 * Capacity - 1  BY <1>0
  <2>2. QED BY <2>1, WrapIsModulo DEF ImmediateWrite, Advance
<1>2. freeWriteSpace' = freeWriteSpace - n /\ written' = written \o es  BY DEF ImmediateWrite
<1>3. \A s \in Slots : Ahead(s) = Wrap(s + Capacity - writePosition) /\ Ahead(s) \in 0 .. Capacity - 1
  <2> TAKE s \in Slots
  <2>1. s + Capacity - writePosition \in 0 .. 2 * Capacity - 1  BY <1>0 DEF Slots
  <2>2. QED BY <2>1, WrapIsModulo DEF Ahead, Slots
<1>4. buffer' \in [Slots -> Element \cup {NoElement}]
  <2>1. ASSUME NEW s \in Slots, Ahead(s) < n PROVE es[Ahead(s) + 1] \in Element  BY <2>1, <1>0, <1>3
  <2>2. QED BY <2>1 DEF BufferOK, ImmediateWrite
<1>5. writePosition' \in Slots /\ freeWriteSpace' \in 0 .. Capacity  BY <1>0, <1>1, <1>2 DEF Slots, Wrap
<1>6. written' \in Seq(Element) /\ Len(written') = Len(written) + n /\ taken' \in 0 .. Len(written')
  BY <1>0, <1>2 DEF BufferOK
<1>7. Counted'
  <2>1. Len(written) \in Nat /\ taken \in Nat  BY LenProperties DEF BufferOK
  <2>2. FreeReadSpace' = FreeReadSpace + n  BY <1>0, <1>2 DEF FreeReadSpace
  <2>3. QED BY <2>1, <2>2, <1>0, <1>6 DEF BufferOK, Counted, FreeReadSpace
<1>8. ReadPosition' = ReadPosition
  <2>1. writePosition' + freeWriteSpace' \in 0 .. 2 * Capacity - 1  BY <1>0, <1>1, <1>2 DEF Wrap
  <2>2. ReadPosition' = Wrap(writePosition' + freeWriteSpace')  BY <2>1, WrapIsModulo DEF ReadPosition
  <2>3. QED BY <1>0, <1>1, <1>2, <2>2, Positions DEF Wrap
<1>9. Stored'
  <2> SUFFICES ASSUME NEW i \in 1 .. FreeReadSpace'
               PROVE  buffer'[(ReadPosition + i - 1) % Capacity] = written'[taken + i]  BY <1>8 DEF Stored
  <2> DEFINE s == Wrap(ReadPosition + i - 1)
  <2>1. FreeReadSpace' = FreeReadSpace + n /\ FreeReadSpace = Capacity - freeWriteSpace
    BY <1>0, <1>2 DEF FreeReadSpace
  <2>2. i \in 1 .. Capacity  BY <2>1, <1>0
  <2>3. (ReadPosition + i - 1) % Capacity = s /\ s \in Slots  BY <2>2, Positions
  <2>4. Ahead(s) = Wrap(freeWriteSpace + i - 1)
    <3>1. s = Wrap(Wrap(writePosition + freeWriteSpace) + i - 1)  BY Positions
    <3>2. Ahead(s) = Wrap(s + Capacity - writePosition)  BY <1>3, <2>3
    <3> HIDE DEF s
    <3>3. QED BY <1>0, <2>2, <3>1, <3>2, AheadOfWrite DEF Slots
  <2>5. buffer'[s] = IF Ahead(s) < n THEN es[Ahead(s) + 1] ELSE buffer[s]  BY <2>3 DEF ImmediateWrite
  <2> HIDE DEF s
  <2>6. CASE i <= FreeReadSpace
    <3>1. buffer'[s] = buffer[s]  BY <1>0, <2>1, <2>2, <2>4, <2>5, <2>6 DEF Wrap
    <3>2. buffer[s] = written[taken + i]  BY <1>0, <2>1, <2>2, <2>3, <2>6 DEF BufferOK, Stored
    <3>3. taken + i \in 1 .. Len(written)  BY <1>0, <2>1, <2>2, <2>6 DEF BufferOK, Counted
    <3>4. written'[taken + i] = written[taken + i]  BY <1>2, <3>3 DEF BufferOK
    <3>5. QED BY <2>3, <3>1, <3>2, <3>4
  <2>7. CASE i > FreeReadSpace
    <3>1. Ahead(s) = i - FreeReadSpace - 1 /\ Ahead(s) < n  BY <1>0, <2>1, <2>2, <2>4, <2>7 DEF Wrap
    <3>2. buffer'[s] = es[i - FreeReadSpace]  BY <1>0, <2>1, <2>2, <2>5, <3>1
    <3>3. taken + i = Len(written) + (i - FreeReadSpace) /\ i - FreeReadSpace \in 1 .. n
      BY <1>0, <2>1, <2>2, <2>7 DEF BufferOK, Counted
    <3>4. written'[taken + i] = es[i - FreeReadSpace]  BY <1>0, <1>2, <3>3 DEF BufferOK
    <3>5. QED BY <2>3, <3>2, <3>4
  <2>8. QED BY <1>0, <2>1, <2>2, <2>6, <2>7
<1>10. QED BY <1>4, <1>5, <1>6, <1>7, <1>8, <1>9 DEF BufferOK

\* immediate_read and immediate_discard remove the oldest elements.
LEMMA ReadKeepsBuffer ==
  ASSUME BufferOK, NEW k \in 0 .. FreeReadSpace, ImmediateRead(k),
         buffer' = buffer, writePosition' = writePosition, written' = written
  PROVE  BufferOK'
<1> USE CapacityAssumption DEF CapacityAssumption
<1>0. /\ freeWriteSpace \in 0 .. Capacity
      /\ writePosition \in 0 .. Capacity - 1
      /\ k \in 0 .. Capacity - freeWriteSpace  BY DEF BufferOK, Slots, FreeReadSpace
<1>1. freeWriteSpace' = freeWriteSpace + k /\ taken' = taken + k  BY DEF ImmediateRead
<1>2. FreeReadSpace' = FreeReadSpace - k /\ FreeReadSpace = Capacity - freeWriteSpace  BY <1>0, <1>1 DEF FreeReadSpace
<1>3. Len(written) \in Nat /\ taken \in 0 .. Len(written) /\ FreeReadSpace = Len(written) - taken
  BY LenProperties DEF BufferOK, Counted
<1>4. taken' \in 0 .. Len(written') /\ Counted'  BY <1>0, <1>1, <1>2, <1>3 DEF Counted
<1>5. freeWriteSpace' \in 0 .. Capacity  BY <1>0, <1>1
<1>6. ReadPosition' = Wrap(writePosition + freeWriteSpace + k)
  <2>1. writePosition + freeWriteSpace + k \in 0 .. 2 * Capacity - 1  BY <1>0
  <2>2. ReadPosition' = (writePosition + freeWriteSpace + k) % Capacity
    <3>1. ReadPosition' = (writePosition + (freeWriteSpace + k)) % Capacity  BY <1>1 DEF ReadPosition
    <3>2. QED BY <1>0, <3>1
  <2>3. QED BY <2>1, <2>2, WrapIsModulo
<1>7. Stored'
  <2> SUFFICES ASSUME NEW i \in 1 .. FreeReadSpace'
               PROVE  buffer[(ReadPosition' + i - 1) % Capacity] = written[taken' + i]  BY DEF Stored
  <2>1. i \in 1 .. Capacity - freeWriteSpace - k /\ i + k \in 1 .. FreeReadSpace /\ i + k \in 1 .. Capacity
    BY <1>0, <1>2
  <2>2. Wrap(writePosition + freeWriteSpace + k) \in 0 .. Capacity - 1  BY <1>0 DEF Wrap
  <2>3. (Wrap(writePosition + freeWriteSpace + k) + i - 1) % Capacity
          = Wrap(Wrap(writePosition + freeWriteSpace + k) + i - 1)
    <3>1. Wrap(writePosition + freeWriteSpace + k) + i - 1 \in 0 .. 2 * Capacity - 1  BY <1>0, <2>1, <2>2
    <3>2. QED BY <3>1, WrapIsModulo
  <2>4. Wrap(Wrap(writePosition + freeWriteSpace + k) + i - 1)
          = Wrap(Wrap(writePosition + freeWriteSpace) + k + i - 1)  BY <1>0, <2>1, ShiftOfRead DEF Slots
  <2>5. buffer[(ReadPosition + (i + k) - 1) % Capacity] = written[taken + (i + k)]  BY <2>1 DEF BufferOK, Stored
  <2>6. (ReadPosition + (i + k) - 1) % Capacity = Wrap(Wrap(writePosition + freeWriteSpace) + k + i - 1)
    <3>1. (ReadPosition + (i + k) - 1) % Capacity = Wrap(ReadPosition + (i + k) - 1)  BY <2>1, Positions
    <3>2. ReadPosition = Wrap(writePosition + freeWriteSpace) /\ ReadPosition \in 0 .. Capacity - 1
      BY Positions DEF Slots
    <3>3. ReadPosition + (i + k) - 1 = Wrap(writePosition + freeWriteSpace) + k + i - 1  BY <1>0, <2>1, <3>2
    <3>4. QED BY <3>1, <3>3
  <2>7. taken' + i = taken + (i + k)  BY <1>0, <1>1, <1>3, <2>1
  <2>8. QED BY <1>6, <2>3, <2>4, <2>5, <2>6, <2>7
<1>8. QED BY <1>4, <1>5, <1>7 DEF BufferOK

\* What a reader sees is what was written and not taken.
LEMMA ContentIsUnread ==
  ASSUME BufferOK
  PROVE  /\ Content \in Seq(Element)
         /\ Len(Content) = FreeReadSpace
         /\ FifoOrder
<1>1. FreeReadSpace \in Nat /\ FreeReadSpace <= Capacity
  BY CapacityAssumption DEF CapacityAssumption, BufferOK, FreeReadSpace
<1>2. Len(written) \in Nat /\ taken \in 0 .. Len(written) /\ FreeReadSpace = Len(written) - taken
  BY LenProperties DEF BufferOK, Counted
<1>3. SubSeq(written, taken + 1, Len(written)) = [i \in 1 .. FreeReadSpace |-> written[taken + i]]
  BY <1>1, <1>2 DEF BufferOK
<1>4. Content = [i \in 1 .. FreeReadSpace |-> written[taken + i]]  BY DEF Content, BufferOK, Stored
<1>5. Content \in [1 .. FreeReadSpace -> Element]
  <2>1. ASSUME NEW i \in 1 .. FreeReadSpace PROVE written[taken + i] \in Element
    <3>1. taken + i \in 1 .. Len(written)  BY <1>1, <1>2
    <3>2. QED BY <3>1, ElementOfSeq DEF BufferOK
  <2>2. QED BY <1>4, <2>1
<1>6. QED BY <1>1, <1>3, <1>4, <1>5 DEF FifoOrder

----
\* One pass of a call preserves the invariant.
LEMMA WritePassIInv ==
  ASSUME IInv, NEW t \in Callers, NEW es \in Seq(Element),
         t \notin waitingWriting, t \notin waitingReading,
         sent' \in [Callers -> Nat], WritePass(t, es)
  PROVE  IInv'
<1> DEFINE k == Minimum(Len(es), freeWriteSpace)
           left == Remainder(es, k)
<1>1. k \in 0 .. Len(es) /\ k <= freeWriteSpace  BY DEF IInv, BufferOK, Minimum
<1>2. SubSeq(es, 1, k) \in Seq(Element) /\ Len(SubSeq(es, 1, k)) = k /\ left \in Seq(Element)
  BY <1>1, SubSeqProperties DEF Remainder
<1>3. /\ ImmediateWrite(SubSeq(es, 1, k))
      /\ rest' = [rest EXCEPT ![t] = left]
      /\ call' = [call EXCEPT ![t] = IF left = <<>> THEN "none" ELSE "write"]
      /\ waitingWriting' = IF left = <<>> THEN waitingWriting ELSE waitingWriting \cup {t}
      /\ UNCHANGED <<ended, need, taken, got, short>>  BY DEF WritePass
<1> HIDE DEF k, left
<1>4. BufferOK'  BY <1>1, <1>2, <1>3, WriteKeepsBuffer DEF IInv
<1>5. waitingReading' \subseteq waitingReading  BY <1>3 DEF ImmediateWrite, Notify
<1>6. ThreadsOK'  BY <1>2, <1>3, <1>5 DEF IInv, ThreadsOK
<1>7. QED BY <1>4, <1>6 DEF IInv

LEMMA ReadPassIInv ==
  ASSUME IInv, NEW t \in Callers, NEW n \in Nat, NEW keep \in BOOLEAN,
         t \notin waitingWriting, t \notin waitingReading, ReadPass(t, n, keep)
  PROVE  IInv'
<1> DEFINE k == Minimum(n, FreeReadSpace)
           waits == MustWait(k, n)
<1>1. k \in 0 .. FreeReadSpace /\ n - k \in Nat
  BY CapacityAssumption DEF CapacityAssumption, IInv, BufferOK, Minimum, FreeReadSpace
<1>2. /\ ImmediateRead(k)
      /\ got' = [got EXCEPT ![t] = IF keep THEN @ \o SubSeq(Content, 1, k) ELSE @]
      /\ need' = [need EXCEPT ![t] = IF waits THEN n - k ELSE 0]
      /\ call' = [call EXCEPT ![t] = IF ~waits THEN "none" ELSE IF keep THEN "read" ELSE "discard"]
      /\ short' = [short EXCEPT ![t] = @ \/ (k < n /\ ended)]
      /\ waitingReading' = IF waits THEN waitingReading \cup {t} ELSE waitingReading
      /\ UNCHANGED <<buffer, writePosition, ended, rest, sent, written>>  BY DEF ReadPass
<1>3. SubSeq(Content, 1, k) \in Seq(Element)  BY <1>1, ContentIsUnread, SubSeqProperties DEF IInv
<1> HIDE DEF k, waits
<1>4. BufferOK'  BY <1>1, <1>2, ReadKeepsBuffer DEF IInv
<1>5. waitingWriting' \subseteq waitingWriting  BY <1>2 DEF ImmediateRead, Notify
<1>6. got' \in [Callers -> Seq(Element)]
  <2>1. got[t] \in Seq(Element)  BY DEF IInv, ThreadsOK
  <2>2. got[t] \o SubSeq(Content, 1, k) \in Seq(Element)  BY <1>3, <2>1, ConcatProperties
  <2>3. QED BY <1>2, <2>1, <2>2 DEF IInv, ThreadsOK
<1>7. need' \in [Callers -> Nat] /\ short' \in [Callers -> BOOLEAN]  BY <1>1, <1>2 DEF IInv, ThreadsOK
<1>8. /\ call' \in [Callers -> {"none", "write", "read", "discard", "waitForEmpty"}]
      /\ waitingWriting' \subseteq {u \in Callers : call'[u] \in {"write", "waitForEmpty"}}
      /\ waitingReading' \subseteq {u \in Callers : call'[u] \in {"read", "discard"}}
  BY <1>2, <1>5 DEF IInv, ThreadsOK
<1>9. ThreadsOK'  BY <1>2, <1>6, <1>7, <1>8 DEF IInv, ThreadsOK
<1>10. QED BY <1>4, <1>9 DEF IInv

LEMMA BufferUnchanged ==
  ASSUME BufferOK, UNCHANGED <<buffer, writePosition, freeWriteSpace, written, taken>>
  PROVE  BufferOK'
<1>1. Counted'  BY DEF BufferOK, Counted, FreeReadSpace
<1>2. ReadPosition' = ReadPosition /\ FreeReadSpace' = FreeReadSpace  BY DEF ReadPosition, FreeReadSpace
<1>3. Stored'  BY <1>2 DEF BufferOK, Stored
<1>4. QED BY <1>1, <1>3 DEF BufferOK

LEMMA EmptyPassIInv ==
  ASSUME IInv, NEW t \in Callers, t \notin waitingReading, t \notin waitingWriting, EmptyPass(t)
  PROVE  IInv'
<1>1. BufferOK'  BY BufferUnchanged DEF IInv, EmptyPass, laneVars
<1>2. \/ call' = [call EXCEPT ![t] = "none"] /\ waitingWriting' = waitingWriting
      \/ call' = [call EXCEPT ![t] = "waitForEmpty"] /\ waitingWriting' = waitingWriting \cup {t}  BY DEF EmptyPass
<1>3. UNCHANGED <<ended, waitingReading, rest, need, sent, got, short>>  BY DEF EmptyPass, laneVars
<1>4. ThreadsOK'  BY <1>2, <1>3 DEF IInv, ThreadsOK
<1>5. QED BY <1>1, <1>4 DEF IInv

\* Every step of the lane preserves the invariant.
LEMMA NextIInv == IInv /\ [Next]_vars => IInv'
<1> SUFFICES ASSUME IInv, [Next]_vars PROVE IInv'  OBVIOUS
<1> USE DEF laneVars, waitVars, callVars
<1>0. ASSUME NEW t \in Callers, call[t] = "none"
      PROVE  t \notin waitingWriting /\ t \notin waitingReading  BY <1>0 DEF IInv, ThreadsOK
<1>1. ASSUME NEW w \in Writers, NEW n \in 1 .. MaxChunk, Write(w, n) PROVE IInv'
  <2> DEFINE es == [i \in 1 .. n |-> <<w, sent[w] + i>>]
  <2>1. w \in Callers /\ call[w] = "none" /\ n \in Nat  BY <1>1, BoundsAssumption DEF Write, Callers, BoundsAssumption
  <2>2. sent[w] \in Nat  BY <2>1 DEF IInv, ThreadsOK
  <2>3. es \in [1 .. n -> Element]  BY <2>1, <2>2 DEF Element
  <2>4. es \in Seq(Element)  BY <2>1, <2>3
  <2>5. sent' \in [Callers -> Nat]  BY <1>1, <2>1, <2>2 DEF Write, IInv, ThreadsOK
  <2>6. WritePass(w, es)  BY <1>1 DEF Write
  <2> HIDE DEF es
  <2>7. QED BY <1>0, <2>1, <2>4, <2>5, <2>6, WritePassIInv
<1>2. ASSUME NEW w \in Writers, NEW n \in 1 .. MaxChunk, WriteIgnored(w, n) PROVE IInv'
  <2>1. w \in Callers /\ n \in Nat  BY BoundsAssumption DEF Callers, BoundsAssumption
  <2>2. BufferOK'  BY <1>2, BufferUnchanged DEF IInv, WriteIgnored
  <2>3. sent' \in [Callers -> Nat]  BY <1>2, <2>1 DEF IInv, ThreadsOK, WriteIgnored
  <2>4. ThreadsOK'  BY <1>2, <2>3 DEF IInv, ThreadsOK, WriteIgnored
  <2>5. QED BY <2>2, <2>4 DEF IInv
<1>3. ASSUME NEW w \in Writers, WriteEnd(w) PROVE IInv'
  <2>1. BufferOK'  BY <1>3, BufferUnchanged DEF IInv, WriteEnd
  <2>2. ThreadsOK'  BY <1>3 DEF IInv, ThreadsOK, WriteEnd
  <2>3. QED BY <2>1, <2>2 DEF IInv
<1>4. ASSUME NEW w \in Writers, WaitForEmpty(w) PROVE IInv'  BY <1>0, <1>4, EmptyPassIInv DEF WaitForEmpty, Callers
<1>5. ASSUME NEW r \in Readers, NEW n \in 1 .. MaxChunk, Read(r, n) \/ Discard(r, n) PROVE IInv'
  <2>1. r \in Callers /\ n \in Nat  BY BoundsAssumption DEF Callers, BoundsAssumption
  <2>2. call[r] = "none"  BY <1>5 DEF Read, Discard
  <2>3. PICK keep \in BOOLEAN : ReadPass(r, n, keep)  BY <1>5 DEF Read, Discard
  <2>4. QED BY <1>0, <2>1, <2>2, <2>3, ReadPassIInv
<1>6. ASSUME NEW t \in Callers, ResumeWrite(t) PROVE IInv'
  <2>1. t \notin waitingWriting /\ t \notin waitingReading  BY <1>6 DEF ResumeWrite, IInv, ThreadsOK
  <2>2. rest[t] \in Seq(Element)  BY DEF IInv, ThreadsOK
  <2>3. sent' \in [Callers -> Nat]  BY <1>6 DEF ResumeWrite, IInv, ThreadsOK
  <2>4. QED BY <1>6, <2>1, <2>2, <2>3, WritePassIInv DEF ResumeWrite
<1>7. ASSUME NEW t \in Callers, ResumeRead(t) \/ ResumeDiscard(t) PROVE IInv'
  <2>1. t \notin waitingWriting /\ t \notin waitingReading  BY <1>7 DEF ResumeRead, ResumeDiscard, IInv, ThreadsOK
  <2>2. need[t] \in Nat  BY DEF IInv, ThreadsOK
  <2>3. PICK keep \in BOOLEAN : ReadPass(t, need[t], keep)  BY <1>7 DEF ResumeRead, ResumeDiscard
  <2>4. QED BY <2>1, <2>2, <2>3, ReadPassIInv
<1>8. ASSUME NEW t \in Callers, ResumeWaitForEmpty(t) PROVE IInv'
  <2>1. t \notin waitingWriting /\ t \notin waitingReading  BY <1>8 DEF ResumeWaitForEmpty, IInv, ThreadsOK
  <2>2. QED BY <1>8, <2>1, EmptyPassIInv DEF ResumeWaitForEmpty
<1>9. ASSUME NEW t \in Callers, WaitReturnsEarly(t) PROVE IInv'
  <2>1. BufferOK'  BY <1>9, BufferUnchanged DEF IInv, WaitReturnsEarly
  <2>2. ThreadsOK'  BY <1>9 DEF IInv, ThreadsOK, WaitReturnsEarly
  <2>3. QED BY <2>1, <2>2 DEF IInv
<1>10. CASE Clear
  <2> USE CapacityAssumption DEF CapacityAssumption
  <2>1. BufferOK'
    <3>1. written' \in Seq(Element) /\ Len(written') = 0 /\ taken' = 0  BY <1>10, EmptySeq DEF Clear
    <3>2. freeWriteSpace' = Capacity /\ writePosition' = 0 /\ buffer' = buffer  BY <1>10 DEF Clear
    <3>3. FreeReadSpace' = 0  BY <3>2 DEF FreeReadSpace
    <3>4. Counted' /\ Stored'  BY <3>1, <3>3 DEF Counted, Stored
    <3>5. QED BY <3>1, <3>2, <3>4 DEF BufferOK, IInv, Slots
  <2>2. got' \in [Callers -> Seq(Element)]  BY <1>10, EmptySeq DEF Clear
  <2>3. ThreadsOK'  BY <1>10, <2>2 DEF IInv, ThreadsOK, Clear
  <2>4. QED BY <2>1, <2>3 DEF IInv
<1>11. CASE UNCHANGED vars
  <2>1. BufferOK'  BY <1>11, BufferUnchanged DEF IInv, vars
  <2>2. ThreadsOK'  BY <1>11 DEF IInv, ThreadsOK, vars
  <2>3. QED BY <2>1, <2>2 DEF IInv
<1>12. QED BY <1>1, <1>2, <1>3, <1>4, <1>5, <1>6, <1>7, <1>8, <1>9, <1>10, <1>11 DEF Next, Resume

LEMMA IInvHolds == Spec => []IInv  BY InitIInv, NextIInv, PTL DEF Spec

\* All fields keep their types and a thread sleeps only inside the call that
\* waits for its condition variable.
THEOREM LaneTypeOK == Spec => []TypeOK
<1>1. IInv => TypeOK  BY DEF IInv, BufferOK, ThreadsOK, TypeOK
<1>2. QED BY <1>1, IInvHolds, PTL

\* Nothing written is lost, repeated or reordered, for every capacity, every
\* number of threads and calls of every size.
THEOREM LaneFifoOrder == Spec => []FifoOrder
<1>1. IInv => FifoOrder  BY ContentIsUnread DEF IInv
<1>2. QED BY <1>1, IInvHolds, PTL

----
\* Wakeups.
LEMMA WritePassWakeup ==
  ASSUME IInv, NoLostWakeup, NEW t \in Callers, NEW es \in Seq(Element), WritePass(t, es)
  PROVE  NoLostWakeup'
<1> DEFINE k == Minimum(Len(es), freeWriteSpace)
           left == Remainder(es, k)
<1>1. /\ k \in Nat /\ k <= freeWriteSpace
      /\ freeWriteSpace \in 0 .. Capacity
      /\ k < Len(es) => k = freeWriteSpace  BY CapacityAssumption DEF CapacityAssumption, IInv, BufferOK, Minimum
<1>2. SubSeq(es, 1, k) \in Seq(Element) /\ Len(SubSeq(es, 1, k)) = k  BY <1>1, SubSeqProperties DEF Minimum
<1>3. left /= <<>> => k = freeWriteSpace
  <2>1. CASE k < Len(es)  BY <1>1, <2>1
  <2>2. CASE ~ (k < Len(es))  BY <1>1, <2>2, SubSeqEmpty DEF Remainder
  <2>3. QED BY <2>1, <2>2
<1>4. /\ freeWriteSpace' = freeWriteSpace - k
      /\ waitingReading' = Notify(waitingReading, k)
      /\ call' = [call EXCEPT ![t] = IF left = <<>> THEN "none" ELSE "write"]
      /\ waitingWriting' = IF left = <<>> THEN waitingWriting ELSE waitingWriting \cup {t}
      /\ ended' = ended  BY <1>2 DEF WritePass, ImmediateWrite
<1> HIDE DEF k, left
<1>5. \A u \in waitingReading' : FreeReadSpace' = 0 /\ ~ ended'
  <2>1. CASE k = 0
    <3>1. freeWriteSpace' = freeWriteSpace /\ waitingReading' = waitingReading  BY <1>1, <1>4, <2>1 DEF Notify
    <3>2. QED BY <1>4, <3>1 DEF NoLostWakeup, FreeReadSpace
  <2>2. CASE k /= 0  BY <1>4, <2>2 DEF Notify
  <2>3. QED BY <2>1, <2>2
<1>6. ASSUME NEW u \in waitingWriting'
      PROVE  IF call'[u] = "write" THEN freeWriteSpace' = 0 ELSE freeWriteSpace' < Capacity
  <2>1. CASE u = t /\ left /= <<>>  BY <1>1, <1>3, <1>4, <2>1 DEF IInv, ThreadsOK
  <2>2. CASE u \in waitingWriting /\ (u /= t \/ left = <<>>)
    <3>1. IF call[u] = "write" THEN freeWriteSpace = 0 ELSE freeWriteSpace < Capacity  BY <2>2 DEF NoLostWakeup
    <3>2. IF call[u] = "write" THEN freeWriteSpace' = 0 ELSE freeWriteSpace' < Capacity
      BY <1>1, <1>4, <3>1, CapacityAssumption DEF CapacityAssumption
    <3>3. u \in Callers /\ (call'[u] = "write" => call[u] = "write") /\ (u /= t => call'[u] = call[u])
      BY <1>4, <2>2 DEF IInv, ThreadsOK
    <3>4. CASE u /= t  BY <3>2, <3>3, <3>4
    <3>5. CASE u = t
      <4>1. call'[u] = "none" /\ freeWriteSpace' < Capacity
        BY <1>1, <1>4, <2>2, <3>1, <3>3, <3>5, CapacityAssumption DEF CapacityAssumption, IInv, ThreadsOK
      <4>2. QED BY <4>1
    <3>6. QED BY <3>4, <3>5
  <2>3. QED BY <1>4, <2>1, <2>2
<1>7. QED BY <1>5, <1>6 DEF NoLostWakeup

LEMMA ReadPassWakeup ==
  ASSUME IInv, NoLostWakeup, NEW t \in Callers, NEW n \in Nat, NEW keep \in BOOLEAN,
         t \notin waitingWriting, ReadPass(t, n, keep)
  PROVE  NoLostWakeup'
<1> DEFINE k == Minimum(n, FreeReadSpace)
<1>1. /\ freeWriteSpace \in 0 .. Capacity
      /\ FreeReadSpace = Capacity - freeWriteSpace
      /\ k \in 0 .. FreeReadSpace
      /\ k < n => k = FreeReadSpace
  BY CapacityAssumption DEF CapacityAssumption, IInv, BufferOK, Minimum, FreeReadSpace
<1>2. /\ freeWriteSpace' = freeWriteSpace + k
      /\ waitingWriting' = Notify(waitingWriting, k)
      /\ waitingReading' = IF MustWait(k, n) THEN waitingReading \cup {t} ELSE waitingReading
      /\ ended' = ended
      /\ \A u \in Callers \ {t} : call'[u] = call[u]  BY DEF ReadPass, ImmediateRead, IInv, ThreadsOK
<1> HIDE DEF k
<1>3. FreeReadSpace' = FreeReadSpace - k  BY <1>1, <1>2, CapacityAssumption DEF CapacityAssumption, FreeReadSpace
<1>4. ASSUME NEW u \in waitingReading'
      PROVE  FreeReadSpace' = 0 /\ ~ ended'
  <2>1. CASE u \in waitingReading  BY <1>1, <1>2, <1>3, <2>1 DEF NoLostWakeup
  <2>2. CASE MustWait(k, n)  BY <1>1, <1>2, <1>3, <2>2 DEF MustWait
  <2>3. QED BY <1>2, <2>1, <2>2
<1>5. ASSUME NEW u \in waitingWriting'
      PROVE  IF call'[u] = "write" THEN freeWriteSpace' = 0 ELSE freeWriteSpace' < Capacity
  <2>1. k = 0 /\ u \in waitingWriting  BY <1>2 DEF Notify
  <2>2. freeWriteSpace' = freeWriteSpace /\ u \in Callers /\ u /= t  BY <1>1, <1>2, <2>1 DEF IInv, ThreadsOK
  <2>3. QED BY <1>2, <2>1, <2>2 DEF NoLostWakeup
<1>6. QED BY <1>4, <1>5 DEF NoLostWakeup

LEMMA EmptyPassWakeup ==
  ASSUME IInv, NoLostWakeup, NEW t \in Callers, t \notin waitingWriting, EmptyPass(t)
  PROVE  NoLostWakeup'
<1>1. freeWriteSpace \in 0 .. Capacity  BY DEF IInv, BufferOK
<1>2. UNCHANGED <<freeWriteSpace, ended, waitingReading>>  BY DEF EmptyPass, laneVars
<1>3. \/ call' = [call EXCEPT ![t] = "none"] /\ waitingWriting' = waitingWriting
      \/ /\ call' = [call EXCEPT ![t] = "waitForEmpty"] /\ waitingWriting' = waitingWriting \cup {t}
         /\ freeWriteSpace /= Capacity  BY DEF EmptyPass
<1>4. \A u \in waitingReading' : FreeReadSpace' = 0 /\ ~ ended'  BY <1>2 DEF NoLostWakeup, FreeReadSpace
<1>5. ASSUME NEW u \in waitingWriting'
      PROVE  IF call'[u] = "write" THEN freeWriteSpace' = 0 ELSE freeWriteSpace' < Capacity
  <2>1. CASE u = t
    <3>1. call'[u] = "waitForEmpty" /\ freeWriteSpace /= Capacity  BY <1>3, <2>1 DEF IInv, ThreadsOK
    <3>2. freeWriteSpace < Capacity  BY <1>1, <3>1, CapacityAssumption DEF CapacityAssumption
    <3>3. QED BY <1>2, <3>1, <3>2
  <2>2. CASE u /= t
    <3>1. u \in waitingWriting /\ u \in Callers /\ call'[u] = call[u]  BY <1>3, <2>2 DEF IInv, ThreadsOK
    <3>2. QED BY <1>2, <3>1 DEF NoLostWakeup
  <2>3. QED BY <2>1, <2>2
<1>6. QED BY <1>4, <1>5 DEF NoLostWakeup

LEMMA NextWakeup == IInv /\ NoLostWakeup /\ [Next]_vars => NoLostWakeup'
<1> SUFFICES ASSUME IInv, NoLostWakeup, [Next]_vars PROVE NoLostWakeup'  OBVIOUS
<1> USE DEF laneVars, waitVars, callVars
<1>0. ASSUME NEW t \in Callers, call[t] = "none"
      PROVE  t \notin waitingWriting /\ t \notin waitingReading  BY <1>0 DEF IInv, ThreadsOK
<1>1. ASSUME NEW w \in Writers, NEW n \in 1 .. MaxChunk, Write(w, n) PROVE NoLostWakeup'
  <2> DEFINE es == [i \in 1 .. n |-> <<w, sent[w] + i>>]
  <2>1. w \in Callers /\ n \in Nat  BY BoundsAssumption DEF Callers, BoundsAssumption
  <2>2. sent[w] \in Nat  BY <2>1 DEF IInv, ThreadsOK
  <2>3. es \in [1 .. n -> Element]  BY <2>1, <2>2 DEF Element
  <2>4. es \in Seq(Element)  BY <2>1, <2>3
  <2>5. WritePass(w, es)  BY <1>1 DEF Write
  <2> HIDE DEF es
  <2>6. QED BY <2>1, <2>4, <2>5, WritePassWakeup
<1>2. ASSUME NEW w \in Writers, NEW n \in 1 .. MaxChunk, WriteIgnored(w, n) PROVE NoLostWakeup'
  BY <1>2 DEF NoLostWakeup, WriteIgnored, FreeReadSpace
<1>3. ASSUME NEW w \in Writers, WriteEnd(w) PROVE NoLostWakeup'  BY <1>3 DEF NoLostWakeup, WriteEnd
<1>4. ASSUME NEW w \in Writers, WaitForEmpty(w) PROVE NoLostWakeup'
  BY <1>0, <1>4, EmptyPassWakeup DEF WaitForEmpty, Callers
<1>5. ASSUME NEW r \in Readers, NEW n \in 1 .. MaxChunk, Read(r, n) \/ Discard(r, n) PROVE NoLostWakeup'
  <2>1. r \in Callers /\ n \in Nat  BY BoundsAssumption DEF Callers, BoundsAssumption
  <2>2. call[r] = "none"  BY <1>5 DEF Read, Discard
  <2>3. PICK keep \in BOOLEAN : ReadPass(r, n, keep)  BY <1>5 DEF Read, Discard
  <2>4. QED BY <1>0, <2>1, <2>2, <2>3, ReadPassWakeup
<1>6. ASSUME NEW t \in Callers, ResumeWrite(t) PROVE NoLostWakeup'
  <2>1. rest[t] \in Seq(Element)  BY DEF IInv, ThreadsOK
  <2>2. QED BY <1>6, <2>1, WritePassWakeup DEF ResumeWrite
<1>7. ASSUME NEW t \in Callers, ResumeRead(t) \/ ResumeDiscard(t) PROVE NoLostWakeup'
  <2>1. t \notin waitingWriting  BY <1>7 DEF ResumeRead, ResumeDiscard, IInv, ThreadsOK
  <2>2. need[t] \in Nat  BY DEF IInv, ThreadsOK
  <2>3. PICK keep \in BOOLEAN : ReadPass(t, need[t], keep)  BY <1>7 DEF ResumeRead, ResumeDiscard
  <2>4. QED BY <2>1, <2>2, <2>3, ReadPassWakeup
<1>8. ASSUME NEW t \in Callers, ResumeWaitForEmpty(t) PROVE NoLostWakeup'
  BY <1>8, EmptyPassWakeup DEF ResumeWaitForEmpty
<1>9. ASSUME NEW t \in Callers, WaitReturnsEarly(t) PROVE NoLostWakeup'
  BY <1>9 DEF NoLostWakeup, WaitReturnsEarly, FreeReadSpace
<1>10. CASE Clear
  <2>1. waitingWriting = {} /\ waitingReading = {}  BY <1>10 DEF Clear, IInv, ThreadsOK
  <2>2. QED BY <1>10, <2>1 DEF Clear, NoLostWakeup
<1>11. CASE UNCHANGED vars  BY <1>11 DEF vars, NoLostWakeup, FreeReadSpace
<1>12. QED BY <1>1, <1>2, <1>3, <1>4, <1>5, <1>6, <1>7, <1>8, <1>9, <1>10, <1>11 DEF Next, Resume

\* No wakeup is lost: a sleeping thread always has a reason to sleep.
THEOREM LaneNoLostWakeup == Spec => []NoLostWakeup
<1>1. Init => NoLostWakeup  BY DEF Init, NoLostWakeup
<1>2. QED BY <1>1, IInvHolds, NextWakeup, PTL DEF Spec

----
\* Refinement of the bounded queue.

\* Only a thread inside a write has elements left to store.
RestOK == \A t \in Callers : call[t] /= "write" => rest[t] = <<>>

LEMMA NextRestOK == IInv /\ RestOK /\ [Next]_vars => RestOK'
<1> SUFFICES ASSUME IInv, RestOK, [Next]_vars PROVE RestOK'  OBVIOUS
<1> USE DEF laneVars, waitVars, callVars
<1>1. ASSUME NEW t \in Callers, NEW es, WritePass(t, es) PROVE RestOK'
  <2> DEFINE left == Remainder(es, Minimum(Len(es), freeWriteSpace))
  <2>1. /\ rest' = [rest EXCEPT ![t] = left]
        /\ call' = [call EXCEPT ![t] = IF left = <<>> THEN "none" ELSE "write"]  BY <1>1 DEF WritePass
  <2> HIDE DEF left
  <2>2. QED BY <2>1 DEF RestOK, IInv, ThreadsOK
<1>2. ASSUME NEW t \in Callers, NEW n, NEW keep, call[t] /= "write", ReadPass(t, n, keep) PROVE RestOK'
  BY <1>2 DEF ReadPass, RestOK, IInv, ThreadsOK
<1>3. ASSUME NEW t \in Callers, call[t] /= "write", EmptyPass(t) PROVE RestOK'
  <2>1. rest' = rest /\ \A u \in Callers : u /= t => call'[u] = call[u]  BY <1>3 DEF EmptyPass, IInv, ThreadsOK
  <2>2. QED BY <1>3, <2>1 DEF RestOK
<1>4. ASSUME NEW w \in Writers, NEW n \in 1 .. MaxChunk, Write(w, n) PROVE RestOK'  BY <1>1, <1>4 DEF Write, Callers
<1>5. ASSUME NEW t \in Callers, ResumeWrite(t) PROVE RestOK'  BY <1>1, <1>5 DEF ResumeWrite
<1>6. ASSUME NEW r \in Readers, NEW n \in 1 .. MaxChunk, Read(r, n) \/ Discard(r, n) PROVE RestOK'
  <2>1. r \in Callers /\ call[r] /= "write"  BY <1>6 DEF Callers, Read, Discard
  <2>2. PICK keep : ReadPass(r, n, keep)  BY <1>6 DEF Read, Discard
  <2>3. QED BY <1>2, <2>1, <2>2
<1>7. ASSUME NEW t \in Callers, ResumeRead(t) \/ ResumeDiscard(t) PROVE RestOK'
  <2>1. call[t] /= "write"  BY <1>7 DEF ResumeRead, ResumeDiscard
  <2>2. PICK keep : ReadPass(t, need[t], keep)  BY <1>7 DEF ResumeRead, ResumeDiscard
  <2>3. QED BY <1>2, <2>1, <2>2
<1>8. ASSUME NEW w \in Writers, WaitForEmpty(w) PROVE RestOK'  BY <1>3, <1>8 DEF WaitForEmpty, Callers
<1>9. ASSUME NEW t \in Callers, ResumeWaitForEmpty(t) PROVE RestOK'  BY <1>3, <1>9 DEF ResumeWaitForEmpty
<1>10. ASSUME UNCHANGED <<call, rest>> PROVE RestOK'  BY <1>10 DEF RestOK
<1>11. QED BY <1>4, <1>5, <1>6, <1>7, <1>8, <1>9, <1>10
  DEF Next, Resume, vars, WriteIgnored, WriteEnd, WaitReturnsEarly, Clear

LEMMA BufferGivesFifoOrder == BufferOK => FifoOrder  BY ContentIsUnread

\* The same of the state after a step.
LEMMA BufferGivesFifoOrderNext == BufferOK' => FifoOrder'  BY BufferGivesFifoOrder, PTL

\* A write pass appends to the content what it stores ...
LEMMA ContentAfterWrite ==
  ASSUME BufferOK, BufferOK', NEW es \in Seq(Element), written' = written \o es, taken' = taken
  PROVE  Content' = Content \o es
<1>1. Content = SubSeq(written, taken + 1, Len(written)) /\ Content \in Seq(Element)  BY ContentIsUnread DEF FifoOrder
<1>2. Content' = SubSeq(written \o es, taken + 1, Len(written \o es))
  <2>1. FifoOrder'  BY BufferGivesFifoOrderNext
  <2>2. QED BY <2>1 DEF FifoOrder
<1>3. written \in Seq(Element) /\ Len(written) \in Nat /\ taken \in 0 .. Len(written) /\ Len(es) \in Nat
  BY LenProperties DEF BufferOK
<1>4. Len(written \o es) = Len(written) + Len(es)  BY <1>3
<1>5. Len(Content) = Len(written) - taken  BY ContentIsUnread, <1>3 DEF BufferOK, Counted
<1>6. SubSeq(written \o es, taken + 1, Len(written) + Len(es)) = Content \o es
  <2> DEFINE ws == written \o es
             a == SubSeq(ws, taken + 1, Len(written) + Len(es))
             b == Content \o es
  <2>1. ws \in Seq(Element) /\ Len(ws) = Len(written) + Len(es)  BY <1>3
  <2>2. a \in Seq(Element) /\ Len(a) = Len(written) + Len(es) - taken
    <3> HIDE DEF ws
    <3>1. \A i \in taken + 1 .. Len(written) + Len(es) : ws[i] \in Element  BY <1>3, <2>1, ElementOfSeq
    <3>2. QED BY <1>3, <3>1, SubSeqProperties
  <2>3. b \in Seq(Element) /\ Len(b) = Len(written) + Len(es) - taken
    <3>1. Content \in Seq(Element)  BY <1>1
    <3>2. b \in Seq(Element) /\ Len(b) = Len(Content) + Len(es)  BY <3>1, ConcatProperties
    <3>3. QED BY <1>3, <1>5, <3>2
  <2>4. ASSUME NEW i \in 1 .. Len(a) PROVE a[i] = b[i]
    <3>1. a[i] = ws[taken + i] /\ i \in Nat \ {0} /\ i <= Len(written) + Len(es) - taken  BY <1>3, <2>1, <2>2
    <3>2. CASE i <= Len(written) - taken
      <4>1. ws[taken + i] = written[taken + i]  BY <1>3, <3>1, <3>2
      <4>2. b[i] = Content[i]  BY <1>1, <1>5, <3>1, <3>2
      <4>3. Content[i] = written[taken + i]  BY <1>1, <1>3, <3>1, <3>2
      <4>4. QED BY <3>1, <4>1, <4>2, <4>3
    <3>3. CASE ~ (i <= Len(written) - taken)
      <4>1. ws[taken + i] = es[taken + i - Len(written)]  BY <1>3, <3>1, <3>3
      <4>2. b[i] = es[i - (Len(written) - taken)]  BY <1>1, <1>3, <1>5, <3>1, <3>3
      <4>3. QED BY <1>3, <3>1, <4>1, <4>2
    <3>4. QED BY <3>2, <3>3
  <2> HIDE DEF a, b
  <2>5. a = b  BY <2>2, <2>3, <2>4, SeqEqual
  <2>6. QED BY <2>5 DEF a, b
<1>7. QED BY <1>2, <1>4, <1>6

\* ... and a read pass takes its elements from the front.
LEMMA ContentAfterRead ==
  ASSUME BufferOK, BufferOK', NEW k \in 0 .. FreeReadSpace, written' = written, taken' = taken + k
  PROVE  Content' = SubSeq(Content, k + 1, Len(Content))
<1>1. Content = SubSeq(written, taken + 1, Len(written)) /\ Content \in Seq(Element)  BY ContentIsUnread DEF FifoOrder
<1>2. Content' = SubSeq(written, taken + k + 1, Len(written))
  <2>1. FifoOrder'  BY BufferGivesFifoOrderNext
  <2>2. QED BY <2>1 DEF FifoOrder
<1>3. written \in Seq(Element) /\ Len(written) \in Nat /\ taken \in 0 .. Len(written) /\ k \in Nat
  BY LenProperties, CapacityAssumption DEF BufferOK, FreeReadSpace, CapacityAssumption
<1>4. Len(Content) = Len(written) - taken /\ k <= Len(written) - taken  BY ContentIsUnread, <1>3 DEF BufferOK, Counted
<1>5. SubSeq(Content, k + 1, Len(written) - taken) = SubSeq(written, taken + k + 1, Len(written))  BY <1>1, <1>3, <1>4
<1>6. QED BY <1>2, <1>4, <1>5

LEMMA ReadPassRefines ==
  ASSUME IInv, IInv', NEW t \in Callers, NEW n \in Nat, NEW keep \in BOOLEAN, ReadPass(t, n, keep)
  PROVE  Fifo!FifoNext
<1> DEFINE k == Minimum(n, FreeReadSpace)
<1>1. k \in 0 .. FreeReadSpace /\ k \in 0 .. Capacity
  BY CapacityAssumption DEF CapacityAssumption, IInv, BufferOK, Minimum, FreeReadSpace
<1>2. k <= Len(Content)  BY <1>1, ContentIsUnread DEF IInv
<1>3. /\ taken' = taken + k /\ written' = written
      /\ got' = [got EXCEPT ![t] = IF keep THEN @ \o SubSeq(Content, 1, k) ELSE @]
      /\ UNCHANGED <<ended, rest>>  BY DEF ReadPass, ImmediateRead
<1> HIDE DEF k
<1>4. Content' = SubSeq(Content, k + 1, Len(Content))  BY <1>1, <1>3, ContentAfterRead DEF IInv
<1>5. CASE keep
  <2>1. got' = [got EXCEPT ![t] = @ \o SubSeq(Content, 1, k)]  BY <1>3, <1>5
  <2>2. Fifo!Take(t, k)  BY <1>2, <1>3, <1>4, <2>1 DEF Fifo!Take, Fifo!Back, Fifo!Front
  <2>3. QED BY <1>1, <2>2 DEF Fifo!FifoNext
<1>6. CASE ~ keep
  <2>1. got' = got  BY <1>3, <1>6 DEF IInv, ThreadsOK
  <2>2. Fifo!Drop(k)  BY <1>2, <1>3, <1>4, <2>1 DEF Fifo!Drop, Fifo!Back
  <2>3. QED BY <1>1, <2>2 DEF Fifo!FifoNext
<1>7. QED BY <1>5, <1>6

LEMMA EmptyPassRefines ==
  ASSUME NEW t \in Callers, EmptyPass(t)
  PROVE  UNCHANGED Fifo!fifoVars  BY DEF EmptyPass, laneVars, Fifo!fifoVars, Content, FreeReadSpace, ReadPosition

\* The facts about a write pass that the abstract queue sees.
LEMMA WritePassEffect ==
  ASSUME IInv, IInv', NEW t \in Callers, NEW es \in Seq(Element), WritePass(t, es)
  PROVE  \E k \in 0 .. Len(es) :
           /\ k <= Capacity
           /\ Content' = Content \o SubSeq(es, 1, k)
           /\ rest' = [rest EXCEPT ![t] = SubSeq(es, k + 1, Len(es))]
           /\ Len(Content) + k <= Capacity
           /\ Len(Content') = Len(Content) + k
           /\ rest'[t] /= <<>> => Len(Content') = Capacity
           /\ UNCHANGED <<ended, got>>
<1> DEFINE k == Minimum(Len(es), freeWriteSpace)
<1>1. /\ k \in 0 .. Len(es) /\ k <= freeWriteSpace
      /\ freeWriteSpace \in 0 .. Capacity
      /\ k < Len(es) => k = freeWriteSpace  BY CapacityAssumption DEF CapacityAssumption, IInv, BufferOK, Minimum
<1>2. /\ written' = written \o SubSeq(es, 1, k) /\ taken' = taken
      /\ rest' = [rest EXCEPT ![t] = SubSeq(es, k + 1, Len(es))]
      /\ UNCHANGED <<ended, got>>  BY DEF WritePass, ImmediateWrite, Remainder
<1> HIDE DEF k
<1>3. SubSeq(es, 1, k) \in Seq(Element) /\ Len(SubSeq(es, 1, k)) = k  BY <1>1, SubSeqProperties
<1>4. Content' = Content \o SubSeq(es, 1, k)  BY <1>2, <1>3, ContentAfterWrite DEF IInv
<1>5. Content \in Seq(Element) /\ Len(Content) = Capacity - freeWriteSpace  BY ContentIsUnread DEF IInv, FreeReadSpace
<1>6. Len(Content') = Len(Content) + k  BY <1>3, <1>4, <1>5, ConcatProperties
<1>7. Len(Content) + k <= Capacity /\ k <= Capacity  BY <1>1, <1>5, CapacityAssumption DEF CapacityAssumption
<1>8. rest'[t] /= <<>> => Len(Content') = Capacity
  <2>1. rest'[t] = SubSeq(es, k + 1, Len(es))  BY <1>2 DEF IInv, ThreadsOK
  <2>2. CASE k < Len(es)  BY <1>1, <1>5, <1>6, <2>2, CapacityAssumption DEF CapacityAssumption
  <2>3. CASE ~ (k < Len(es))  BY <1>1, <2>1, <2>3, SubSeqEmpty
  <2>4. QED BY <2>2, <2>3
<1>9. QED BY <1>1, <1>2, <1>4, <1>6, <1>7, <1>8

LEMMA StepRefines == IInv /\ IInv' /\ RestOK /\ [Next]_vars => [Fifo!FifoNext]_(Fifo!fifoVars)
<1> SUFFICES ASSUME IInv, IInv', RestOK, [Next]_vars PROVE Fifo!FifoNext \/ UNCHANGED Fifo!fifoVars  OBVIOUS
<1> USE DEF laneVars, waitVars, callVars
<1>1. ASSUME NEW w \in Writers, NEW n \in 1 .. MaxChunk, Write(w, n) PROVE Fifo!FifoNext
  <2> DEFINE es == [i \in 1 .. n |-> <<w, sent[w] + i>>]
  <2>1. w \in Callers /\ n \in Nat  BY BoundsAssumption DEF Callers, BoundsAssumption
  <2>2. sent[w] \in Nat  BY <2>1 DEF IInv, ThreadsOK
  <2>3. es \in [1 .. n -> Element]  BY <2>1, <2>2 DEF Element
  <2>4. es \in Seq(Element)  BY <2>1, <2>3
  <2>5. WritePass(w, es) /\ ~ ended /\ rest[w] = <<>>  BY <1>1, <2>1 DEF Write, Accepts, RestOK
  <2> HIDE DEF es
  <2>6. PICK k \in 0 .. Len(es) :
           /\ k <= Capacity
           /\ Content' = Content \o SubSeq(es, 1, k)
           /\ rest' = [rest EXCEPT ![w] = SubSeq(es, k + 1, Len(es))]
           /\ Len(Content) + k <= Capacity
           /\ Len(Content') = Len(Content) + k
           /\ rest'[w] /= <<>> => Len(Content') = Capacity
           /\ UNCHANGED <<ended, got>>  BY <2>1, <2>4, <2>5, WritePassEffect
  <2>7. Content \in Seq(Element) /\ Len(Content) \in Nat  BY ContentIsUnread, LenProperties DEF IInv
  <2>8. SubSeq(es, 1, k) \in Seq(Element)  BY <2>4, <2>6, SubSeqProperties
  <2>9. SubSeq(Content', 1, Len(Content)) = Content  BY <2>6, <2>7, <2>8, ConcatProperties, SubSeqFull
  <2>10. Fifo!Extended
    <3>1. Content' \in Seq(Element)  BY <2>6, <2>7, <2>8, ConcatProperties
    <3>2. Len(Content) <= Len(Content') /\ Len(Content') <= Capacity  BY <2>6, <2>7
    <3>3. QED BY <2>9, <3>1, <3>2 DEF Fifo!Extended, Fifo!Front
  <2>11. rest' \in [Callers -> Seq(Element)]  BY DEF IInv, ThreadsOK
  <2>12. \A d \in Callers \ {w} : rest'[d] = rest[d]  BY <2>6 DEF IInv, ThreadsOK
  <2>13. Fifo!Offer(w)  BY <2>5, <2>6, <2>10, <2>11, <2>12 DEF Fifo!Offer
  <2>14. QED BY <2>1, <2>13 DEF Fifo!FifoNext
<1>2. ASSUME NEW t \in Callers, ResumeWrite(t) PROVE Fifo!FifoNext
  <2>1. rest[t] \in Seq(Element)  BY DEF IInv, ThreadsOK
  <2>2. PICK k \in 0 .. Len(rest[t]) :
           /\ k <= Capacity
           /\ Content' = Content \o SubSeq(rest[t], 1, k)
           /\ rest' = [rest EXCEPT ![t] = SubSeq(rest[t], k + 1, Len(rest[t]))]
           /\ Len(Content) + k <= Capacity
           /\ Len(Content') = Len(Content) + k
           /\ rest'[t] /= <<>> => Len(Content') = Capacity
           /\ UNCHANGED <<ended, got>>  BY <1>2, <2>1, WritePassEffect DEF ResumeWrite
  <2>3. Fifo!Enter(t, k)  BY <2>2 DEF Fifo!Enter, Fifo!Front, Fifo!Back
  <2>4. k \in 0 .. Capacity  BY <2>2, CapacityAssumption DEF CapacityAssumption
  <2>5. QED BY <2>3, <2>4 DEF Fifo!FifoNext
<1>3. ASSUME NEW r \in Readers, NEW n \in 1 .. MaxChunk, Read(r, n) \/ Discard(r, n) PROVE Fifo!FifoNext
  <2>1. r \in Callers /\ n \in Nat  BY BoundsAssumption DEF Callers, BoundsAssumption
  <2>2. PICK keep \in BOOLEAN : ReadPass(r, n, keep)  BY <1>3 DEF Read, Discard
  <2>3. QED BY <2>1, <2>2, ReadPassRefines
<1>4. ASSUME NEW t \in Callers, ResumeRead(t) \/ ResumeDiscard(t) PROVE Fifo!FifoNext
  <2>1. need[t] \in Nat  BY DEF IInv, ThreadsOK
  <2>2. PICK keep \in BOOLEAN : ReadPass(t, need[t], keep)  BY <1>4 DEF ResumeRead, ResumeDiscard
  <2>3. QED BY <2>1, <2>2, ReadPassRefines
<1>5. ASSUME NEW w \in Writers, WriteEnd(w) PROVE Fifo!FifoNext
  <2>1. Content' = Content /\ ended' = TRUE /\ UNCHANGED <<rest, got>>
    BY <1>5 DEF WriteEnd, Content, FreeReadSpace, ReadPosition
  <2>2. QED BY <2>1 DEF Fifo!FifoNext, Fifo!Close
<1>6. ASSUME NEW t \in Callers, WaitForEmpty(t) \/ ResumeWaitForEmpty(t) PROVE UNCHANGED Fifo!fifoVars
  BY <1>6, EmptyPassRefines DEF WaitForEmpty, ResumeWaitForEmpty
<1>7. ASSUME NEW w \in Writers, NEW n \in 1 .. MaxChunk, WriteIgnored(w, n) PROVE UNCHANGED Fifo!fifoVars
  BY <1>7 DEF WriteIgnored, Fifo!fifoVars, Content, FreeReadSpace, ReadPosition
<1>8. ASSUME NEW t \in Callers, WaitReturnsEarly(t) PROVE UNCHANGED Fifo!fifoVars
  BY <1>8 DEF WaitReturnsEarly, Fifo!fifoVars, Content, FreeReadSpace, ReadPosition
<1>9. CASE Clear
  <2>1. freeWriteSpace' = Capacity /\ UNCHANGED rest  BY <1>9 DEF Clear
  <2>2. FreeReadSpace' = 0  BY <2>1, CapacityAssumption DEF CapacityAssumption, FreeReadSpace
  <2>3. Content' = <<>>  BY <2>2 DEF Content
  <2>4. \A t \in Callers : rest[t] = <<>>  BY <1>9 DEF Clear, RestOK
  <2>5. Fifo!Reset  BY <1>9, <2>1, <2>3, <2>4 DEF Clear, Fifo!Reset
  <2>6. QED BY <2>5 DEF Fifo!FifoNext
<1>10. CASE UNCHANGED vars  BY <1>10 DEF vars, Fifo!fifoVars, Content, FreeReadSpace, ReadPosition
<1>11. QED BY <1>1, <1>2, <1>3, <1>4, <1>5, <1>6, <1>7, <1>8, <1>9, <1>10 DEF Next, Resume, Callers

\* The cyclic buffer with its positions and condition variables behaves as a
\* bounded queue: order, bound, waiting only when full, nothing new accepted
\* after the end.
THEOREM LaneImplementsFifo == Spec => FifoRefinement
<1>1. Init => Fifo!FifoInit
  <2> SUFFICES ASSUME Init PROVE Fifo!FifoInit  OBVIOUS
  <2>1. FreeReadSpace = 0  BY CapacityAssumption DEF CapacityAssumption, Init, FreeReadSpace
  <2>2. Content = <<>>  BY <2>1 DEF Content
  <2>3. QED BY <2>2 DEF Init, Fifo!FifoInit
<1>2. Init => RestOK  BY DEF Init, RestOK
<1>3. Spec => []RestOK  BY <1>2, IInvHolds, NextRestOK, PTL DEF Spec
<1>4. QED BY <1>1, <1>3, IInvHolds, StepRefines, PTL DEF Spec, FifoRefinement, Fifo!FifoSpec

----
\* Order of the elements of one writer.  The elements a thread still has
\* to store are its own and younger than all of its stored ones; none has
\* a number the thread did not reach.  A split write therefore continues
\* behind what the others stored meanwhile without overtaking itself.

\* What is stored is in order and was offered ...
StoredInOrder ==
  /\ InWriterOrder(written)
  /\ \A i \in DOMAIN written : written[i][2] <= sent[written[i][1]]

\* ... and es, the elements thread t offered up to number n, follow it.
Follows(es, t, n) ==
  /\ InWriterOrder(es)
  /\ \A j \in DOMAIN es : es[j][1] = t /\ es[j][2] <= n
  /\ \A i \in DOMAIN written, j \in DOMAIN es : written[i][1] = t => written[i][2] < es[j][2]

RestFollows == \A t \in Callers : Follows(rest[t], t, sent[t])

OrderInv == StoredInOrder /\ RestFollows

\* The elements of a concatenation.
LEMMA PartsOfConcat ==
  ASSUME NEW a \in Seq(Element), NEW b \in Seq(Element)
  PROVE  /\ DOMAIN (a \o b) = 1 .. Len(a) + Len(b)
         /\ \A i \in 1 .. Len(a) : (a \o b)[i] = a[i]
         /\ \A i \in 1 .. Len(b) : (a \o b)[Len(a) + i] = b[i]
<1>1. Len(a) \in Nat /\ Len(b) \in Nat /\ DOMAIN a = 1 .. Len(a) /\ DOMAIN b = 1 .. Len(b)  BY LenProperties
<1>2. QED BY <1>1, ConcatProperties, LenProperties

\* The order of a concatenation, from the order of its parts.
LEMMA OrderOfConcat ==
  ASSUME NEW a \in Seq(Element), NEW b \in Seq(Element), NEW t,
         InWriterOrder(a), InWriterOrder(b),
         \A j \in DOMAIN b : b[j][1] = t,
         \A i \in DOMAIN a, j \in DOMAIN b : a[i][1] = t => a[i][2] < b[j][2]
  PROVE  InWriterOrder(a \o b)
<1>1. Len(a) \in Nat /\ Len(b) \in Nat /\ DOMAIN a = 1 .. Len(a) /\ DOMAIN b = 1 .. Len(b)  BY LenProperties
<1>2. /\ DOMAIN (a \o b) = 1 .. Len(a) + Len(b)
      /\ \A i \in 1 .. Len(a) : (a \o b)[i] = a[i]
      /\ \A i \in 1 .. Len(b) : (a \o b)[Len(a) + i] = b[i]  BY PartsOfConcat
<1>3. SUFFICES ASSUME NEW i \in DOMAIN (a \o b), NEW j \in DOMAIN (a \o b), i < j,
                      (a \o b)[i][1] = (a \o b)[j][1]
               PROVE  (a \o b)[i][2] < (a \o b)[j][2]  BY Zenon DEF InWriterOrder
<1> DEFINE c == a \o b
<1>4. i \in 1 .. Len(a) + Len(b) /\ j \in 1 .. Len(a) + Len(b)  BY <1>2
<1> HIDE DEF c
<1>5. CASE j <= Len(a)
  <2>1. i \in DOMAIN a /\ j \in DOMAIN a /\ (a \o b)[i] = a[i] /\ (a \o b)[j] = a[j]  BY <1>1, <1>2, <1>3, <1>4, <1>5
  <2>2. QED BY <1>3, <2>1 DEF InWriterOrder
<1>6. CASE i > Len(a)
  <2>1. i - Len(a) \in DOMAIN b /\ j - Len(a) \in DOMAIN b /\ i - Len(a) < j - Len(a)  BY <1>1, <1>3, <1>4, <1>6
  <2>2. (a \o b)[i] = b[i - Len(a)] /\ (a \o b)[j] = b[j - Len(a)]
    <3>1. i = Len(a) + (i - Len(a)) /\ j = Len(a) + (j - Len(a))  BY <1>1, <1>4
    <3>2. QED BY <1>1, <1>2, <2>1, <3>1
  <2>3. QED BY <1>3, <2>1, <2>2 DEF InWriterOrder
<1>7. CASE i <= Len(a) /\ j > Len(a)
  <2>1. i \in DOMAIN a /\ j - Len(a) \in DOMAIN b  BY <1>1, <1>4, <1>7
  <2>2. (a \o b)[i] = a[i] /\ (a \o b)[j] = b[j - Len(a)]
    <3>1. j = Len(a) + (j - Len(a))  BY <1>1, <1>4
    <3>2. QED BY <1>1, <1>2, <2>1, <3>1
  <2>3. QED BY <1>3, <2>1, <2>2
<1>8. QED BY <1>1, <1>4, <1>5, <1>6, <1>7

\* A part of an ordered sequence is ordered.
LEMMA OrderOfPart ==
  ASSUME NEW s \in Seq(Element), NEW m \in Nat, NEW n \in Nat, n <= Len(s),
         NEW p \in Seq(Element), DOMAIN p = 1 .. n - m,
         \A i \in DOMAIN p : p[i] = s[m + i], InWriterOrder(s)
  PROVE  InWriterOrder(p)
<1>1. SUFFICES ASSUME NEW i \in DOMAIN p, NEW j \in DOMAIN p, i < j, p[i][1] = p[j][1] PROVE p[i][2] < p[j][2]
  BY DEF InWriterOrder
<1>2. Len(s) \in Nat /\ DOMAIN s = 1 .. Len(s)  BY LenProperties
<1>3. m + i \in DOMAIN s /\ m + j \in DOMAIN s /\ m + i < m + j  BY <1>1, <1>2
<1>4. QED BY <1>1, <1>3 DEF InWriterOrder

\* A write pass that offers elements following the stored ones.
LEMMA WritePassOrder ==
  ASSUME IInv, OrderInv, NEW t \in Callers, NEW es \in Seq(Element), WritePass(t, es),
         sent' \in [Callers -> Nat],
         \A u \in Callers : sent[u] <= sent'[u],
         Follows(es, t, sent'[t])
  PROVE  OrderInv'
<1> DEFINE k == Minimum(Len(es), freeWriteSpace)
           stored == SubSeq(es, 1, k)
           left == SubSeq(es, k + 1, Len(es))
<1>1. k \in 0 .. Len(es) /\ Len(es) \in Nat /\ DOMAIN es = 1 .. Len(es)  BY LenProperties DEF IInv, BufferOK, Minimum
<1>2. /\ written' = written \o stored
      /\ rest' = [rest EXCEPT ![t] = left]  BY DEF WritePass, ImmediateWrite, Remainder
<1> HIDE DEF k
<1>3. /\ stored \in Seq(Element) /\ DOMAIN stored = 1 .. k
      /\ \A i \in DOMAIN stored : stored[i] = es[i]  BY <1>1, SubSeqProperties, LenProperties
<1>4. /\ left \in Seq(Element) /\ DOMAIN left = 1 .. Len(es) - k
      /\ \A i \in DOMAIN left : left[i] = es[k + i]  BY <1>1, SubSeqProperties, LenProperties
<1> HIDE DEF stored, left
<1>5. /\ written \in Seq(Element) /\ rest \in [Callers -> Seq(Element)]
      /\ sent \in [Callers -> Nat]  BY DEF IInv, BufferOK, ThreadsOK
<1>6. /\ InWriterOrder(es)
      /\ \A j \in DOMAIN es : es[j][1] = t /\ es[j][2] <= sent'[t]
      /\ \A i \in DOMAIN written, j \in DOMAIN es : written[i][1] = t => written[i][2] < es[j][2]  BY DEF Follows
<1>7. /\ \A j \in DOMAIN stored : j \in DOMAIN es
      /\ \A j \in DOMAIN left : k + j \in DOMAIN es  BY <1>1, <1>3, <1>4
<1>8. InWriterOrder(stored)
  <2>1. \A i \in DOMAIN stored : stored[i] = es[0 + i]  BY <1>3
  <2>2. DOMAIN stored = 1 .. k - 0 /\ k \in Nat /\ k <= Len(es)  BY <1>1, <1>3
  <2>3. QED BY <1>1, <1>3, <1>6, <2>1, <2>2, OrderOfPart
<1>9. InWriterOrder(left)
  <2>1. k \in Nat /\ Len(es) <= Len(es)  BY <1>1
  <2>2. QED BY <1>1, <1>4, <1>6, <2>1, OrderOfPart
<1>10. \A j \in DOMAIN stored : stored[j][1] = t /\ stored[j][2] <= sent'[t]  BY <1>3, <1>6, <1>7
<1>11. \A i \in DOMAIN written, j \in DOMAIN stored : written[i][1] = t => written[i][2] < stored[j][2]
  BY <1>3, <1>6, <1>7
<1>12. InWriterOrder(written')
  <2>1. InWriterOrder(written)  BY DEF OrderInv, StoredInOrder
  <2>2. InWriterOrder(written \o stored)  BY <1>3, <1>5, <1>8, <1>10, <1>11, <2>1, OrderOfConcat
  <2>3. QED BY <1>2, <2>2
\* Every element stored after the pass was stored before it or belongs to t.
<1>13. ASSUME NEW i \in DOMAIN written'
       PROVE  \/ i \in DOMAIN written /\ written'[i] = written[i]
              \/ \E j \in DOMAIN stored : written'[i] = stored[j]
  <2>1. Len(written) \in Nat /\ DOMAIN written = 1 .. Len(written) /\ Len(stored) = k
    BY <1>1, <1>3, <1>5, LenProperties
  <2>2. /\ DOMAIN (written \o stored) = 1 .. Len(written) + k
        /\ \A x \in 1 .. Len(written) : (written \o stored)[x] = written[x]
        /\ \A x \in 1 .. k : (written \o stored)[Len(written) + x] = stored[x]  BY <1>3, <1>5, <2>1, PartsOfConcat
  <2>3. i \in 1 .. Len(written) + k  BY <1>2, <1>13, <2>2
  <2>4. CASE i <= Len(written)  BY <1>2, <2>1, <2>2, <2>3, <2>4
  <2>5. CASE i > Len(written)
    <3>1. i - Len(written) \in 1 .. k /\ i = Len(written) + (i - Len(written))  BY <1>1, <2>1, <2>3, <2>5
    <3>2. written'[i] = stored[i - Len(written)]  BY <1>2, <2>2, <3>1
    <3>3. QED BY <1>3, <3>1, <3>2
  <2>6. QED BY <2>1, <2>3, <2>4, <2>5
<1>14. \A i \in DOMAIN written' : written'[i][2] <= sent'[written'[i][1]]
  <2> TAKE i \in DOMAIN written'
  <2>1. CASE i \in DOMAIN written /\ written'[i] = written[i]
    <3>1. written[i] \in Element  BY <1>5, <2>1, ElementOfSeq, LenProperties
    <3>2. PICK u \in Callers, n \in Nat \ {0} : written[i] = <<u, n>>  BY <3>1 DEF Element
    <3>3. n <= sent[u]  BY <2>1, <3>2 DEF OrderInv, StoredInOrder
    <3>4. sent[u] \in Nat /\ sent'[u] \in Nat /\ sent[u] <= sent'[u]  BY <1>5
    <3>5. n <= sent'[u]  BY <3>3, <3>4
    <3>6. QED BY <2>1, <3>2, <3>5
  <2>2. CASE \E j \in DOMAIN stored : written'[i] = stored[j]  BY <1>10, <2>2
  <2>3. QED BY <1>13, <2>1, <2>2
<1>15. ASSUME NEW u \in Callers PROVE Follows(rest[u], u, sent[u])'
  <2>1. CASE u = t
    <3>1. rest'[u] = left  BY <1>2, <1>5, <2>1
    <3>2. \A j \in DOMAIN left : left[j][1] = t /\ left[j][2] <= sent'[t]  BY <1>4, <1>6, <1>7
    <3>3. ASSUME NEW i \in DOMAIN written', NEW j \in DOMAIN left, written'[i][1] = t
          PROVE  written'[i][2] < left[j][2]
      <4>1. CASE i \in DOMAIN written /\ written'[i] = written[i]  BY <1>4, <1>6, <1>7, <3>3, <4>1
      <4>2. ASSUME NEW x \in DOMAIN stored, written'[i] = stored[x] PROVE written'[i][2] < left[j][2]
        <5>1. x \in DOMAIN es /\ k + j \in DOMAIN es /\ x < k + j  BY <1>1, <1>3, <1>4, <1>7
        <5>2. es[x][1] = es[k + j][1]  BY <1>6, <5>1
        <5>3. es[x][2] < es[k + j][2]  BY <1>6, <5>1, <5>2 DEF InWriterOrder
        <5>4. QED BY <1>3, <1>4, <4>2, <5>3
      <4>3. QED BY <1>13, <4>1, <4>2
    <3>4. QED BY <1>9, <2>1, <3>1, <3>2, <3>3 DEF Follows
  <2>2. CASE u /= t
    <3>1. rest'[u] = rest[u] /\ rest[u] \in Seq(Element)  BY <1>2, <1>5, <2>2
    <3>2. /\ InWriterOrder(rest[u])
          /\ \A j \in DOMAIN rest[u] : rest[u][j][1] = u /\ rest[u][j][2] <= sent[u]
          /\ \A i \in DOMAIN written, j \in DOMAIN rest[u] :
               written[i][1] = u => written[i][2] < rest[u][j][2]  BY DEF OrderInv, RestFollows, Follows
    <3>3. ASSUME NEW j \in DOMAIN rest[u] PROVE rest[u][j][2] <= sent'[u]
      <4>1. rest[u][j] \in Element  BY <3>1, ElementOfSeq, LenProperties
      <4>2. rest[u][j][2] \in Nat /\ rest[u][j][2] <= sent[u]  BY <3>2, <4>1 DEF Element
      <4>3. sent[u] \in Nat /\ sent'[u] \in Nat /\ sent[u] <= sent'[u]  BY <1>5
      <4>4. QED BY <4>2, <4>3
    <3>4. ASSUME NEW i \in DOMAIN written', NEW j \in DOMAIN rest[u], written'[i][1] = u
          PROVE  written'[i][2] < rest[u][j][2]
      <4>1. i \in DOMAIN written /\ written'[i] = written[i]  BY <1>10, <1>13, <2>2, <3>4
      <4>2. QED BY <3>2, <3>4, <4>1
    <3>5. QED BY <3>1, <3>2, <3>3, <3>4 DEF Follows
  <2>3. QED BY <2>1, <2>2
<1>16. QED BY <1>12, <1>14, <1>15 DEF OrderInv, StoredInOrder, RestFollows

\* Steps that store and offer nothing.
LEMMA OrderUnchanged ==
  ASSUME IInv, OrderInv, sent' \in [Callers -> Nat], UNCHANGED <<written, rest>>,
         \A u \in Callers : sent[u] <= sent'[u]
  PROVE  OrderInv'
<1>1. /\ written \in Seq(Element) /\ rest \in [Callers -> Seq(Element)]
      /\ sent \in [Callers -> Nat] /\ written' = written /\ rest' = rest  BY DEF IInv, BufferOK, ThreadsOK
<1>2. ASSUME NEW e \in Element, e[2] <= sent[e[1]] PROVE e[2] <= sent'[e[1]]
  <2>1. e[1] \in Callers /\ e[2] \in Nat  BY DEF Element
  <2>2. sent[e[1]] \in Nat /\ sent'[e[1]] \in Nat /\ sent[e[1]] <= sent'[e[1]]  BY <1>1, <2>1
  <2>3. QED BY <1>2, <2>1, <2>2
<1>3. StoredInOrder'
  <2>1. \A i \in DOMAIN written : written[i] \in Element /\ written[i][2] <= sent[written[i][1]]
    BY <1>1, ElementOfSeq, LenProperties DEF OrderInv, StoredInOrder
  <2>2. QED BY <1>1, <1>2, <2>1 DEF OrderInv, StoredInOrder
<1>4. ASSUME NEW t \in Callers PROVE Follows(rest[t], t, sent[t])'
  <2>1. /\ Follows(rest[t], t, sent[t])
        /\ \A j \in DOMAIN rest[t] : rest[t][j] \in Element
    BY <1>1, ElementOfSeq, LenProperties DEF OrderInv, RestFollows
  <2>2. ASSUME NEW j \in DOMAIN rest[t] PROVE rest[t][j][2] <= sent'[t]
    <3>1. rest[t][j] \in Element /\ rest[t][j][1] = t /\ rest[t][j][2] <= sent[t]  BY <2>1 DEF Follows
    <3>2. QED BY <1>2, <3>1
  <2>3. QED BY <1>1, <2>1, <2>2 DEF Follows
<1>5. QED BY <1>3, <1>4 DEF OrderInv, RestFollows

LEMMA NextOrderInv == IInv /\ IInv' /\ RestOK /\ OrderInv /\ [Next]_vars => OrderInv'
<1> SUFFICES ASSUME IInv, IInv', RestOK, OrderInv, [Next]_vars PROVE OrderInv'  OBVIOUS
<1> USE DEF laneVars, waitVars, callVars
<1>0. /\ written \in Seq(Element) /\ rest \in [Callers -> Seq(Element)]
      /\ sent \in [Callers -> Nat] /\ sent' \in [Callers -> Nat]  BY DEF IInv, BufferOK, ThreadsOK
<1>1. ASSUME NEW w \in Writers, NEW n \in 1 .. MaxChunk, Write(w, n) PROVE OrderInv'
  <2> DEFINE es == [i \in 1 .. n |-> <<w, sent[w] + i>>]
  <2>1. w \in Callers /\ n \in Nat  BY BoundsAssumption DEF Callers, BoundsAssumption
  <2>2. sent[w] \in Nat /\ DOMAIN es = 1 .. n  BY <1>0, <2>1
  <2>3. es \in [1 .. n -> Element]  BY <2>1, <2>2 DEF Element
  <2>4. es \in Seq(Element)  BY <2>1, <2>3
  <2>5. WritePass(w, es) /\ sent' = [sent EXCEPT ![w] = sent[w] + n]  BY <1>1 DEF Write
  <2>6. \A u \in Callers : sent[u] <= sent'[u]  BY <1>0, <2>1, <2>5
  <2>7. sent'[w] = sent[w] + n  BY <1>0, <2>1, <2>5
  <2>8. InWriterOrder(es)  BY <2>1, <2>2 DEF InWriterOrder
  <2>9. \A j \in DOMAIN es : es[j][1] = w /\ es[j][2] <= sent'[w]  BY <2>1, <2>2, <2>7
  <2>10. ASSUME NEW i \in DOMAIN written, NEW j \in DOMAIN es, written[i][1] = w PROVE written[i][2] < es[j][2]
    <3>1. written[i] \in Element  BY <1>0, ElementOfSeq, LenProperties
    <3>2. written[i][2] \in Nat /\ written[i][2] <= sent[w]  BY <2>10, <3>1 DEF Element, OrderInv, StoredInOrder
    <3>3. QED BY <2>1, <2>2, <3>2
  <2>11. Follows(es, w, sent'[w])  BY <2>8, <2>9, <2>10 DEF Follows
  <2> HIDE DEF es
  <2>12. QED BY <1>0, <2>1, <2>4, <2>5, <2>6, <2>11, WritePassOrder
<1>2. ASSUME NEW t \in Callers, ResumeWrite(t) PROVE OrderInv'
  <2>1. rest[t] \in Seq(Element) /\ WritePass(t, rest[t]) /\ sent' = sent  BY <1>0, <1>2 DEF ResumeWrite
  <2>2. Follows(rest[t], t, sent'[t])  BY <2>1 DEF OrderInv, RestFollows
  <2>3. \A u \in Callers : sent[u] <= sent'[u]  BY <1>0, <2>1
  <2>4. QED BY <1>0, <2>1, <2>2, <2>3, WritePassOrder
<1>3. ASSUME NEW w \in Writers, NEW n \in 1 .. MaxChunk, WriteIgnored(w, n) PROVE OrderInv'
  <2>1. n \in Nat /\ w \in Callers  BY BoundsAssumption DEF BoundsAssumption, Callers
  <2>2. sent' = [sent EXCEPT ![w] = sent[w] + n] /\ UNCHANGED <<written, rest>>  BY <1>3 DEF WriteIgnored
  <2>3. \A u \in Callers : sent[u] <= sent'[u]  BY <1>0, <2>1, <2>2
  <2>4. QED BY <1>0, <2>2, <2>3, OrderUnchanged
<1>4. CASE Clear
  <2>1. /\ written' = <<>> /\ rest' = rest
        /\ \A t \in Callers : rest[t] = <<>>  BY <1>4 DEF Clear, RestOK
  <2>2. DOMAIN <<>> = {}  OBVIOUS
  <2>3. \A t \in Callers : DOMAIN rest'[t] = {}  BY <2>1, <2>2, Zenon
  <2>4. DOMAIN written' = {}  BY <2>1, <2>2, Zenon
  <2>5. StoredInOrder'  BY <2>4 DEF StoredInOrder, InWriterOrder
  <2>6. RestFollows'  BY <2>3 DEF RestFollows, Follows, InWriterOrder
  <2>7. QED BY <2>5, <2>6 DEF OrderInv
<1>5. ASSUME UNCHANGED <<written, rest, sent>> PROVE OrderInv'  BY <1>0, <1>5, OrderUnchanged
<1>6. ASSUME NEW r, NEW n, NEW keep, ReadPass(r, n, keep) PROVE UNCHANGED <<written, rest>>  BY <1>6 DEF ReadPass
<1>7. ASSUME NEW r \in Readers, NEW n \in 1 .. MaxChunk, Read(r, n) \/ Discard(r, n)
      PROVE  UNCHANGED <<written, rest, sent>>  BY <1>7 DEF Read, Discard, ReadPass
<1>8. ASSUME NEW t \in Callers, ResumeRead(t) \/ ResumeDiscard(t) PROVE UNCHANGED <<written, rest, sent>>
  BY <1>8 DEF ResumeRead, ResumeDiscard, ReadPass
<1>9. ASSUME NEW t \in Callers, WaitForEmpty(t) \/ ResumeWaitForEmpty(t) PROVE UNCHANGED <<written, rest, sent>>
  BY <1>9 DEF WaitForEmpty, ResumeWaitForEmpty, EmptyPass
<1>10. ASSUME NEW t \in Callers, WriteEnd(t) \/ WaitReturnsEarly(t) PROVE UNCHANGED <<written, rest, sent>>
  BY <1>10 DEF WriteEnd, WaitReturnsEarly
<1>11. CASE UNCHANGED vars  BY <1>5, <1>11 DEF vars
<1>12. Writers \subseteq Callers  BY DEF Callers
<1>13. QED BY <1>1, <1>2, <1>3, <1>4, <1>5, <1>7, <1>8, <1>9, <1>10, <1>11, <1>12 DEF Next, Resume

\* The elements of one thread are stored in the order in which it wrote
\* them, however its multi-element writes are split by a full lane and
\* interleave with the writes of others.
THEOREM LaneWriterOrder == Spec => []WriterOrder
<1>1. Init => RestOK /\ OrderInv
  <2> SUFFICES ASSUME Init PROVE RestOK /\ OrderInv  OBVIOUS
  <2>1. written = <<>> /\ \A t \in Callers : rest[t] = <<>>  BY DEF Init
  <2>2. DOMAIN <<>> = {}  OBVIOUS
  <2>3. DOMAIN written = {} /\ \A t \in Callers : DOMAIN rest[t] = {}  BY <2>1, <2>2, Zenon
  <2>4. StoredInOrder  BY <2>3 DEF StoredInOrder, InWriterOrder
  <2>5. RestFollows  BY <2>3 DEF RestFollows, Follows, InWriterOrder
  <2>6. QED BY <2>1, <2>4, <2>5 DEF OrderInv, RestOK
<1>2. IInv /\ OrderInv => WriterOrder
  <2> SUFFICES ASSUME IInv, OrderInv, NEW t \in Callers PROVE InWriterOrder(written \o rest[t])  BY DEF WriterOrder
  <2>1. written \in Seq(Element) /\ rest[t] \in Seq(Element)  BY DEF IInv, BufferOK, ThreadsOK
  <2>2. InWriterOrder(written) /\ Follows(rest[t], t, sent[t])  BY DEF OrderInv, StoredInOrder, RestFollows
  <2>3. QED BY <2>1, <2>2, OrderOfConcat DEF Follows
<1>3. QED BY <1>1, <1>2, InitIInv, NextIInv, NextRestOK, NextOrderInv, PTL DEF Spec

----
\* The buffered lane.  What readers got are the elements that left the
\* lane, each of them once and in the order in which they were stored; and
\* an item is in a write buffer, in the rest of a write, in the lane, or
\* with a reader.  The stream is ended when no item is left in the first
\* two, and a reader stops when the lane is empty after that.

Has(s, e) == \E i \in DOMAIN s : s[i] = e

\* The buffers are flushed when they are full, and hold what was not yet written or handed out.
StreamTypes ==
  /\ pushed \in [Writers -> Nat] /\ popped \in [Readers -> Nat] /\ stopped \in [Readers -> BOOLEAN]
  /\ \A w \in Writers : sent[w] <= pushed[w] /\ pushed[w] <= Items /\ pushed[w] - sent[w] < WriteBufferSize
  /\ \A r \in Readers : popped[r] <= Len(got[r])

\* A reader has only what left the lane, ...
GotIsTaken == \A t \in Callers : \A i \in DOMAIN got[t] : \E x \in 1 .. taken : got[t][i] = written[x]

\* ... everything that left it went to a reader, ...
TakenIsGot == \A x \in 1 .. taken : \E r \in Readers : Has(got[r], written[x])

\* ... and what was sent is in the lane or still to be stored.
SentIsKept == \A w \in Writers : \A i \in 1 .. sent[w] : Has(written, <<w, i>>) \/ Has(rest[w], <<w, i>>)

StreamEnds ==
  /\ \A t \in Callers : call[t] = "read" => need[t] # 0
  /\ ended => \A w \in Writers : sent[w] = Items /\ rest[w] = <<>>
  /\ \A r \in Readers :
       stopped[r] => ended /\ FreeReadSpace = 0 /\ popped[r] = Len(got[r]) /\ call[r] # "read"

StreamInv == StreamTypes /\ DeliveredOnceInOrder /\ GotIsTaken /\ TakenIsGot /\ SentIsKept /\ StreamEnds

LaneInv == IInv /\ RestOK /\ OrderInv

LEMMA CallersAreThreads == Writers \subseteq Callers /\ Readers \subseteq Callers  BY DEF Callers

\* Sizes of the buffers.
LEMMA BufferSizes ==
  /\ WriteBufferSize \in Nat \ {0} /\ WriteBufferSize \in 1 .. MaxChunk
  /\ ReadBufferSize \in Nat \ {0} /\ ReadBufferSize \in 1 .. MaxChunk
  /\ Items \in Nat /\ MaxChunk \in Nat  BY BufferAssumption, BoundsAssumption DEF BufferAssumption, BoundsAssumption

\* What a pass of a write does to the elements.
LEMMA WriteEffect ==
  ASSUME IInv, NEW t \in Callers, NEW es \in Seq(Element), WritePass(t, es)
  PROVE  /\ UNCHANGED <<ended, need, taken, got, short>>
         /\ \A u \in Callers \ {t} : rest'[u] = rest[u] /\ call'[u] = call[u]
         /\ call'[t] \in {"none", "write"}
         /\ \A x \in DOMAIN written : x \in DOMAIN written' /\ written'[x] = written[x]
         /\ \A e : Has(es, e) => Has(written', e) \/ Has(rest'[t], e)
         /\ es = <<>> => rest'[t] = <<>> /\ FreeReadSpace' = FreeReadSpace
<1> DEFINE k == Minimum(Len(es), freeWriteSpace)
           stored == SubSeq(es, 1, k)
           left == SubSeq(es, k + 1, Len(es))
<1>1. k \in 0 .. Len(es) /\ Len(es) \in Nat /\ DOMAIN es = 1 .. Len(es)  BY LenProperties DEF IInv, BufferOK, Minimum
<1>2. /\ written' = written \o stored
      /\ rest' = [rest EXCEPT ![t] = left]
      /\ call' = [call EXCEPT ![t] = IF left = <<>> THEN "none" ELSE "write"]
      /\ freeWriteSpace' = freeWriteSpace - Len(stored)
      /\ UNCHANGED <<ended, need, taken, got, short>>  BY DEF WritePass, ImmediateWrite, Remainder
<1> HIDE DEF k
<1>3. /\ stored \in Seq(Element) /\ DOMAIN stored = 1 .. k /\ Len(stored) = k
      /\ \A i \in DOMAIN stored : stored[i] = es[i]  BY <1>1, SubSeqProperties, LenProperties
<1>4. /\ left \in Seq(Element) /\ DOMAIN left = 1 .. Len(es) - k
      /\ \A i \in DOMAIN left : left[i] = es[k + i]  BY <1>1, SubSeqProperties, LenProperties
<1>5. es = <<>> => left = <<>> /\ Len(stored) = 0
  <2> SUFFICES ASSUME es = <<>> PROVE left = <<>> /\ Len(stored) = 0  OBVIOUS
  <2>1. Len(es) = 0  BY EmptySeq
  <2>2. k = 0 /\ DOMAIN left = {}  BY <1>1, <1>4, <2>1
  <2>3. Len(left) = 0  BY <1>1, <1>4, <2>1, <2>2, LenProperties
  <2>4. QED BY <1>3, <1>4, <2>2, <2>3, EmptySeq
<1> HIDE DEF stored, left
<1>6. written \in Seq(Element) /\ Len(written) \in Nat /\ DOMAIN written = 1 .. Len(written)
  BY LenProperties DEF IInv, BufferOK
<1>7. /\ DOMAIN written' = 1 .. Len(written) + k
      /\ \A x \in 1 .. Len(written) : written'[x] = written[x]
      /\ \A x \in 1 .. k : written'[Len(written) + x] = stored[x]
  <2>1. /\ DOMAIN (written \o stored) = 1 .. Len(written) + Len(stored)
        /\ \A x \in 1 .. Len(written) : (written \o stored)[x] = written[x]
        /\ \A x \in 1 .. Len(stored) : (written \o stored)[Len(written) + x] = stored[x]  BY <1>3, <1>6, PartsOfConcat
  <2>2. QED BY <1>2, <1>3, <2>1
<1>8. /\ rest \in [Callers -> Seq(Element)]
      /\ call \in [Callers -> {"none", "write", "read", "discard", "waitForEmpty"}]  BY DEF IInv, ThreadsOK
<1>9. /\ \A u \in Callers \ {t} : rest'[u] = rest[u] /\ call'[u] = call[u]
      /\ call'[t] \in {"none", "write"} /\ rest'[t] = left  BY <1>2, <1>8
<1>10. \A x \in DOMAIN written : x \in DOMAIN written' /\ written'[x] = written[x]  BY <1>1, <1>6, <1>7
<1>11. ASSUME NEW e, Has(es, e) PROVE Has(written', e) \/ Has(rest'[t], e)
  <2>1. PICK i \in DOMAIN es : es[i] = e  BY <1>11 DEF Has
  <2>2. CASE i <= k
    <3>1. i \in 1 .. k /\ Len(written) + i \in DOMAIN written'  BY <1>1, <1>6, <1>7, <2>1, <2>2
    <3>2. written'[Len(written) + i] = e  BY <1>3, <1>7, <2>1, <3>1
    <3>3. QED BY <3>1, <3>2 DEF Has
  <2>3. CASE ~ (i <= k)
    <3>1. i - k \in DOMAIN left /\ k + (i - k) = i  BY <1>1, <1>4, <2>1, <2>3
    <3>2. left[i - k] = e  BY <1>4, <2>1, <3>1
    <3>3. QED BY <1>9, <3>1, <3>2 DEF Has
  <2>4. QED BY <2>2, <2>3
<1>12. es = <<>> => FreeReadSpace' = FreeReadSpace
  <2>1. freeWriteSpace \in Nat  BY CapacityAssumption DEF CapacityAssumption, IInv, BufferOK
  <2>2. es = <<>> => freeWriteSpace' = freeWriteSpace  BY <1>2, <1>5, <2>1
  <2>3. QED BY <2>2 DEF FreeReadSpace
<1>13. QED BY <1>2, <1>5, <1>9, <1>10, <1>11, <1>12

\* What a pass of a read does: the reader gets the next elements of the lane.
LEMMA ReadEffect ==
  ASSUME IInv, NEW t \in Callers, NEW n \in Nat, ReadPass(t, n, TRUE)
  PROVE  \E k \in Nat, new \in Seq(Element) :
           /\ k <= n /\ taken + k <= Len(written) /\ Len(new) = k /\ taken' = taken + k
           /\ got' = [got EXCEPT ![t] = @ \o new]
           /\ \A i \in 1 .. k : new[i] = written[taken + i]
           /\ call'[t] \in {"none", "read"}
           /\ call'[t] = "none" => k = n \/ (ended /\ k = FreeReadSpace)
           /\ call'[t] = "read" => need'[t] # 0
           /\ FreeReadSpace' = FreeReadSpace - k
           /\ \A u \in Callers \ {t} : call'[u] = call[u] /\ need'[u] = need[u]
           /\ UNCHANGED <<written, rest, ended>>
<1> DEFINE k == Minimum(n, FreeReadSpace)
           new == SubSeq(Content, 1, k)
<1>1. /\ FreeReadSpace \in Nat /\ FreeReadSpace = Len(written) - taken
      /\ Len(written) \in Nat /\ taken \in 0 .. Len(written) /\ freeWriteSpace \in Nat /\ Capacity \in Nat
  BY CapacityAssumption, LenProperties DEF CapacityAssumption, IInv, BufferOK, Counted, FreeReadSpace
<1>2. k \in Nat /\ k <= n /\ k <= FreeReadSpace /\ (k < n => k = FreeReadSpace) /\ (k = n \/ k < n)
  BY <1>1 DEF Minimum
<1>3. /\ freeWriteSpace' = freeWriteSpace + k /\ taken' = taken + k
      /\ got' = [got EXCEPT ![t] = @ \o new]
      /\ need' = [need EXCEPT ![t] = IF MustWait(k, n) THEN n - k ELSE 0]
      /\ call' = [call EXCEPT ![t] = IF ~ MustWait(k, n) THEN "none" ELSE "read"]
      /\ UNCHANGED <<written, rest, ended>>  BY DEF ReadPass, ImmediateRead
<1> HIDE DEF k
<1>4. /\ Content \in Seq(Element) /\ Content = SubSeq(written, taken + 1, Len(written)) /\ written \in Seq(Element)
  BY ContentIsUnread DEF IInv, FifoOrder, BufferOK
<1>5. /\ Len(Content) = FreeReadSpace
      /\ \A i \in 1 .. FreeReadSpace : Content[i] = written[taken + i]
  <2>1. taken + 1 \in 1 .. Len(written) + 1  BY <1>1
  <2>2. Len(written) - (taken + 1) + 1 = FreeReadSpace  BY <1>1
  <2>3. \A i \in 1 .. FreeReadSpace : (taken + 1) + i - 1 = taken + i  BY <1>1
  <2>4. QED BY <1>1, <1>4, <2>1, <2>2, <2>3, SubSeqProperties
<1>6. /\ new \in Seq(Element) /\ Len(new) = k
      /\ \A i \in 1 .. k : new[i] = Content[i]
  <2>1. 1 \in 1 .. Len(Content) + 1 /\ k \in 1 - 1 .. Len(Content) /\ k - 1 + 1 = k  BY <1>1, <1>2, <1>5
  <2>2. \A i \in 1 .. k : 1 + i - 1 = i  BY <1>2
  <2>3. QED BY <1>4, <2>1, <2>2, SubSeqProperties
<1> HIDE DEF new
<1>7. \A i \in 1 .. k : new[i] = written[taken + i]  BY <1>1, <1>2, <1>5, <1>6
<1>8. /\ call \in [Callers -> {"none", "write", "read", "discard", "waitForEmpty"}]
      /\ need \in [Callers -> Nat]  BY DEF IInv, ThreadsOK
<1>9. \A u \in Callers \ {t} : call'[u] = call[u] /\ need'[u] = need[u]  BY <1>3, <1>8
<1>10. /\ MustWait(k, n) => call'[t] = "read" /\ need'[t] = n - k
       /\ ~ MustWait(k, n) => call'[t] = "none"  BY <1>3, <1>8
<1>11. /\ call'[t] \in {"none", "read"}
       /\ call'[t] = "none" => k = n \/ (ended /\ k = FreeReadSpace)
       /\ call'[t] = "read" => need'[t] # 0
  <2>1. CASE MustWait(k, n)
    <3>1. k < n  BY <2>1 DEF MustWait
    <3>2. n - k # 0  BY <1>2, <3>1
    <3>3. QED BY <1>10, <2>1, <3>2
  <2>2. CASE ~ MustWait(k, n)
    <3>1. call'[t] = "none" /\ (k < n => ended)  BY <1>10, <2>2 DEF MustWait
    <3>2. k = n \/ (ended /\ k = FreeReadSpace)
      <4>1. CASE k < n  BY <1>2, <3>1, <4>1
      <4>2. CASE k = n  BY <4>2
      <4>3. QED BY <1>2, <4>1, <4>2
    <3>3. QED BY <3>1, <3>2
  <2>3. QED BY <2>1, <2>2
<1>12. FreeReadSpace' = FreeReadSpace - k /\ taken + k <= Len(written)  BY <1>1, <1>2, <1>3 DEF FreeReadSpace
<1>13. QED BY <1>2, <1>3, <1>6, <1>7, <1>9, <1>11, <1>12

\* A pass of a write keeps what was delivered, and every item that was sent.
LEMMA WriteKeepsStream ==
  ASSUME LaneInv, StreamInv, NEW t \in Callers, NEW es \in Seq(Element), WritePass(t, es),
         \A w \in Writers : \A i \in 1 .. sent'[w] :
            Has(written, <<w, i>>) \/ (IF w = t THEN Has(es, <<w, i>>) ELSE Has(rest[w], <<w, i>>)),
         ended => es = <<>> /\ sent' = sent,
         UNCHANGED <<popped, stopped>>
  PROVE  /\ UNCHANGED got
         /\ DeliveredOnceInOrder' /\ GotIsTaken' /\ TakenIsGot' /\ SentIsKept' /\ StreamEnds'
<1>0. /\ UNCHANGED <<ended, need, taken, got>>
      /\ \A u \in Callers \ {t} : rest'[u] = rest[u] /\ call'[u] = call[u]
      /\ call'[t] \in {"none", "write"}
      /\ \A x \in DOMAIN written : x \in DOMAIN written' /\ written'[x] = written[x]
      /\ \A e : Has(es, e) => Has(written', e) \/ Has(rest'[t], e)
      /\ es = <<>> => rest'[t] = <<>> /\ FreeReadSpace' = FreeReadSpace  BY WriteEffect DEF LaneInv
<1>a. 1 .. taken \subseteq DOMAIN written
  <2>1. Len(written) \in Nat /\ taken \in 0 .. Len(written) /\ DOMAIN written = 1 .. Len(written)
    BY LenProperties DEF LaneInv, IInv, BufferOK
  <2>2. QED BY <2>1
<1>1. DeliveredOnceInOrder'  BY <1>0 DEF StreamInv, DeliveredOnceInOrder, InWriterOrder
<1>2. GotIsTaken'  BY <1>0, <1>a DEF StreamInv, GotIsTaken
<1>3. TakenIsGot'  BY <1>0, <1>a DEF StreamInv, TakenIsGot
<1>4. SentIsKept'
  <2> SUFFICES ASSUME NEW w \in Writers, NEW i \in 1 .. sent'[w]
               PROVE  Has(written', <<w, i>>) \/ Has(rest'[w], <<w, i>>)  BY DEF SentIsKept
  <2>1. CASE Has(written, <<w, i>>)  BY <1>0, <2>1 DEF Has
  <2>2. CASE w = t /\ Has(es, <<w, i>>)  BY <1>0, <2>2
  <2>3. CASE w # t /\ Has(rest[w], <<w, i>>)  BY <1>0, <2>3, CallersAreThreads
  <2>4. QED BY <2>1, <2>2, <2>3
<1>5. StreamEnds'
  <2>1. ASSUME NEW u \in Callers, call'[u] = "read" PROVE need'[u] # 0  BY <1>0, <2>1 DEF StreamInv, StreamEnds
  <2>2. ASSUME ended', NEW w \in Writers PROVE sent'[w] = Items /\ rest'[w] = <<>>
    <3>1. ended /\ es = <<>> /\ sent' = sent  BY <1>0, <2>2
    <3>2. QED BY <1>0, <3>1, CallersAreThreads DEF StreamInv, StreamEnds
  <2>3. ASSUME NEW r \in Readers, stopped'[r]
        PROVE  ended' /\ FreeReadSpace' = 0 /\ popped'[r] = Len(got'[r]) /\ call'[r] # "read"
    <3>1. ended /\ FreeReadSpace = 0 /\ popped[r] = Len(got[r]) /\ call[r] # "read"  BY <2>3 DEF StreamInv, StreamEnds
    <3>2. QED BY <1>0, <3>1, CallersAreThreads
  <2>4. QED BY <2>1, <2>2, <2>3 DEF StreamEnds
<1>6. QED BY <1>0, <1>1, <1>2, <1>3, <1>4, <1>5

\* A pass of a read gives a reader the next elements, which nobody had before.
LEMMA ReadKeepsStream ==
  ASSUME LaneInv, StreamInv, NEW r \in Readers, NEW n \in Nat \ {0}, ReadPass(r, n, TRUE),
         ~ stopped[r], StopIfEmpty(r), UNCHANGED <<sent, pushed, popped>>
  PROVE  StreamInv'
<1>r. r \in Callers /\ n \in Nat  BY CallersAreThreads
<1>0. PICK k \in Nat, new \in Seq(Element) :
           /\ k <= n /\ taken + k <= Len(written) /\ Len(new) = k /\ taken' = taken + k
           /\ got' = [got EXCEPT ![r] = @ \o new]
           /\ \A i \in 1 .. k : new[i] = written[taken + i]
           /\ call'[r] \in {"none", "read"}
           /\ call'[r] = "none" => k = n \/ (ended /\ k = FreeReadSpace)
           /\ call'[r] = "read" => need'[r] # 0
           /\ FreeReadSpace' = FreeReadSpace - k
           /\ \A u \in Callers \ {r} : call'[u] = call[u] /\ need'[u] = need[u]
           /\ UNCHANGED <<written, rest, ended>>  BY <1>r, ReadEffect DEF LaneInv
<1>a. /\ written \in Seq(Element) /\ Len(written) \in Nat /\ DOMAIN written = 1 .. Len(written)
      /\ taken \in Nat /\ taken <= Len(written) /\ got \in [Callers -> Seq(Element)]
      /\ FreeReadSpace = Len(written) - taken
      /\ InWriterOrder(written)
  BY LenProperties DEF LaneInv, IInv, BufferOK, Counted, ThreadsOK, OrderInv, StoredInOrder
<1>h. k \in Nat /\ taken' = taken + k /\ taken + k <= Len(written) /\ taken \in Nat /\ Len(written) \in Nat
      /\ DOMAIN written = 1 .. Len(written)  BY <1>0, <1>a
\* Elements the reader gets lie behind those that had left the lane.
<1>i. ASSUME NEW a \in 1 .. k PROVE taken + a \in DOMAIN written /\ taken + a \in 1 .. taken' /\ taken + a > taken
  BY <1>h
<1> DEFINE old == got[r]
           now == got[r] \o new
<1>b. /\ old \in Seq(Element) /\ Len(old) \in Nat /\ DOMAIN old = 1 .. Len(old)
      /\ DOMAIN now = 1 .. Len(old) + k
      /\ \A i \in 1 .. Len(old) : now[i] = old[i]
      /\ \A i \in 1 .. k : now[Len(old) + i] = new[i]
      /\ now \in Seq(Element) /\ Len(now) = Len(old) + k
  <2>1. old \in Seq(Element) /\ new \in Seq(Element) /\ Len(new) = k  BY <1>0, <1>a, <1>r
  <2>2. Len(old) \in Nat /\ DOMAIN old = 1 .. Len(old)  BY <2>1, LenProperties
  <2>3. now \in Seq(Element) /\ Len(now) = Len(old) + k  BY <2>1, ConcatProperties DEF now, old
  <2>4. /\ DOMAIN now = 1 .. Len(old) + k
        /\ \A i \in 1 .. Len(old) : now[i] = old[i]
        /\ \A i \in 1 .. k : now[Len(old) + i] = new[i]  BY <2>1, PartsOfConcat
  <2>5. QED BY <2>1, <2>2, <2>3, <2>4
<1>c. /\ got'[r] = now
      /\ \A u \in Callers \ {r} : got'[u] = got[u]  BY <1>0, <1>a, <1>r
<1> HIDE DEF now
<1>d. \A i \in DOMAIN old : i \in DOMAIN now /\ now[i] = old[i]  BY <1>b
<1> HIDE DEF old
\* Whatever a reader had before is behind what the lane gives now.
<1>e. \A i \in DOMAIN now : \/ i \in DOMAIN old /\ now[i] = old[i]
                            \/ /\ i - Len(old) \in 1 .. k /\ i > Len(old)
                               /\ now[i] = written[taken + (i - Len(old))]
  <2> TAKE i \in DOMAIN now
  <2>1. i \in 1 .. Len(old) + k  BY <1>b
  <2>2. CASE i <= Len(old)  BY <1>b, <2>1, <2>2
  <2>3. CASE i > Len(old)
    <3>1. i - Len(old) \in 1 .. k /\ Len(old) + (i - Len(old)) = i  BY <1>b, <2>1, <2>3
    <3>2. QED BY <1>0, <1>b, <2>3, <3>1
  <2>4. QED BY <1>b, <2>1, <2>2, <2>3
<1>f. ASSUME NEW x \in 1 .. taken, NEW j \in 1 .. k
      PROVE  /\ written[x][1] = written[taken + j][1] => written[x][2] < written[taken + j][2]
             /\ written[x] # written[taken + j]
  <2>1. x \in DOMAIN written /\ taken + j \in DOMAIN written /\ x < taken + j  BY <1>0, <1>a
  <2>2. written[x][1] = written[taken + j][1] => written[x][2] < written[taken + j][2]
    BY <1>a, <2>1 DEF InWriterOrder
  <2>3. written[x] \in Element  BY <1>a, <2>1, ElementOfSeq
  <2>4. written[x][2] \in Nat  BY <2>3 DEF Element
  <2>5. ~ (written[x][2] < written[x][2])  BY <2>4
  <2>6. QED BY <2>2, <2>5
<1>g. \A t \in Callers : \A i \in DOMAIN got[t] : \E x \in 1 .. taken : got[t][i] = written[x]
  BY DEF StreamInv, GotIsTaken
<1>1. InWriterOrder(now)
  <2> SUFFICES ASSUME NEW i \in DOMAIN now, NEW j \in DOMAIN now, i < j, now[i][1] = now[j][1]
               PROVE  now[i][2] < now[j][2]  BY DEF InWriterOrder
  <2>0. i \in Nat /\ j \in Nat  BY <1>b
  <2>1. CASE j \in DOMAIN old /\ now[j] = old[j]
    <3>1. i \in DOMAIN old /\ now[i] = old[i]  BY <1>b, <2>0, <2>1
    <3>2. InWriterOrder(old)  BY <1>r DEF StreamInv, DeliveredOnceInOrder, old
    <3>3. QED BY <2>1, <3>1, <3>2 DEF InWriterOrder
  <2>2. CASE j - Len(old) \in 1 .. k /\ now[j] = written[taken + (j - Len(old))]
    <3>1. CASE i \in DOMAIN old /\ now[i] = old[i]
      <4>1. PICK x \in 1 .. taken : old[i] = written[x]  BY <1>g, <1>r, <3>1 DEF old
      <4>2. QED BY <1>f, <2>2, <3>1, <4>1
    <3>2. CASE i - Len(old) \in 1 .. k /\ now[i] = written[taken + (i - Len(old))]
      <4>1. /\ taken + (i - Len(old)) \in DOMAIN written /\ taken + (j - Len(old)) \in DOMAIN written
            /\ taken + (i - Len(old)) < taken + (j - Len(old))
        <5>1. i - Len(old) \in 1 .. k /\ j - Len(old) \in 1 .. k  BY <2>2, <3>2
        <5>2. Len(old) \in Nat /\ taken \in Nat  BY <1>b, <1>h
        <5>3. i - Len(old) < j - Len(old)  BY <2>0, <5>2
        <5>4. taken + (i - Len(old)) < taken + (j - Len(old))  BY <2>0, <5>2, <5>3
        <5>5. QED BY <1>i, <5>1, <5>4
      <4>2. QED BY <1>a, <2>2, <3>2, <4>1 DEF InWriterOrder
    <3>3. QED BY <1>e, <3>1, <3>2
  <2>3. QED BY <1>e, <2>1, <2>2
<1>2. ASSUME NEW u \in Callers \ {r}, NEW i \in DOMAIN now, NEW j \in DOMAIN got[u] PROVE now[i] # got[u][j]
  <2>1. CASE i \in DOMAIN old /\ now[i] = old[i]
    <3>1. old[i] # got[u][j]  BY <1>r, <2>1 DEF StreamInv, DeliveredOnceInOrder, old
    <3>2. QED BY <2>1, <3>1
  <2>2. CASE i - Len(old) \in 1 .. k /\ now[i] = written[taken + (i - Len(old))]
    <3>1. PICK x \in 1 .. taken : got[u][j] = written[x]  BY <1>g
    <3>2. QED BY <1>f, <2>2, <3>1
  <2>3. QED BY <1>e, <2>1, <2>2
<1>3. DeliveredOnceInOrder'
  <2>1. ASSUME NEW t \in Callers PROVE InWriterOrder(got'[t])
    <3>1. CASE t = r  BY <1>1, <1>c, <3>1
    <3>2. CASE t # r  BY <1>c, <3>2 DEF StreamInv, DeliveredOnceInOrder
    <3>3. QED BY <3>1, <3>2
  <2>2. ASSUME NEW t \in Callers, NEW u \in Callers, t # u,
               NEW i \in DOMAIN got'[t], NEW j \in DOMAIN got'[u]
        PROVE  got'[t][i] # got'[u][j]
    <3>1. CASE t = r  BY <1>2, <1>c, <2>2, <3>1
    <3>2. CASE u = r  BY <1>2, <1>c, <2>2, <3>2
    <3>3. CASE t # r /\ u # r  BY <1>c, <2>2, <3>3 DEF StreamInv, DeliveredOnceInOrder
    <3>4. QED BY <3>1, <3>2, <3>3
  <2>3. QED BY <2>1, <2>2 DEF DeliveredOnceInOrder, InWriterOrder
<1>4. GotIsTaken'
  <2> SUFFICES ASSUME NEW t \in Callers, NEW i \in DOMAIN got'[t]
               PROVE  \E x \in 1 .. taken' : got'[t][i] = written'[x]  BY DEF GotIsTaken
  <2>1. 1 .. taken \subseteq 1 .. taken' /\ written' = written  BY <1>0, <1>a
  <2>2. CASE t # r  BY <1>c, <1>g, <2>1, <2>2
  <2>3. CASE t = r
    <3>1. i \in DOMAIN now /\ got'[t] = now  BY <1>c, <2>3
    <3>2. CASE i \in DOMAIN old /\ now[i] = old[i]
      <4>1. PICK x \in 1 .. taken : old[i] = written[x]  BY <1>g, <1>r, <3>2 DEF old
      <4>2. QED BY <2>1, <3>1, <3>2, <4>1
    <3>3. CASE i - Len(old) \in 1 .. k /\ now[i] = written[taken + (i - Len(old))]
      <4>1. taken + (i - Len(old)) \in 1 .. taken'  BY <1>i, <3>3
      <4>2. QED BY <2>1, <3>1, <3>3, <4>1
    <3>4. QED BY <1>e, <3>1, <3>2, <3>3
  <2>4. QED BY <2>2, <2>3
<1>5. TakenIsGot'
  <2> SUFFICES ASSUME NEW x \in 1 .. taken' PROVE \E u \in Readers : Has(got'[u], written[x])  BY <1>0 DEF TakenIsGot
  <2>1. CASE x <= taken
    <3>1. x \in 1 .. taken  BY <1>a, <2>1
    <3>2. PICK u \in Readers : Has(got[u], written[x])  BY <3>1 DEF StreamInv, TakenIsGot
    <3>3. CASE u = r  BY <1>c, <1>d, <3>2, <3>3 DEF Has, old
    <3>4. CASE u # r  BY <1>c, <3>2, <3>4, CallersAreThreads
    <3>5. QED BY <3>3, <3>4
  <2>2. CASE ~ (x <= taken)
    <3>1. x - taken \in 1 .. k /\ taken + (x - taken) = x  BY <1>0, <1>a, <2>2
    <3>2. Len(old) + (x - taken) \in DOMAIN now /\ now[Len(old) + (x - taken)] = written[x]  BY <1>0, <1>b, <3>1
    <3>3. QED BY <1>c, <3>2 DEF Has
  <2>3. QED BY <2>1, <2>2
<1>6. SentIsKept'  BY <1>0 DEF StreamInv, SentIsKept
<1>7. StreamTypes'
  <2>1. popped[r] <= Len(got[r]) /\ popped[r] \in Nat  BY DEF StreamInv, StreamTypes
  <2>2. popped[r] <= Len(now)  BY <1>b, <2>1 DEF old
  <2>3. \A u \in Readers : popped'[u] <= Len(got'[u])
    <3> TAKE u \in Readers
    <3>1. CASE u = r  BY <1>c, <2>2, <3>1
    <3>2. CASE u # r  BY <1>c, <3>2, CallersAreThreads DEF StreamInv, StreamTypes
    <3>3. QED BY <3>1, <3>2
  <2>4. stopped' \in [Readers -> BOOLEAN]  BY DEF StopIfEmpty, StreamInv, StreamTypes
  <2>5. QED BY <2>3, <2>4 DEF StreamInv, StreamTypes
<1>8. StreamEnds'
  <2>1. ASSUME NEW u \in Callers, call'[u] = "read" PROVE need'[u] # 0  BY <1>0, <2>1 DEF StreamInv, StreamEnds
  <2>2. ended' => \A w \in Writers : sent'[w] = Items /\ rest'[w] = <<>>  BY <1>0 DEF StreamInv, StreamEnds
  <2>3. ASSUME NEW u \in Readers, stopped'[u]
        PROVE  ended' /\ FreeReadSpace' = 0 /\ popped'[u] = Len(got'[u]) /\ call'[u] # "read"
    <3>0. stopped \in [Readers -> BOOLEAN]  BY DEF StreamInv, StreamTypes
    <3>1. CASE u = r
      <4>1. call'[r] = "none" /\ Len(got'[r]) = popped[r]  BY <2>3, <3>0, <3>1 DEF StopIfEmpty
      <4>2. k = 0
        <5>1. Len(old) + k = popped[r] /\ popped[r] <= Len(old) /\ popped[r] \in Nat
          BY <1>b, <1>c, <4>1 DEF old, StreamInv, StreamTypes
        <5>2. QED BY <1>b, <5>1
      <4>3. ended /\ k = FreeReadSpace  BY <1>0, <4>1, <4>2
      <4>4. FreeReadSpace' = 0  BY <1>0, <4>2, <4>3
      <4>5. QED BY <1>0, <3>1, <4>1, <4>3, <4>4
    <3>2. CASE u # r
      <4>1. stopped[u]  BY <2>3, <3>0, <3>2 DEF StopIfEmpty
      <4>2. ended /\ FreeReadSpace = 0 /\ popped[u] = Len(got[u]) /\ call[u] # "read"
        BY <4>1 DEF StreamInv, StreamEnds
      <4>3. k = 0
        <5>1. Len(written) - taken = 0  BY <1>a, <4>2
        <5>2. QED BY <1>h, <5>1
      <4>4. FreeReadSpace' = 0  BY <1>0, <4>2, <4>3
      <4>5. QED BY <1>0, <1>c, <3>2, <4>2, <4>4, CallersAreThreads
    <3>3. QED BY <3>1, <3>2
  <2>4. QED BY <2>1, <2>2, <2>3 DEF StreamEnds
<1>9. QED BY <1>3, <1>4, <1>5, <1>6, <1>7, <1>8 DEF StreamInv

LEMMA NothingInEmpty == \A e : ~ Has(<<>>, e)
<1>1. DOMAIN <<>> = {}  OBVIOUS
<1>2. QED BY <1>1, Zenon DEF Has

\* A producer hands over the next n of its items.
LEMMA WriteGivesItems ==
  ASSUME LaneInv, StreamInv, NEW w \in Writers, NEW n \in Nat, Write(w, n), UNCHANGED <<popped, stopped>>
  PROVE  /\ sent' = [sent EXCEPT ![w] = sent[w] + n]
         /\ UNCHANGED got
         /\ DeliveredOnceInOrder' /\ GotIsTaken' /\ TakenIsGot' /\ SentIsKept' /\ StreamEnds'
<1> DEFINE es == [i \in 1 .. n |-> <<w, sent[w] + i>>]
<1>1. w \in Callers /\ sent \in [Callers -> Nat] /\ sent[w] \in Nat /\ DOMAIN es = 1 .. n
  BY CallersAreThreads DEF LaneInv, IInv, ThreadsOK
<1>2. es \in [1 .. n -> Element]  BY <1>1 DEF Element
<1>3. es \in Seq(Element)  BY <1>1, <1>2
<1>4. WritePass(w, es) /\ sent' = [sent EXCEPT ![w] = sent[w] + n] /\ ~ ended /\ call[w] = "none"
  BY DEF Write, Accepts
<1>5. rest[w] = <<>>  BY <1>1, <1>4 DEF LaneInv, RestOK
<1>6. ASSUME NEW u \in Writers, NEW i \in 1 .. sent'[u]
      PROVE  Has(written, <<u, i>>) \/ (IF u = w THEN Has(es, <<u, i>>) ELSE Has(rest[u], <<u, i>>))
  <2>1. CASE u # w
    <3>1. sent'[u] = sent[u]  BY <1>1, <1>4, <2>1, CallersAreThreads
    <3>2. QED BY <2>1, <3>1 DEF StreamInv, SentIsKept
  <2>2. CASE u = w /\ i <= sent[w]
    <3>1. i \in 1 .. sent[w]  BY <1>1, <1>4, <2>2
    <3>2. Has(written, <<u, i>>)  BY <1>5, <2>2, <3>1, NothingInEmpty DEF StreamInv, SentIsKept
    <3>3. QED BY <3>2
  <2>3. CASE u = w /\ ~ (i <= sent[w])
    <3>1. sent'[w] = sent[w] + n /\ i \in Nat  BY <1>1, <1>4, <2>3
    <3>2. i - sent[w] \in 1 .. n /\ sent[w] + (i - sent[w]) = i  BY <1>1, <2>3, <3>1
    <3>3. es[i - sent[w]] = <<u, i>>  BY <2>3, <3>2
    <3>4. Has(es, <<u, i>>)  BY <1>1, <3>2, <3>3 DEF Has
    <3>5. QED BY <2>3, <3>4
  <2>4. QED BY <2>1, <2>2, <2>3
<1> HIDE DEF es
<1>7. QED BY <1>1, <1>3, <1>4, <1>6, WriteKeepsStream

\* A step that touches neither the elements nor the calls keeps the stream.
LEMMA StreamUnchanged ==
  ASSUME StreamInv,
         UNCHANGED <<sent, pushed, popped, stopped, got, written, taken, rest, call, need, ended, freeWriteSpace>>
  PROVE  StreamInv'
<1>1. DeliveredOnceInOrder' /\ GotIsTaken' /\ TakenIsGot' /\ SentIsKept'
  BY DEF StreamInv, DeliveredOnceInOrder, InWriterOrder, GotIsTaken, TakenIsGot, SentIsKept
<1>2. StreamTypes'  BY DEF StreamInv, StreamTypes
<1>3. StreamEnds'  BY DEF StreamInv, StreamEnds, FreeReadSpace
<1>4. QED BY <1>1, <1>2, <1>3 DEF StreamInv

\* The gridders use the lane only through its calls, ...
LEMMA StreamStepIsLaneStep ==
  ASSUME IInv, StreamInv, [BufferNext]_bufferVars
  PROVE  [Next]_vars
<1>0. /\ sent \in [Callers -> Nat]
      /\ \A n \in Nat : n # 0 /\ n <= MaxChunk => n \in 1 .. MaxChunk  BY BufferSizes DEF IInv, ThreadsOK
<1>1. ASSUME NEW w \in Writers, Push(w) PROVE [Next]_vars  BY <1>1, BufferSizes DEF Push, Next
<1>2. ASSUME NEW w \in Writers, FlushRest(w) PROVE [Next]_vars
  <2>1. Write(w, Buffered(w)) /\ pushed[w] = Items /\ sent[w] < Items  BY <1>2 DEF FlushRest
  <2>2. sent[w] \in Nat /\ pushed[w] \in Nat /\ pushed[w] - sent[w] < WriteBufferSize
    BY <1>0, CallersAreThreads DEF StreamInv, StreamTypes
  <2>3. pushed[w] - sent[w] \in 1 .. MaxChunk  BY <2>1, <2>2, BufferSizes
  <2>4. Buffered(w) \in 1 .. MaxChunk  BY <2>3 DEF Buffered
  <2>5. QED BY <2>1, <2>4 DEF Next
<1>3. ASSUME EndStream PROVE [Next]_vars  BY <1>3 DEF EndStream, Next
<1>4. ASSUME NEW w \in Writers, ContinueWrite(w) PROVE [Next]_vars
  BY <1>4, CallersAreThreads DEF ContinueWrite, Next, Resume
<1>5. ASSUME NEW r \in Readers, Fetch(r) PROVE [Next]_vars  BY <1>5, BufferSizes DEF Fetch, Next
<1>6. ASSUME NEW r \in Readers, ContinueFetch(r) PROVE [Next]_vars
  BY <1>6, CallersAreThreads DEF ContinueFetch, Next, Resume
<1>7. ASSUME NEW r \in Readers, Pop(r) PROVE [Next]_vars  BY <1>7 DEF Pop
<1>8. ASSUME NEW t \in Callers, Spurious(t) PROVE [Next]_vars  BY <1>8 DEF Spurious, Next
<1>9. Finished => [Next]_vars  BY DEF Finished, bufferVars
<1>10. UNCHANGED bufferVars => [Next]_vars  BY DEF bufferVars
<1>11. QED BY <1>1, <1>2, <1>3, <1>4, <1>5, <1>6, <1>7, <1>8, <1>9, <1>10 DEF BufferNext, WriterStep, ReaderStep

\* ... so what holds of the lane holds of its use.
LEMMA LaneUnderStream ==
  ASSUME LaneInv, StreamInv, [BufferNext]_bufferVars
  PROVE  LaneInv'
<1>1. [Next]_vars  BY StreamStepIsLaneStep DEF LaneInv
<1>2. IInv'  BY <1>1, NextIInv DEF LaneInv
<1>3. QED BY <1>1, <1>2, NextRestOK, NextOrderInv DEF LaneInv

\* Types and counts of the buffers after a write of n items by w.
LEMMA TypesAfterWrite ==
  ASSUME LaneInv, StreamInv, NEW w \in Writers, NEW n \in Nat, sent[w] + n <= pushed'[w],
         sent' = [sent EXCEPT ![w] = sent[w] + n], pushed' = [pushed EXCEPT ![w] = pushed'[w]],
         pushed'[w] \in Nat, pushed'[w] <= Items, pushed'[w] - (sent[w] + n) < WriteBufferSize,
         UNCHANGED <<popped, stopped, got>>
  PROVE  StreamTypes'
<1>1. sent \in [Callers -> Nat] /\ w \in Callers /\ pushed \in [Writers -> Nat]
  BY CallersAreThreads DEF LaneInv, IInv, ThreadsOK, StreamInv, StreamTypes
<1>2. sent'[w] = sent[w] + n /\ \A u \in Writers \ {w} : sent'[u] = sent[u] /\ pushed'[u] = pushed[u]
  BY <1>1, CallersAreThreads
<1>3. pushed' \in [Writers -> Nat]  BY <1>1
<1>4. ASSUME NEW u \in Writers
      PROVE  sent'[u] <= pushed'[u] /\ pushed'[u] <= Items /\ pushed'[u] - sent'[u] < WriteBufferSize
  <2>1. CASE u = w  BY <1>2, <2>1
  <2>2. CASE u # w  BY <1>2, <2>2 DEF StreamInv, StreamTypes
  <2>3. QED BY <2>1, <2>2
<1>5. QED BY <1>3, <1>4 DEF StreamInv, StreamTypes

\* Every step keeps the stream.
LEMMA StreamStep ==
  ASSUME LaneInv, StreamInv, [BufferNext]_bufferVars
  PROVE  StreamInv'
<1>0. /\ sent \in [Callers -> Nat] /\ need \in [Callers -> Nat] /\ rest \in [Callers -> Seq(Element)]
      /\ pushed \in [Writers -> Nat] /\ popped \in [Readers -> Nat]
  BY DEF LaneInv, IInv, ThreadsOK, StreamInv, StreamTypes
<1>a. \A w \in Writers : sent[w] <= pushed[w] /\ pushed[w] <= Items /\ pushed[w] - sent[w] < WriteBufferSize
  BY DEF StreamInv, StreamTypes
<1>1. ASSUME NEW w \in Writers, Push(w) PROVE StreamInv'
  <2>1. /\ pushed[w] < Items /\ pushed' = [pushed EXCEPT ![w] = pushed[w] + 1]
        /\ UNCHANGED <<popped, stopped>>
        /\ IF pushed'[w] - sent[w] = WriteBufferSize THEN Write(w, WriteBufferSize) ELSE UNCHANGED vars
    BY <1>1 DEF Push
  <2>2. pushed'[w] = pushed[w] + 1 /\ sent[w] \in Nat /\ pushed[w] \in Nat /\ WriteBufferSize \in Nat \ {0} /\ Items \in Nat
    BY <1>0, <2>1, CallersAreThreads, BufferSizes
  <2>3. sent[w] <= pushed[w] /\ pushed[w] - sent[w] < WriteBufferSize  BY <1>a
  <2>4. CASE pushed'[w] - sent[w] = WriteBufferSize
    <3>1. Write(w, WriteBufferSize)  BY <2>1, <2>4
    <3>2. /\ sent' = [sent EXCEPT ![w] = sent[w] + WriteBufferSize] /\ UNCHANGED got
          /\ DeliveredOnceInOrder' /\ GotIsTaken' /\ TakenIsGot' /\ SentIsKept' /\ StreamEnds'
      BY <2>1, <2>2, <3>1, WriteGivesItems
    <3>3. /\ sent[w] + WriteBufferSize <= pushed'[w] /\ pushed'[w] \in Nat /\ pushed'[w] <= Items
          /\ pushed'[w] - (sent[w] + WriteBufferSize) < WriteBufferSize  BY <2>1, <2>2, <2>4
    <3>4. pushed' = [pushed EXCEPT ![w] = pushed'[w]]  BY <2>1, <2>2
    <3>5. StreamTypes'  BY <2>1, <2>2, <3>2, <3>3, <3>4, TypesAfterWrite
    <3>6. QED BY <3>2, <3>5 DEF StreamInv
  <2>5. CASE pushed'[w] - sent[w] # WriteBufferSize
    <3>1. UNCHANGED vars  BY <2>1, <2>5
    <3>2. DeliveredOnceInOrder' /\ GotIsTaken' /\ TakenIsGot' /\ SentIsKept' /\ StreamEnds'
      BY <2>1, <3>1 DEF vars, laneVars, waitVars, callVars, StreamInv, DeliveredOnceInOrder, InWriterOrder,
                        GotIsTaken, TakenIsGot, SentIsKept, StreamEnds, FreeReadSpace
    <3>3. sent' = [sent EXCEPT ![w] = sent[w] + 0] /\ UNCHANGED got  BY <1>0, <2>2, <3>1 DEF vars
    <3>4. /\ sent[w] + 0 <= pushed'[w] /\ pushed'[w] \in Nat /\ pushed'[w] <= Items
          /\ pushed'[w] - (sent[w] + 0) < WriteBufferSize  BY <2>1, <2>2, <2>3, <2>5
    <3>5. pushed' = [pushed EXCEPT ![w] = pushed'[w]] /\ 0 \in Nat  BY <2>1, <2>2
    <3>6. StreamTypes'  BY <2>1, <3>3, <3>4, <3>5, TypesAfterWrite
    <3>7. QED BY <3>2, <3>6 DEF StreamInv
  <2>6. QED BY <2>4, <2>5
<1>2. ASSUME NEW w \in Writers, FlushRest(w) PROVE StreamInv'
  <2>1. Write(w, Buffered(w)) /\ pushed[w] = Items /\ sent[w] < Items /\ UNCHANGED <<pushed, popped, stopped>>
    BY <1>2 DEF FlushRest
  <2>2. sent[w] \in Nat /\ pushed[w] \in Nat /\ WriteBufferSize \in Nat \ {0} /\ Items \in Nat
    BY <1>0, CallersAreThreads, BufferSizes
  <2>3. Buffered(w) \in Nat /\ sent[w] + Buffered(w) = pushed[w]  BY <2>1, <2>2 DEF Buffered
  <2>4. /\ sent' = [sent EXCEPT ![w] = sent[w] + Buffered(w)] /\ UNCHANGED got
        /\ DeliveredOnceInOrder' /\ GotIsTaken' /\ TakenIsGot' /\ SentIsKept' /\ StreamEnds'
    BY <2>1, <2>3, WriteGivesItems
  <2>5. /\ sent[w] + Buffered(w) <= pushed'[w] /\ pushed'[w] \in Nat /\ pushed'[w] <= Items
        /\ pushed'[w] - (sent[w] + Buffered(w)) < WriteBufferSize  BY <2>1, <2>2, <2>3
  <2>6. pushed' = [pushed EXCEPT ![w] = pushed'[w]]  BY <1>0, <2>1
  <2>7. StreamTypes'  BY <2>1, <2>3, <2>4, <2>5, <2>6, TypesAfterWrite
  <2>8. QED BY <2>4, <2>7 DEF StreamInv
<1>3. ASSUME NEW w \in Writers, ContinueWrite(w) PROVE StreamInv'
  <2>1. w \in Callers /\ rest[w] \in Seq(Element) /\ WritePass(w, rest[w]) /\ UNCHANGED <<sent, pushed, popped, stopped>>
    BY <1>0, <1>3, CallersAreThreads DEF ContinueWrite, ResumeWrite
  <2>2. \A u \in Writers : \A i \in 1 .. sent'[u] :
          Has(written, <<u, i>>) \/ (IF u = w THEN Has(rest[w], <<u, i>>) ELSE Has(rest[u], <<u, i>>))
    BY <2>1 DEF StreamInv, SentIsKept
  <2>3. ended => rest[w] = <<>> /\ sent' = sent  BY <2>1 DEF StreamInv, StreamEnds
  <2>4. /\ UNCHANGED got
        /\ DeliveredOnceInOrder' /\ GotIsTaken' /\ TakenIsGot' /\ SentIsKept' /\ StreamEnds'
    BY <2>1, <2>2, <2>3, WriteKeepsStream
  <2>5. StreamTypes'  BY <2>1, <2>4 DEF StreamInv, StreamTypes
  <2>6. QED BY <2>4, <2>5 DEF StreamInv
<1>4. ASSUME EndStream PROVE StreamInv'
  <2>1. /\ \A w \in Writers : sent[w] = Items /\ call[w] = "none"
        /\ ~ ended /\ UNCHANGED <<pushed, popped, stopped>>
        /\ UNCHANGED <<freeWriteSpace, call, rest, need, sent, written, taken, got>>
    BY <1>4 DEF EndStream, ProducerDone, WriteEnd, callVars
  <2>2. \A w \in Writers : rest[w] = <<>>  BY <2>1, CallersAreThreads DEF LaneInv, RestOK
  <2>3. \A r \in Readers : ~ stopped[r]  BY <2>1 DEF StreamInv, StreamEnds
  <2>4. StreamEnds'  BY <2>1, <2>2, <2>3 DEF StreamInv, StreamEnds
  <2>5. DeliveredOnceInOrder' /\ GotIsTaken' /\ TakenIsGot' /\ SentIsKept'
    BY <2>1 DEF StreamInv, DeliveredOnceInOrder, InWriterOrder, GotIsTaken, TakenIsGot, SentIsKept
  <2>6. StreamTypes'  BY <2>1 DEF StreamInv, StreamTypes
  <2>7. QED BY <2>4, <2>5, <2>6 DEF StreamInv
<1>5. ASSUME NEW r \in Readers, Fetch(r) PROVE StreamInv'
  <2>1. ReadPass(r, ReadBufferSize, TRUE) /\ ~ stopped[r] /\ StopIfEmpty(r) /\ UNCHANGED <<pushed, popped>>
    BY <1>5 DEF Fetch, Read
  <2>2. UNCHANGED sent  BY <2>1 DEF ReadPass
  <2>3. QED BY <2>1, <2>2, BufferSizes, ReadKeepsStream
<1>6. ASSUME NEW r \in Readers, ContinueFetch(r) PROVE StreamInv'
  <2>1. ReadPass(r, need[r], TRUE) /\ call[r] = "read" /\ StopIfEmpty(r) /\ UNCHANGED <<pushed, popped>>
    BY <1>6 DEF ContinueFetch, ResumeRead
  <2>2. UNCHANGED sent  BY <2>1 DEF ReadPass
  <2>3. need[r] \in Nat \ {0} /\ ~ stopped[r]  BY <1>0, <2>1, CallersAreThreads DEF StreamInv, StreamEnds
  <2>4. QED BY <2>1, <2>2, <2>3, ReadKeepsStream
<1>7. ASSUME NEW r \in Readers, Pop(r) PROVE StreamInv'
  <2>1. /\ popped[r] < Len(got[r]) /\ popped' = [popped EXCEPT ![r] = popped[r] + 1]
        /\ UNCHANGED <<vars, pushed, stopped>>  BY <1>7 DEF Pop
  <2>2. /\ UNCHANGED <<sent, got, written, taken, rest, call, need, ended, freeWriteSpace>>
    BY <2>1 DEF vars, laneVars, callVars
  <2>3. DeliveredOnceInOrder' /\ GotIsTaken' /\ TakenIsGot' /\ SentIsKept'
    BY <2>2 DEF StreamInv, DeliveredOnceInOrder, InWriterOrder, GotIsTaken, TakenIsGot, SentIsKept
  <2>4. popped[r] \in Nat /\ Len(got[r]) \in Nat
    BY <1>0, CallersAreThreads, LenProperties DEF LaneInv, IInv, ThreadsOK
  <2>5. ~ stopped[r]  BY <2>1, <2>4 DEF StreamInv, StreamEnds
  <2>6. StreamEnds'
    <3>1. \A u \in Readers \ {r} : popped'[u] = popped[u]  BY <1>0, <2>1
    <3>2. \A u \in Readers : stopped'[u] => popped'[u] = Len(got'[u])
      BY <2>1, <2>2, <2>5, <3>1 DEF StreamInv, StreamEnds
    <3>3. QED BY <2>1, <2>2, <3>2 DEF StreamInv, StreamEnds, FreeReadSpace
  <2>7. popped' \in [Readers -> Nat] /\ \A u \in Readers : popped'[u] <= Len(got'[u])
    BY <1>0, <2>1, <2>2, <2>4 DEF StreamInv, StreamTypes
  <2>8. StreamTypes'  BY <2>1, <2>2, <2>7 DEF StreamInv, StreamTypes
  <2>9. QED BY <2>3, <2>6, <2>8 DEF StreamInv
<1>8. ASSUME NEW t \in Callers, Spurious(t) PROVE StreamInv'
  BY <1>8, StreamUnchanged DEF Spurious, WaitReturnsEarly, laneVars, callVars
<1>9. Finished => StreamInv'  BY StreamUnchanged DEF Finished, bufferVars, vars, laneVars, callVars
<1>10. UNCHANGED bufferVars => StreamInv'  BY StreamUnchanged DEF bufferVars, vars, laneVars, callVars
<1>11. QED BY <1>1, <1>2, <1>3, <1>4, <1>5, <1>6, <1>7, <1>8, <1>9, <1>10 DEF BufferNext, WriterStep, ReaderStep

\* Once the readers have stopped, every item was handed out.
LEMMA StreamGivesAll == LaneInv /\ StreamInv => NothingStranded
<1> SUFFICES ASSUME LaneInv, StreamInv, \A r \in Readers : stopped[r],
                    NEW w \in Writers, NEW i \in 1 .. Items
             PROVE  Popped(w, i)  BY DEF NothingStranded
<1>1. PICK r0 \in Readers : TRUE  BY BufferAssumption DEF BufferAssumption
<1>2. ended /\ FreeReadSpace = 0  BY <1>1 DEF StreamInv, StreamEnds
<1>3. sent[w] = Items /\ rest[w] = <<>>  BY <1>2 DEF StreamInv, StreamEnds
<1>4. Has(written, <<w, i>>)  BY <1>3, NothingInEmpty DEF StreamInv, SentIsKept
<1>5. PICK x \in DOMAIN written : written[x] = <<w, i>>  BY <1>4 DEF Has
<1>6. /\ written \in Seq(Element) /\ Len(written) \in Nat /\ DOMAIN written = 1 .. Len(written)
      /\ taken \in Nat /\ FreeReadSpace = Len(written) - taken /\ got \in [Callers -> Seq(Element)]
  BY LenProperties DEF LaneInv, IInv, BufferOK, Counted, ThreadsOK
<1>7. x \in 1 .. taken
  <2>1. Len(written) - taken = 0  BY <1>2, <1>6
  <2>2. QED BY <1>5, <1>6, <2>1
<1>8. PICK r \in Readers : Has(got[r], <<w, i>>)  BY <1>5, <1>7 DEF StreamInv, TakenIsGot
<1>9. PICK k \in DOMAIN got[r] : got[r][k] = <<w, i>>  BY <1>8 DEF Has
<1>10. DOMAIN got[r] = 1 .. Len(got[r]) /\ popped[r] = Len(got[r])
  BY <1>6, CallersAreThreads, LenProperties DEF StreamInv, StreamEnds
<1>11. QED BY <1>9, <1>10 DEF Popped

LEMMA StreamStarts == BufferInit => LaneInv /\ StreamInv
<1> SUFFICES ASSUME BufferInit PROVE LaneInv /\ StreamInv  OBVIOUS
<1>0. DOMAIN <<>> = {}  OBVIOUS
<1>1. /\ Init /\ pushed = [w \in Writers |-> 0] /\ popped = [r \in Readers |-> 0]
      /\ stopped = [r \in Readers |-> FALSE]  BY DEF BufferInit
<1>2. /\ call = [t \in Callers |-> "none"] /\ rest = [t \in Callers |-> <<>>]
      /\ sent = [t \in Callers |-> 0] /\ written = <<>> /\ taken = 0
      /\ got = [t \in Callers |-> <<>>] /\ ~ ended  BY <1>1 DEF Init
<1>3. /\ DOMAIN written = {} /\ \A t \in Callers : DOMAIN rest[t] = {} /\ DOMAIN got[t] = {}  BY <1>0, <1>2, Zenon
<1>4. LaneInv
  <2>1. IInv  BY <1>1, InitIInv
  <2>2. StoredInOrder /\ RestFollows  BY <1>3 DEF StoredInOrder, RestFollows, Follows, InWriterOrder
  <2>3. RestOK  BY <1>2 DEF RestOK
  <2>4. QED BY <2>1, <2>2, <2>3 DEF LaneInv, OrderInv
<1>5. StreamTypes
  <2>1. \A r \in Readers : Len(got[r]) = 0 /\ popped[r] = 0  BY <1>1, <1>2, CallersAreThreads, EmptySeq
  <2>2. \A w \in Writers : sent[w] = 0 /\ pushed[w] = 0  BY <1>1, <1>2, CallersAreThreads
  <2>3. QED BY <1>1, <2>1, <2>2, BufferSizes DEF StreamTypes
<1>6. DeliveredOnceInOrder /\ GotIsTaken  BY <1>3 DEF DeliveredOnceInOrder, InWriterOrder, GotIsTaken
<1>7. TakenIsGot  BY <1>2 DEF TakenIsGot
<1>8. SentIsKept
  <2>1. \A w \in Writers : 1 .. sent[w] = {}  BY <1>2, CallersAreThreads
  <2>2. QED BY <2>1 DEF SentIsKept
<1>9. StreamEnds  BY <1>1, <1>2 DEF StreamEnds
<1>10. QED BY <1>4, <1>5, <1>6, <1>7, <1>8, <1>9 DEF StreamInv

\* Through buffers of any size around a lane of any size, however writes and
\* reads are split and interleave, every item of every producer is handed
\* out by exactly one consumer, in the order of its producer, and nothing is
\* left in a buffer or in the lane when the consumers have stopped.
THEOREM StreamDeliversEachItemOnce == BufferSpec => []EachItemDeliveredOnce
<1>1. LaneInv /\ StreamInv => EachItemDeliveredOnce  BY StreamGivesAll DEF EachItemDeliveredOnce, StreamInv
<1>2. LaneInv /\ StreamInv /\ [BufferNext]_bufferVars => LaneInv' /\ StreamInv'  BY LaneUnderStream, StreamStep
<1>3. QED BY <1>1, <1>2, StreamStarts, PTL DEF BufferSpec

=============================================================================
