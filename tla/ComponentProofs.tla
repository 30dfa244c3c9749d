-------------------------- MODULE ComponentProofs --------------------------
(***************************************************************************)
(* Theorems about components that share no state with others: the          *)
(* allocator of images, the rows of a timestep, the phase centre, vectors, *)
(* the minor loop, and the division of an image of any size, by any lines, *)
(* into any number of subimages: their masks do not overlap, and leave out *)
(* no pixels but at crossings.                                             *)
(***************************************************************************)
EXTENDS ImageBufferAllocator, TimestepBuffer, PhaseCentre, UVector, MinorLoop, Subdivision,
        FiniteSetTheorems, SequenceTheorems, WellFoundedInduction, TLAPS


----
\* The allocator, for any addresses and sizes: images that are held never
\* share memory, the marks on the halves of buffers are exactly the images
\* that are held, the counters count them, and the number of buffers stays
\* bounded.
Image == [addr : Addresses, parts : Parts, asked : Sizes]
BufferType == [size : Nat, used : SUBSET Halves]

----
\* The first invariant, of any buffers `bufs' and images `hs'.
BuffersOK(bufs) == DOMAIN bufs \subseteq Addresses /\ bufs \in [DOMAIN bufs -> BufferType]
Apart(hs) == \A g, h \in hs : g # h /\ g.addr = h.addr => g.parts \cap h.parts = {}
InBuffers(bufs, hs) == \A h \in hs : h.addr \in DOMAIN bufs /\ h.asked <= bufs[h.addr].size
Marked(bufs, hs) ==
  \A a \in DOMAIN bufs : \A half \in Halves :
    half \in bufs[a].used <=> \E h \in hs : h.addr = a /\ half \in h.parts

MemoryOK(bufs, hs) ==
  /\ BuffersOK(bufs)
  /\ hs \subseteq Image
  /\ Apart(hs) /\ InBuffers(bufs, hs) /\ Marked(bufs, hs)

\* Rounding up keeps enough room.
LEMMA RoundedRoom ==
  ASSUME NEW asked \in Sizes
  PROVE  Rounded(asked) \in Nat /\ asked <= Rounded(asked)
<1>1. asked \in Nat  BY SizesAssumption DEF SizesAssumption
<1>2. asked % 2 \in Nat  BY <1>1
<1> QED BY <1>1, <1>2 DEF Rounded

\* An image is somewhere: its parts are not empty.
LEMMA PartsNotEmpty == ASSUME NEW p \in Parts PROVE p # {} /\ p \subseteq Halves  BY DEF Parts, Halves

\* Freeing the unused buffers takes no memory away from an image.
LEMMA UnusedMayGo ==
  ASSUME NEW bufs, NEW hs, MemoryOK(bufs, hs)
  PROVE  MemoryOK(WithoutUnused(bufs), hs)
<1> DEFINE kept == WithoutUnused(bufs)
<1>1. /\ DOMAIN kept = {b \in DOMAIN bufs : bufs[b].used # {}}
      /\ \A a \in DOMAIN kept : kept[a] = bufs[a]  BY DEF WithoutUnused
<1>2. BuffersOK(kept)
  <2>1. kept = [a \in DOMAIN kept |-> kept[a]]  BY DEF WithoutUnused
  <2> QED BY <1>1, <2>1 DEF MemoryOK, BuffersOK
<1>3. InBuffers(kept, hs)
  <2> SUFFICES ASSUME NEW h \in hs PROVE h.addr \in DOMAIN kept /\ h.asked <= kept[h.addr].size  BY DEF InBuffers
  <2>1. h \in Image /\ h.addr \in DOMAIN bufs /\ h.asked <= bufs[h.addr].size  BY DEF MemoryOK, InBuffers
  <2>2. PICK half \in Halves : half \in h.parts  BY <2>1, PartsNotEmpty DEF Image
  <2>3. half \in bufs[h.addr].used  BY <2>1, <2>2 DEF MemoryOK, Marked
  <2> QED BY <1>1, <2>1, <2>3
<1>4. Marked(kept, hs)  BY <1>1 DEF MemoryOK, Marked
<1> QED BY <1>2, <1>3, <1>4 DEF MemoryOK

\* Giving away a part of a buffer that no image has.
LEMMA GivingIsSafe ==
  ASSUME NEW bufs, NEW hs, MemoryOK(bufs, hs),
         NEW a \in Addresses, NEW size \in Nat, NEW parts \in Parts, NEW asked \in Sizes,
         asked <= size,
         a \in DOMAIN bufs => bufs[a].size = size /\ parts \cap bufs[a].used = {}
  PROVE  LET used == parts \cup (IF a \in DOMAIN bufs THEN bufs[a].used ELSE {})
             image == [addr |-> a, parts |-> parts, asked |-> asked]
         IN  MemoryOK(With(bufs, a, Buffer(size, used)), hs \cup {image}) /\ image \notin hs
<1> DEFINE used == parts \cup (IF a \in DOMAIN bufs THEN bufs[a].used ELSE {})
           image == [addr |-> a, parts |-> parts, asked |-> asked]
           after == With(bufs, a, Buffer(size, used))
<1>0. /\ BuffersOK(bufs) /\ hs \subseteq Image /\ Apart(hs) /\ InBuffers(bufs, hs) /\ Marked(bufs, hs)
  BY DEF MemoryOK
<1>1. used \in SUBSET Halves  BY <1>0, PartsNotEmpty DEF BuffersOK, BufferType
<1>2. /\ DOMAIN after = DOMAIN bufs \cup {a}
      /\ after[a] = [size |-> size, used |-> used]
      /\ \A b \in DOMAIN bufs : b # a => after[b] = bufs[b]  BY DEF With, Buffer
<1>3. BuffersOK(after)
  <2>1. after = [b \in DOMAIN after |-> after[b]]  BY DEF With
  <2>2. \A b \in DOMAIN after : after[b] \in BufferType  BY <1>0, <1>1, <1>2 DEF BuffersOK, BufferType
  <2> QED BY <1>0, <1>2, <2>1, <2>2 DEF BuffersOK
<1>4. image \in Image  BY DEF Image
<1>5. \A h \in hs : h.addr = a => h.parts \cap parts = {}
  <2> SUFFICES ASSUME NEW h \in hs, h.addr = a, NEW half \in h.parts, half \in parts PROVE FALSE  OBVIOUS
  <2>1. a \in DOMAIN bufs /\ half \in Halves  BY <1>0, PartsNotEmpty DEF InBuffers, Image
  <2>2. half \in bufs[a].used  BY <1>0, <2>1 DEF Marked
  <2> QED BY <2>1, <2>2
<1>6. image \notin hs
  <2>1. image.addr = a /\ image.parts = parts  OBVIOUS
  <2> QED BY <1>5, <2>1, PartsNotEmpty
<1>10. image.addr = a /\ image.parts = parts /\ image.asked = asked  OBVIOUS
<1> HIDE DEF image, after, used
<1>7. Apart(hs \cup {image})  BY <1>0, <1>5, <1>10 DEF Apart
<1>8. InBuffers(after, hs \cup {image})  BY <1>0, <1>2, <1>10 DEF InBuffers
<1>9. Marked(after, hs \cup {image})
  <2> SUFFICES ASSUME NEW b \in DOMAIN after, NEW half \in Halves PROVE half \in after[b].used
                        <=> \E h \in hs \cup {image} : h.addr = b /\ half \in h.parts  BY DEF Marked
  <2>1. CASE b # a  BY <1>0, <1>2, <1>10, <2>1 DEF Marked
  <2>2. CASE b = a /\ a \in DOMAIN bufs
    <3>1. half \in bufs[a].used <=> \E h \in hs : h.addr = a /\ half \in h.parts  BY <1>0, <2>2 DEF Marked
    <3>2. after[b].used = parts \cup bufs[a].used  BY <1>2, <2>2 DEF used
    <3> QED BY <1>10, <2>2, <3>1, <3>2
  <2>3. CASE b = a /\ a \notin DOMAIN bufs
    <3>1. \A h \in hs : h.addr # a  BY <1>0, <2>3 DEF InBuffers
    <3>2. after[b].used = parts  BY <1>2, <2>3 DEF used
    <3> QED BY <1>10, <2>3, <3>1, <3>2
  <2> QED BY <2>1, <2>2, <2>3
<1> QED BY <1>0, <1>3, <1>4, <1>6, <1>7, <1>8, <1>9 DEF MemoryOK, image, after, used

\* Taking an image back.
LEMMA TakingBackIsSafe ==
  ASSUME NEW bufs, NEW hs, MemoryOK(bufs, hs), NEW h \in hs
  PROVE  /\ h.addr \in DOMAIN bufs
         /\ MemoryOK([bufs EXCEPT ![h.addr].used = @ \ h.parts], hs \ {h})
<1> DEFINE after == [bufs EXCEPT ![h.addr].used = @ \ h.parts]
<1>0. /\ BuffersOK(bufs) /\ hs \subseteq Image /\ Apart(hs) /\ InBuffers(bufs, hs) /\ Marked(bufs, hs)
  BY DEF MemoryOK
<1>1. h.addr \in DOMAIN bufs  BY <1>0 DEF InBuffers
<1>2. /\ DOMAIN after = DOMAIN bufs
      /\ after[h.addr].size = bufs[h.addr].size
      /\ after[h.addr].used = bufs[h.addr].used \ h.parts
      /\ \A b \in DOMAIN bufs : b # h.addr => after[b] = bufs[b]  BY <1>0, <1>1 DEF BuffersOK, BufferType
<1>3. BuffersOK(after)  BY <1>0, <1>1 DEF BuffersOK, BufferType
<1>4. Apart(hs \ {h}) /\ hs \ {h} \subseteq Image  BY <1>0 DEF Apart
<1>5. InBuffers(after, hs \ {h})  BY <1>0, <1>2 DEF InBuffers
<1>6. Marked(after, hs \ {h})
  <2> HIDE DEF after
  <2> SUFFICES ASSUME NEW b \in DOMAIN after, NEW half \in Halves
               PROVE  half \in after[b].used <=> \E g \in hs \ {h} : g.addr = b /\ half \in g.parts  BY DEF Marked
  <2>0. half \in bufs[b].used <=> \E g \in hs : g.addr = b /\ half \in g.parts  BY <1>0, <1>2 DEF Marked
  <2>1. CASE b # h.addr  BY <1>2, <2>0, <2>1
  <2>2. CASE b = h.addr
    <3>1. \A g \in hs \ {h} : g.addr = b => g.parts \cap h.parts = {}  BY <1>0, <2>2 DEF Apart
    <3> QED BY <1>2, <2>0, <2>2, <3>1
  <2> QED BY <2>1, <2>2
<1> QED BY <1>1, <1>3, <1>4, <1>5, <1>6 DEF MemoryOK

----
\* The part that is given away is free.
LEMMA HalfIsFree ==
  ASSUME NEW buffer \in BufferType, NEW size, FitsReal(buffer, size)
  PROVE  /\ HalfTaken(buffer) \in Parts \ {Halves}
         /\ HalfTaken(buffer) \cap buffer.used = {}  BY DEF BufferType, FitsReal, HalfTaken, Parts, Halves

----
\* The whole invariant: memory, and the numbers of images and buffers.
RealsOf(hs) == {h \in hs : IsReal(h)}
ComplexesOf(hs) == {h \in hs : ~ IsReal(h)}

CountsOK ==
  /\ IsFiniteSet(held)
  /\ nReal \in Nat /\ nComplex \in Nat /\ nRealMax \in Nat /\ nComplexMax \in Nat
  /\ nReal = Cardinality(RealsOf(held)) /\ nComplex = Cardinality(ComplexesOf(held))
  /\ nReal <= nRealMax /\ nComplex <= nComplexMax

SizeOf(bufs, size) == {a \in DOMAIN bufs : bufs[a].size = size}
OtherSize(bufs, size) == {a \in DOMAIN bufs : bufs[a].size # size}

\* At most p buffers of the current size, and fewer than p of all others.
FewBuffers(bufs, size, p) ==
  /\ IsFiniteSet(DOMAIN bufs)
  /\ DOMAIN bufs # {} => /\ Cardinality(SizeOf(bufs, size)) <= p
                         /\ Cardinality(OtherSize(bufs, size)) < p

BoundOK ==
  /\ peak \in Nat
  /\ Cardinality(held) <= peak
  /\ FewBuffers(buffers, previousSize, peak)

\* While the allocator is alive, and what remains when clear() has freed all.
InLife ==
  /\ MemoryOK(buffers, held)
  /\ previousSize \in Nat /\ destructed \in BOOLEAN
  /\ CountsOK /\ BoundOK

Remains ==
  /\ BuffersOK(buffers) /\ DOMAIN buffers = {} /\ held \subseteq Image
  /\ previousSize \in Nat /\ destructed \in BOOLEAN
  /\ CountsOK /\ BoundOK

IInv == IF destructed THEN Remains ELSE InLife

\* One image more, one image fewer.
LEMMA OneMore ==
  ASSUME NEW hs, IsFiniteSet(hs), NEW h, h \notin hs
  PROVE  /\ IsFiniteSet(hs \cup {h}) /\ Cardinality(hs \cup {h}) = Cardinality(hs) + 1
         /\ IsReal(h) => /\ Cardinality(RealsOf(hs \cup {h})) = Cardinality(RealsOf(hs)) + 1
                         /\ ComplexesOf(hs \cup {h}) = ComplexesOf(hs)
         /\ ~ IsReal(h) => /\ Cardinality(ComplexesOf(hs \cup {h})) = Cardinality(ComplexesOf(hs)) + 1
                           /\ RealsOf(hs \cup {h}) = RealsOf(hs)
<1>1. IsFiniteSet(RealsOf(hs)) /\ IsFiniteSet(ComplexesOf(hs))  BY FS_Subset DEF RealsOf, ComplexesOf
<1>2. h \notin RealsOf(hs) /\ h \notin ComplexesOf(hs)  BY DEF RealsOf, ComplexesOf
<1>3. IsReal(h) => /\ RealsOf(hs \cup {h}) = RealsOf(hs) \cup {h}
                   /\ ComplexesOf(hs \cup {h}) = ComplexesOf(hs)  BY DEF RealsOf, ComplexesOf
<1>4. ~ IsReal(h) => /\ ComplexesOf(hs \cup {h}) = ComplexesOf(hs) \cup {h}
                     /\ RealsOf(hs \cup {h}) = RealsOf(hs)  BY DEF RealsOf, ComplexesOf
<1> QED BY <1>1, <1>2, <1>3, <1>4, FS_AddElement

LEMMA OneFewer ==
  ASSUME NEW hs, IsFiniteSet(hs), NEW h \in hs
  PROVE  /\ IsFiniteSet(hs \ {h}) /\ Cardinality(hs \ {h}) = Cardinality(hs) - 1
         /\ IsReal(h) => /\ Cardinality(RealsOf(hs \ {h})) = Cardinality(RealsOf(hs)) - 1
                         /\ ComplexesOf(hs \ {h}) = ComplexesOf(hs)
         /\ ~ IsReal(h) => /\ Cardinality(ComplexesOf(hs \ {h})) = Cardinality(ComplexesOf(hs)) - 1
                           /\ RealsOf(hs \ {h}) = RealsOf(hs)
<1>1. IsFiniteSet(RealsOf(hs)) /\ IsFiniteSet(ComplexesOf(hs))  BY FS_Subset DEF RealsOf, ComplexesOf
<1>3. IsReal(h) => /\ RealsOf(hs \ {h}) = RealsOf(hs) \ {h} /\ h \in RealsOf(hs)
                   /\ ComplexesOf(hs \ {h}) = ComplexesOf(hs)  BY DEF RealsOf, ComplexesOf
<1>4. ~ IsReal(h) => /\ ComplexesOf(hs \ {h}) = ComplexesOf(hs) \ {h} /\ h \in ComplexesOf(hs)
                     /\ RealsOf(hs \ {h}) = RealsOf(hs)  BY DEF RealsOf, ComplexesOf
<1> QED BY <1>1, <1>3, <1>4, FS_RemoveElement

\* A finite set of images lies in no more buffers than there are images.
LEMMA NoMoreBuffersThanImages ==
  ASSUME NEW hs, IsFiniteSet(hs), NEW S, \A a \in S : \E h \in hs : h.addr = a
  PROVE  IsFiniteSet(S) /\ Cardinality(S) <= Cardinality(hs)
<1> DEFINE f == [a \in S |-> CHOOSE h \in hs : h.addr = a]
<1>1. \A a \in S : f[a] \in hs /\ f[a].addr = a  OBVIOUS
<1>2. f \in Injection(S, hs)  BY <1>1 DEF Injection, IsInjective
<1> QED BY <1>2, FS_Injection

\* The buffers that Allocate keeps are few, also when the size changes.
LEMMA KeptIsFew ==
  ASSUME InLife, NEW size \in Nat, NEW p, p = IncreasedMax(peak, Cardinality(held) + 1)
  PROVE  /\ MemoryOK(Kept(size), held)
         /\ IsFiniteSet(DOMAIN Kept(size))
         /\ p \in Nat /\ Cardinality(held) + 1 <= p
         /\ Cardinality(OtherSize(Kept(size), size)) < p
         /\ Cardinality(SizeOf(Kept(size), size)) <= p
<1> DEFINE kept == Kept(size)
<1>0. /\ MemoryOK(buffers, held) /\ IsFiniteSet(held) /\ peak \in Nat
      /\ Cardinality(held) \in Nat /\ FewBuffers(buffers, previousSize, peak)
  BY FS_CardinalityType DEF InLife, CountsOK, BoundOK
<1>1. p \in Nat /\ Cardinality(held) + 1 <= p /\ peak <= p  BY <1>0 DEF IncreasedMax
<1>2. MemoryOK(kept, held)  BY <1>0, UnusedMayGo DEF Kept
<1>3. CASE size # previousSize
  <2>1. kept = WithoutUnused(buffers)  BY <1>3 DEF Kept
  <2>2. \A a \in DOMAIN kept : kept[a].used # {}  BY <2>1 DEF WithoutUnused
  <2>3. \A a \in DOMAIN kept : \E h \in held : h.addr = a
    <3> SUFFICES ASSUME NEW a \in DOMAIN kept PROVE \E h \in held : h.addr = a  OBVIOUS
    <3>1. PICK half \in Halves : half \in kept[a].used  BY <1>2, <2>2 DEF MemoryOK, BuffersOK, BufferType
    <3> QED BY <1>2, <3>1 DEF MemoryOK, Marked
  <2>4. /\ \A a \in OtherSize(kept, size) : \E h \in held : h.addr = a
        /\ \A a \in SizeOf(kept, size) : \E h \in held : h.addr = a  BY <2>3 DEF OtherSize, SizeOf
  <2>5. IsFiniteSet(DOMAIN kept)  BY <1>0, <2>3, NoMoreBuffersThanImages
  <2>6. Cardinality(OtherSize(kept, size)) <= Cardinality(held)  BY <1>0, <2>4, NoMoreBuffersThanImages
  <2>7. Cardinality(SizeOf(kept, size)) <= Cardinality(held)  BY <1>0, <2>4, NoMoreBuffersThanImages
  <2>8. Cardinality(OtherSize(kept, size)) \in Nat /\ Cardinality(SizeOf(kept, size)) \in Nat
    BY <2>5, FS_Subset, FS_CardinalityType DEF OtherSize, SizeOf
  <2> HIDE DEF kept
  <2>9. Cardinality(OtherSize(kept, size)) < p /\ Cardinality(SizeOf(kept, size)) <= p
    BY <1>0, <1>1, <2>6, <2>7, <2>8
  <2> QED BY <1>1, <1>2, <2>5, <2>9 DEF kept
<1>4. CASE size = previousSize
  <2>1. kept = buffers  BY <1>4 DEF Kept
  <2>2. IsFiniteSet(DOMAIN kept)  BY <1>0, <2>1 DEF FewBuffers
  <2>3. Cardinality(OtherSize(kept, size)) \in Nat /\ Cardinality(SizeOf(kept, size)) \in Nat
    BY <2>2, FS_Subset, FS_CardinalityType DEF OtherSize, SizeOf
  <2>4. CASE DOMAIN kept = {}
    <3>1. OtherSize(kept, size) = {} /\ SizeOf(kept, size) = {}  BY <2>4 DEF OtherSize, SizeOf
    <3>2. Cardinality(OtherSize(kept, size)) = 0 /\ Cardinality(SizeOf(kept, size)) = 0  BY <3>1, FS_EmptySet
    <3> QED BY <1>0, <1>1, <1>2, <2>2, <3>2
  <2>5. CASE DOMAIN kept # {}
    <3>1. Cardinality(SizeOf(kept, size)) <= peak /\ Cardinality(OtherSize(kept, size)) < peak
      BY <1>0, <1>4, <2>1, <2>5 DEF FewBuffers
    <3> QED BY <1>0, <1>1, <1>2, <2>2, <2>3, <3>1
  <2> QED BY <2>4, <2>5
<1> QED BY <1>3, <1>4

\* One buffer more of the current size, or a part of one that was there.
LEMMA GivingKeepsFew ==
  ASSUME NEW bufs, IsFiniteSet(DOMAIN bufs), NEW size \in Nat, NEW p \in Nat, NEW a, NEW used,
         Cardinality(OtherSize(bufs, size)) < p, Cardinality(SizeOf(bufs, size)) <= p,
         a \in DOMAIN bufs => bufs[a].size = size,
         a \notin DOMAIN bufs => Cardinality(SizeOf(bufs, size)) < p
  PROVE  FewBuffers(With(bufs, a, Buffer(size, used)), size, p)
<1> DEFINE after == With(bufs, a, Buffer(size, used))
<1>1. /\ DOMAIN after = DOMAIN bufs \cup {a}
      /\ after[a].size = size
      /\ \A b \in DOMAIN bufs : b # a => after[b] = bufs[b]  BY DEF With, Buffer
<1> HIDE DEF after
<1>2. IsFiniteSet(DOMAIN after)  BY <1>1, FS_AddElement
<1>3. OtherSize(after, size) = OtherSize(bufs, size)  BY <1>1 DEF OtherSize
<1>4. SizeOf(after, size) = SizeOf(bufs, size) \cup {a}  BY <1>1 DEF SizeOf
<1>5. IsFiniteSet(SizeOf(bufs, size)) /\ Cardinality(SizeOf(bufs, size)) \in Nat
  BY FS_Subset, FS_CardinalityType DEF SizeOf
<1>6. a \in DOMAIN bufs => a \in SizeOf(bufs, size)  BY DEF SizeOf
<1>7. Cardinality(SizeOf(after, size)) <= p
  <2>1. CASE a \in SizeOf(bufs, size)
    <3>1. SizeOf(after, size) = SizeOf(bufs, size)  BY <1>4, <2>1
    <3> QED BY <3>1
  <2>2. CASE a \notin SizeOf(bufs, size)
    <3>1. Cardinality(SizeOf(after, size)) = Cardinality(SizeOf(bufs, size)) + 1  BY <1>4, <1>5, <2>2, FS_AddElement
    <3>2. Cardinality(SizeOf(bufs, size)) < p  BY <1>6, <2>2
    <3> QED BY <1>5, <3>1, <3>2
  <2> QED BY <2>1, <2>2
<1> QED BY <1>2, <1>3, <1>7 DEF FewBuffers, after

----
\* Allocate and AllocateComplex, whatever parts they give.
LEMMA GiveStep ==
  ASSUME InLife, NEW asked \in Sizes, NEW a \in Addresses, NEW parts \in Parts,
         LET size == Rounded(asked)
             kept == Kept(size)
         IN  /\ previousSize' = size
             /\ Give(kept, a, size, parts, asked)
             /\ a \in DOMAIN kept => kept[a].size = size /\ parts \cap kept[a].used = {}
             /\ a \notin DOMAIN kept => \A b \in DOMAIN kept : kept[b].size = size => kept[b].used # {}
  PROVE  /\ MemoryOK(buffers, held)' /\ BoundOK' /\ (previousSize \in Nat)'
         /\ \E image : /\ image \notin held /\ held' = held \cup {image}
                       /\ image.parts = parts
<1> DEFINE size == Rounded(asked)
           kept == Kept(size)
           used == parts \cup (IF a \in DOMAIN kept THEN kept[a].used ELSE {})
           image == [addr |-> a, parts |-> parts, asked |-> asked]
<1>0. size \in Nat /\ asked <= size  BY RoundedRoom
<1>1. /\ buffers' = With(kept, a, Buffer(size, used))
      /\ held' = held \cup {image}
      /\ peak' = IncreasedMax(peak, Cardinality(held) + 1)
      /\ previousSize' = size  BY DEF Give
<1>2. /\ a \in DOMAIN kept => kept[a].size = size /\ parts \cap kept[a].used = {}
      /\ a \notin DOMAIN kept => \A b \in DOMAIN kept : kept[b].size = size => kept[b].used # {}  OBVIOUS
<1>3. /\ MemoryOK(kept, held) /\ IsFiniteSet(DOMAIN kept)
      /\ peak' \in Nat /\ Cardinality(held) + 1 <= peak'
      /\ Cardinality(OtherSize(kept, size)) < peak'
      /\ Cardinality(SizeOf(kept, size)) <= peak'  BY <1>0, <1>1, KeptIsFew
<1> HIDE DEF kept, size
<1>4. MemoryOK(With(kept, a, Buffer(size, used)), held \cup {image}) /\ image \notin held
  BY <1>0, <1>2, <1>3, GivingIsSafe
<1>5. IsFiniteSet(held) /\ Cardinality(held) \in Nat  BY FS_CardinalityType DEF InLife, CountsOK
<1>6. a \notin DOMAIN kept => Cardinality(SizeOf(kept, size)) < peak'
  <2> SUFFICES ASSUME a \notin DOMAIN kept PROVE Cardinality(SizeOf(kept, size)) < peak'  OBVIOUS
  <2>1. \A b \in SizeOf(kept, size) : \E h \in held : h.addr = b
    <3> SUFFICES ASSUME NEW b \in SizeOf(kept, size) PROVE \E h \in held : h.addr = b  OBVIOUS
    <3>1. b \in DOMAIN kept /\ kept[b].used # {}  BY <1>2 DEF SizeOf
    <3>2. PICK half \in Halves : half \in kept[b].used  BY <1>3, <3>1 DEF MemoryOK, BuffersOK, BufferType
    <3> QED BY <1>3, <3>1, <3>2 DEF MemoryOK, Marked
  <2>2. IsFiniteSet(SizeOf(kept, size)) /\ Cardinality(SizeOf(kept, size)) <= Cardinality(held)
    BY <1>5, <2>1, NoMoreBuffersThanImages
  <2> QED BY <1>3, <1>5, <2>2, FS_CardinalityType
<1>7. FewBuffers(With(kept, a, Buffer(size, used)), size, peak')  BY <1>0, <1>2, <1>3, <1>6, GivingKeepsFew
<1>8. Cardinality(held \cup {image}) = Cardinality(held) + 1  BY <1>4, <1>5, FS_AddElement
<1>9. BoundOK'  BY <1>1, <1>3, <1>5, <1>7, <1>8 DEF BoundOK
<1> QED BY <1>0, <1>1, <1>4, <1>9

LEMMA InitInLife == ASSUME AllocInit PROVE InLife
<1>1. DOMAIN buffers = {} /\ held = {}  BY DEF AllocInit
<1>2. buffers \in [DOMAIN buffers -> BufferType]  BY DEF AllocInit
<1>3. MemoryOK(buffers, held)  BY <1>1, <1>2 DEF MemoryOK, BuffersOK, Apart, InBuffers, Marked
<1>4. RealsOf(held) = {} /\ ComplexesOf(held) = {}  BY <1>1 DEF RealsOf, ComplexesOf
<1>5. CountsOK
  <2>1. IsFiniteSet(held)  BY <1>1, FS_EmptySet
  <2>2. Cardinality(RealsOf(held)) = 0 /\ Cardinality(ComplexesOf(held)) = 0  BY <1>4, FS_EmptySet
  <2>3. nReal = 0 /\ nComplex = 0 /\ nRealMax = 0 /\ nComplexMax = 0  BY DEF AllocInit
  <2> QED BY <2>1, <2>2, <2>3 DEF CountsOK
<1>6. BoundOK  BY <1>1, FS_EmptySet DEF BoundOK, FewBuffers, AllocInit
<1> QED BY <1>3, <1>5, <1>6 DEF InLife, AllocInit

LEMMA AllocateInLife == ASSUME InLife, NEW asked \in Sizes, Allocate(asked) PROVE InLife'
<1> DEFINE size == Rounded(asked)
           kept == Kept(size)
<1>0. size \in Nat /\ previousSize' = size  BY RoundedRoom DEF Allocate
<1>1. MemoryOK(kept, held)  BY <1>0, KeptIsFew
<1>2. \E a \in Addresses, parts \in Parts \ {Halves} :
        /\ Give(kept, a, size, parts, asked)
        /\ a \in DOMAIN kept => kept[a].size = size /\ parts \cap kept[a].used = {}
        /\ a \notin DOMAIN kept => \A b \in DOMAIN kept : kept[b].size = size => kept[b].used # {}
  <2>1. CASE \E a \in DOMAIN kept :
               FitsReal(kept[a], size) /\ Give(kept, a, kept[a].size, HalfTaken(kept[a]), asked)
    <3>1. PICK a \in DOMAIN kept :
            FitsReal(kept[a], size) /\ Give(kept, a, kept[a].size, HalfTaken(kept[a]), asked)  BY <2>1
    <3>2. a \in Addresses /\ kept[a] \in BufferType  BY <1>1 DEF MemoryOK, BuffersOK
    <3>3. kept[a].size = size  BY <3>1 DEF FitsReal
    <3>4. /\ HalfTaken(kept[a]) \in Parts \ {Halves}
          /\ HalfTaken(kept[a]) \cap kept[a].used = {}  BY <3>1, <3>2, HalfIsFree
    <3> HIDE DEF kept, size
    <3> QED BY <3>1, <3>2, <3>3, <3>4
  <2>2. CASE /\ {a \in DOMAIN kept : FitsReal(kept[a], size)} = {}
             /\ \E a \in Addresses \ DOMAIN kept : Give(kept, a, size, {"first"}, asked)
    <3>1. PICK a \in Addresses \ DOMAIN kept : Give(kept, a, size, {"first"}, asked)  BY <2>2
    <3>2. \A b \in DOMAIN kept : kept[b].size = size => kept[b].used # {}  BY <2>2 DEF FitsReal, Halves
    <3>3. {"first"} \in Parts \ {Halves}  BY DEF Parts, Halves
    <3> HIDE DEF kept, size
    <3> QED BY <3>1, <3>2, <3>3
  <2> QED BY <2>1, <2>2 DEF Allocate
<1>3. PICK a \in Addresses, parts \in Parts \ {Halves} :
        /\ Give(kept, a, size, parts, asked)
        /\ a \in DOMAIN kept => kept[a].size = size /\ parts \cap kept[a].used = {}
        /\ a \notin DOMAIN kept => \A b \in DOMAIN kept : kept[b].size = size => kept[b].used # {}  BY <1>2
<1>4. /\ MemoryOK(buffers, held)' /\ BoundOK' /\ (previousSize \in Nat)'
      /\ \E image : image \notin held /\ held' = held \cup {image} /\ image.parts = parts  BY <1>0, <1>3, GiveStep
<1>5. PICK image : image \notin held /\ held' = held \cup {image} /\ image.parts = parts  BY <1>4
<1>6. IsReal(image)  BY <1>3, <1>5 DEF IsReal
<1>7. CountsOK'
  <2>1. /\ IsFiniteSet(held) /\ nReal \in Nat /\ nRealMax \in Nat
        /\ nReal = Cardinality(RealsOf(held)) /\ nComplex = Cardinality(ComplexesOf(held))
        /\ nReal <= nRealMax /\ nComplex <= nComplexMax /\ nComplex \in Nat /\ nComplexMax \in Nat
    BY DEF InLife, CountsOK
  <2>2. /\ nReal' = nReal + 1 /\ nRealMax' = IncreasedMax(nRealMax, nReal + 1)
        /\ nComplex' = nComplex /\ nComplexMax' = nComplexMax  BY DEF Allocate
  <2>3. /\ IsFiniteSet(held') /\ Cardinality(RealsOf(held')) = Cardinality(RealsOf(held)) + 1
        /\ ComplexesOf(held') = ComplexesOf(held)  BY <1>5, <1>6, <2>1, OneMore
  <2> QED BY <2>1, <2>2, <2>3 DEF CountsOK, IncreasedMax
<1> QED BY <1>4, <1>7 DEF InLife, Allocate, lifeVars

LEMMA AllocateComplexInLife == ASSUME InLife, NEW asked \in Sizes, AllocateComplex(asked) PROVE InLife'
<1> DEFINE size == Rounded(asked)
           kept == Kept(size)
<1>0. size \in Nat /\ previousSize' = size  BY RoundedRoom DEF AllocateComplex
<1>1. MemoryOK(kept, held)  BY <1>0, KeptIsFew
<1>2. \E a \in Addresses :
        /\ Give(kept, a, size, Halves, asked)
        /\ a \in DOMAIN kept => kept[a].size = size /\ Halves \cap kept[a].used = {}
        /\ a \notin DOMAIN kept => \A b \in DOMAIN kept : kept[b].size = size => kept[b].used # {}
  <2>1. CASE \E a \in DOMAIN kept :
               FitsComplex(kept[a], size) /\ Give(kept, a, kept[a].size, Halves, asked)
    <3>1. PICK a \in DOMAIN kept :
            FitsComplex(kept[a], size) /\ Give(kept, a, kept[a].size, Halves, asked)  BY <2>1
    <3>2. a \in Addresses  BY <1>1 DEF MemoryOK, BuffersOK
    <3>3. kept[a].size = size /\ Halves \cap kept[a].used = {}  BY <3>1 DEF FitsComplex
    <3> HIDE DEF kept, size
    <3> QED BY <3>1, <3>2, <3>3
  <2>2. CASE /\ {a \in DOMAIN kept : FitsComplex(kept[a], size)} = {}
             /\ \E a \in Addresses \ DOMAIN kept : Give(kept, a, size, Halves, asked)
    <3>1. PICK a \in Addresses \ DOMAIN kept : Give(kept, a, size, Halves, asked)  BY <2>2
    <3>2. \A b \in DOMAIN kept : kept[b].size = size => kept[b].used # {}  BY <2>2 DEF FitsComplex
    <3> HIDE DEF kept, size
    <3> QED BY <3>1, <3>2
  <2> QED BY <2>1, <2>2 DEF AllocateComplex
<1>3. PICK a \in Addresses :
        /\ Give(kept, a, size, Halves, asked)
        /\ a \in DOMAIN kept => kept[a].size = size /\ Halves \cap kept[a].used = {}
        /\ a \notin DOMAIN kept => \A b \in DOMAIN kept : kept[b].size = size => kept[b].used # {}  BY <1>2
<1>4. /\ MemoryOK(buffers, held)' /\ BoundOK' /\ (previousSize \in Nat)'
      /\ \E image : image \notin held /\ held' = held \cup {image} /\ image.parts = Halves
  <2>1. Halves \in Parts  BY DEF Parts
  <2> QED BY <1>0, <1>3, <2>1, GiveStep
<1>5. PICK image : image \notin held /\ held' = held \cup {image} /\ image.parts = Halves  BY <1>4
<1>6. ~ IsReal(image)  BY <1>5 DEF IsReal
<1>7. CountsOK'
  <2>1. /\ IsFiniteSet(held) /\ nReal \in Nat /\ nRealMax \in Nat
        /\ nReal = Cardinality(RealsOf(held)) /\ nComplex = Cardinality(ComplexesOf(held))
        /\ nReal <= nRealMax /\ nComplex <= nComplexMax /\ nComplex \in Nat /\ nComplexMax \in Nat
    BY DEF InLife, CountsOK
  <2>2. /\ nComplex' = nComplex + 1 /\ nComplexMax' = IncreasedMax(nComplexMax, nComplex + 1)
        /\ nReal' = nReal /\ nRealMax' = nRealMax  BY DEF AllocateComplex
  <2>3. /\ IsFiniteSet(held') /\ Cardinality(ComplexesOf(held')) = Cardinality(ComplexesOf(held)) + 1
        /\ RealsOf(held') = RealsOf(held)  BY <1>5, <1>6, <2>1, OneMore
  <2> QED BY <2>1, <2>2, <2>3 DEF CountsOK, IncreasedMax
<1> QED BY <1>4, <1>7 DEF InLife, AllocateComplex, lifeVars

LEMMA FreeInLife == ASSUME InLife, NEW h \in held, Free(h) PROVE InLife'
<1>0. MemoryOK(buffers, held) /\ CountsOK /\ BoundOK  BY DEF InLife
<1>1. /\ held' = held \ {h}
      /\ buffers' = [buffers EXCEPT ![h.addr].used = @ \ h.parts]
      /\ previousSize' = previousSize /\ peak' = peak
      /\ nRealMax' = nRealMax /\ nComplexMax' = nComplexMax
      /\ IsReal(h) => nReal' = nReal - 1 /\ nComplex' = nComplex
      /\ ~ IsReal(h) => nComplex' = nComplex - 1 /\ nReal' = nReal  BY DEF Free, Returned, FreedAsReal
<1>2. h.addr \in DOMAIN buffers /\ MemoryOK(buffers', held')  BY <1>0, <1>1, TakingBackIsSafe
<1>3. CountsOK'
  <2>1. /\ IsFiniteSet(held) /\ nReal \in Nat /\ nRealMax \in Nat
        /\ nReal = Cardinality(RealsOf(held)) /\ nComplex = Cardinality(ComplexesOf(held))
        /\ nReal <= nRealMax /\ nComplex <= nComplexMax /\ nComplex \in Nat /\ nComplexMax \in Nat
    BY <1>0 DEF CountsOK
  <2>2. IsFiniteSet(held')  BY <1>1, <2>1, OneFewer
  <2>3. Cardinality(RealsOf(held')) \in Nat /\ Cardinality(ComplexesOf(held')) \in Nat
    BY <2>2, FS_Subset, FS_CardinalityType DEF RealsOf, ComplexesOf
  <2>4. nReal' = Cardinality(RealsOf(held')) /\ nComplex' = Cardinality(ComplexesOf(held'))  BY <1>1, <2>1, OneFewer
  <2>5. nReal' <= nRealMax /\ nComplex' <= nComplexMax  BY <1>1, <2>1
  <2> QED BY <1>1, <2>1, <2>2, <2>3, <2>4, <2>5 DEF CountsOK
<1>4. BoundOK'
  <2>1. DOMAIN buffers' = DOMAIN buffers /\ \A a \in DOMAIN buffers : buffers'[a].size = buffers[a].size
    BY <1>0, <1>1, <1>2 DEF MemoryOK, BuffersOK, BufferType
  <2>2. /\ SizeOf(buffers', previousSize') = SizeOf(buffers, previousSize)
        /\ OtherSize(buffers', previousSize') = OtherSize(buffers, previousSize)  BY <1>1, <2>1 DEF SizeOf, OtherSize
  <2>3. FewBuffers(buffers', previousSize', peak')  BY <1>0, <1>1, <2>1, <2>2 DEF BoundOK, FewBuffers
  <2>4. Cardinality(held) \in Nat /\ Cardinality(held') = Cardinality(held) - 1
    BY <1>0, <1>1, OneFewer, FS_CardinalityType DEF CountsOK
  <2> QED BY <1>0, <1>1, <2>3, <2>4 DEF BoundOK
<1> QED BY <1>1, <1>2, <1>3, <1>4 DEF InLife, Free, lifeVars

LEMMA FreeUnusedInLife == ASSUME InLife, FreeUnused PROVE InLife'
<1>1. MemoryOK(buffers', held)  BY UnusedMayGo DEF InLife, FreeUnused
<1>2. CountsOK' /\ held' = held /\ previousSize' = previousSize /\ peak' = peak /\ destructed' = destructed
  BY DEF InLife, FreeUnused, CountsOK, counters, lifeVars
<1>3. /\ DOMAIN buffers' \subseteq DOMAIN buffers
      /\ \A a \in DOMAIN buffers' : buffers'[a] = buffers[a]  BY DEF FreeUnused, WithoutUnused
<1>4. /\ SizeOf(buffers', previousSize) \subseteq SizeOf(buffers, previousSize)
      /\ OtherSize(buffers', previousSize) \subseteq OtherSize(buffers, previousSize)  BY <1>3 DEF SizeOf, OtherSize
<1>5. FewBuffers(buffers', previousSize, peak)
  <2>1. IsFiniteSet(DOMAIN buffers) /\ IsFiniteSet(DOMAIN buffers')
    BY <1>3, FS_Subset DEF InLife, BoundOK, FewBuffers
  <2>2. IsFiniteSet(SizeOf(buffers, previousSize)) /\ IsFiniteSet(OtherSize(buffers, previousSize))
    BY <2>1, FS_Subset DEF SizeOf, OtherSize
  <2>3. /\ Cardinality(SizeOf(buffers', previousSize)) <= Cardinality(SizeOf(buffers, previousSize))
        /\ Cardinality(OtherSize(buffers', previousSize)) <= Cardinality(OtherSize(buffers, previousSize))
    BY <1>4, <2>2, FS_Subset
  <2>4. /\ Cardinality(SizeOf(buffers', previousSize)) \in Nat
        /\ Cardinality(OtherSize(buffers', previousSize)) \in Nat
        /\ Cardinality(SizeOf(buffers, previousSize)) \in Nat
        /\ Cardinality(OtherSize(buffers, previousSize)) \in Nat  BY <1>4, <2>2, FS_Subset, FS_CardinalityType
  <2>5. DOMAIN buffers' # {} => DOMAIN buffers # {}  BY <1>3
  <2>6. peak \in Nat /\ FewBuffers(buffers, previousSize, peak)  BY DEF InLife, BoundOK
  <2> QED BY <2>1, <2>3, <2>4, <2>5, <2>6 DEF FewBuffers
<1> QED BY <1>1, <1>2, <1>5 DEF InLife, BoundOK

LEMMA DestructRemains == ASSUME InLife, Destruct PROVE Remains'
<1>1. /\ buffers' = << >> /\ held' = held /\ previousSize' = previousSize /\ peak' = peak
      /\ destructed' = TRUE /\ UNCHANGED counters  BY DEF Destruct
<1>2. CountsOK'  BY <1>1 DEF InLife, CountsOK, counters
<1>3. DOMAIN buffers' = {} /\ BuffersOK(buffers')  BY <1>1 DEF BuffersOK
<1>4. BoundOK'  BY <1>1, <1>3, FS_EmptySet DEF InLife, BoundOK, FewBuffers
<1> QED BY <1>1, <1>2, <1>3, <1>4 DEF InLife, MemoryOK, Remains

LEMMA NextIInv == ASSUME IInv, [AllocNext]_allocVars PROVE IInv'
<1>1. ASSUME NEW asked \in Sizes, Allocate(asked) PROVE IInv'
  <2>1. ~ destructed /\ destructed' = destructed  BY <1>1 DEF Allocate, lifeVars
  <2> QED BY <1>1, <2>1, AllocateInLife DEF IInv
<1>2. ASSUME NEW asked \in Sizes, AllocateComplex(asked) PROVE IInv'
  <2>1. ~ destructed /\ destructed' = destructed  BY <1>2 DEF AllocateComplex, lifeVars
  <2> QED BY <1>2, <2>1, AllocateComplexInLife DEF IInv
<1>3. ASSUME NEW h \in held, Free(h) PROVE IInv'
  <2>1. ~ destructed /\ destructed' = destructed  BY <1>3 DEF Free, lifeVars
  <2> QED BY <1>3, <2>1, FreeInLife DEF IInv
<1>4. CASE FreeUnused
  <2>1. ~ destructed /\ destructed' = destructed  BY <1>4 DEF FreeUnused, lifeVars
  <2> QED BY <1>4, <2>1, FreeUnusedInLife DEF IInv
<1>5. CASE Destruct
  <2>1. ~ destructed /\ destructed' = TRUE  BY <1>5 DEF Destruct
  <2> QED BY <1>5, <2>1, DestructRemains DEF IInv
<1>6. CASE UNCHANGED allocVars
  BY <1>6 DEF IInv, InLife, Remains, allocVars, MemoryOK, CountsOK, BoundOK, counters, lifeVars
<1> QED BY <1>1, <1>2, <1>3, <1>4, <1>5, <1>6 DEF AllocNext, Done

LEMMA AlwaysIInv == AllocSpec => []IInv
<1>1. AllocInit => IInv  BY InitInLife DEF IInv, AllocInit
<1>2. IInv /\ [AllocNext]_allocVars => IInv'  BY NextIInv
<1> QED BY <1>1, <1>2, PTL DEF AllocSpec

----
\* The theorems.

\* The allocator's state keeps its types: the statistics never wrap around.
THEOREM AllocatorTypeOK == AllocSpec => []AllocTypeOK
<1>1. IInv => AllocTypeOK
  BY DEF IInv, InLife, Remains, MemoryOK, BuffersOK, BufferType, Image, CountsOK, BoundOK, AllocTypeOK
<1> QED BY <1>1, AlwaysIInv, PTL

\* No two images that are held share memory, and each has the room it asked for,
\* for any sizes, any addresses and any order of calls.
THEOREM AllocatorImagesDoNotOverlap == AllocSpec => []ImagesDoNotOverlap
<1>1. IInv => ImagesDoNotOverlap  BY DEF IInv, InLife, MemoryOK, Apart, InBuffers, ImagesDoNotOverlap
<1> QED BY <1>1, AlwaysIInv, PTL

\* The marks on the halves of the buffers are exactly the images that are held.
THEOREM AllocatorUsedHalvesAreHeld == AllocSpec => []UsedHalvesAreHeld
<1>1. IInv => UsedHalvesAreHeld  BY DEF IInv, InLife, Remains, MemoryOK, Marked, UsedHalvesAreHeld
<1> QED BY <1>1, AlwaysIInv, PTL

\* The counters count the images that are held.
THEOREM AllocatorCountersMatch == AllocSpec => []CountersMatch
<1>1. IInv => CountersMatch
  BY DEF IInv, InLife, Remains, CountsOK, CountersMatch, Reals, Complexes, RealsOf, ComplexesOf
<1> QED BY <1>1, AlwaysIInv, PTL

\* The allocator keeps fewer than twice as many buffers as there were images at
\* the peak, however often the size changes.
THEOREM AllocatorBuffersBounded == AllocSpec => []BuffersBounded
<1>1. IInv => BuffersBounded
  <2> SUFFICES ASSUME IInv, DOMAIN buffers # {} PROVE Cardinality(DOMAIN buffers) < 2 * peak  BY DEF BuffersBounded
  <2> DEFINE current == SizeOf(buffers, previousSize)
             older == OtherSize(buffers, previousSize)
  <2>1. /\ peak \in Nat /\ IsFiniteSet(DOMAIN buffers)
        /\ Cardinality(current) <= peak /\ Cardinality(older) < peak
    BY DEF IInv, InLife, Remains, BoundOK, FewBuffers
  <2>2. DOMAIN buffers = current \cup older /\ current \cap older = {}  BY DEF SizeOf, OtherSize
  <2>3. IsFiniteSet(current) /\ IsFiniteSet(older)  BY <2>1, <2>2, FS_Subset
  <2> HIDE DEF current, older
  <2>4. /\ Cardinality(current) \in Nat /\ Cardinality(older) \in Nat
        /\ Cardinality(current \cap older) = 0  BY <2>2, <2>3, FS_CardinalityType, FS_EmptySet
  <2>5. Cardinality(DOMAIN buffers) = Cardinality(current) + Cardinality(older)
    <3>1. Cardinality(current \cup older)
            = Cardinality(current) + Cardinality(older) - Cardinality(current \cap older)  BY <2>3, FS_Union
    <3> QED BY <2>2, <2>4, <3>1
  <2> QED BY <2>1, <2>4, <2>5
<1> QED BY <1>1, AlwaysIInv, PTL

----
\* The rows of a timestep (timestepbuffer.h), for any rows.  BlockEnd
\* chooses the end of a timestep, which exists because sets of naturals
\* have least elements.
LessOnNat == {pair \in Nat \X Nat : pair[1] < pair[2]}
LEMMA LessIsWellFounded == IsWellFoundedOn(LessOnNat, Nat)  BY NatLessThanWellFounded DEF OpToRel, LessOnNat

\* A set of naturals has a least element.
LEMMA LeastElement ==
  ASSUME NEW T, T \subseteq Nat, T # {}
  PROVE  \E n \in T : \A m \in T : n <= m
<1>1. PICK n \in T : \A m \in T : <<m, n>> \notin LessOnNat  BY LessIsWellFounded, WFMin
<1>2. ASSUME NEW m \in T PROVE n <= m
  <2>1. m \in Nat /\ n \in Nat /\ ~(m < n)  BY <1>1 DEF LessOnNat
  <2> QED BY <2>1
<1> QED BY <1>2

ProviderRow == [time : Nat, a1 : Nat, a2 : Nat]

\* There is a row with which a timestep ends, and it is the one that is chosen.
LEMMA BlockEndIsEnd ==
  ASSUME rows \in Seq(ProviderRow), NEW from \in DOMAIN rows
  PROVE  BlockEnd(from) \in from .. Len(rows) /\ IsTimestep(rows, from, BlockEnd(from))
<1> DEFINE T == {n \in from .. Len(rows) : n = Len(rows) \/ rows[n + 1].time # rows[from].time}
<1>1. from \in Nat /\ Len(rows) \in Nat /\ from <= Len(rows)  OBVIOUS
<1>2. T \subseteq Nat /\ T # {}
  <2>1. Len(rows) \in T  BY <1>1
  <2> QED BY <1>1, <2>1
<1>3. PICK n \in T : \A m \in T : n <= m  BY <1>2, LeastElement
<1>4. ASSUME NEW r \in from .. n PROVE rows[r].time = rows[from].time
  <2>1. CASE r = from  BY <2>1
  <2>2. CASE r # from
    <3>1. r - 1 \in from .. Len(rows) /\ r - 1 < n /\ (r - 1) + 1 = r /\ r - 1 # Len(rows)  BY <1>1, <1>3, <2>2
    <3>2. r - 1 \notin T
      <4>1. n \in Nat /\ r - 1 \in Nat  BY <1>1, <3>1
      <4> HIDE DEF T
      <4> QED BY <1>3, <3>1, <4>1
    <3> QED BY <3>1, <3>2
  <2> QED BY <2>1, <2>2
<1>5. n \in from .. Len(rows) /\ (n < Len(rows) => rows[n + 1].time # rows[from].time)  BY <1>1, <1>3
<1>6. \E last \in from .. Len(rows) :
        /\ \A r \in from .. last : rows[r].time = rows[from].time
        /\ last < Len(rows) => rows[last + 1].time # rows[from].time
  <2> HIDE DEF T
  <2> QED BY <1>4, <1>5
<1> QED BY <1>6 DEF BlockEnd, IsTimestep

\* The block holds the rows from first to the one before the provider's current row, and the
\* rows before the position were handed out.
Consecutive(first, n) == [i \in 1 .. n |-> first + i - 1]
BlockFrom(first) ==
  /\ first \in 1 .. nextRow - 1 /\ IsTimestep(rows, first, nextRow - 1)
  /\ block = Consecutive(first, nextRow - first)
  /\ position \in 1 .. nextRow - first
  /\ seen = Consecutive(1, first + position - 2)

\* Before the first block, in a block, and after the last one.
TimestepInv ==
  /\ rows \in ProviderRows /\ nextRow \in 1 .. Len(rows) + 1
  /\ \/ block = <<>> /\ seen = <<>> /\ position = 1 /\ nextRow = 1
     \/ \E first \in Nat : BlockFrom(first)
     \/ block = <<>> /\ position = 1 /\ nextRow = Len(rows) + 1 /\ seen = Consecutive(1, Len(rows))

LEMMA ConsecutiveFromOne ==
  ASSUME NEW k \in Nat
  PROVE  Len(Consecutive(1, k)) = k /\ Consecutive(1, k) = [i \in 1 .. k |-> i]
<1>1. \A i \in 1 .. k : 1 + i - 1 = i  OBVIOUS
<1> QED BY <1>1 DEF Consecutive

\* A block is read when all rows before it were handed out.
LEMMA ReadTimeblockKeeps ==
  ASSUME NEW from \in 1 .. Len(rows) + 1, rows \in ProviderRows, rows' = rows, ReadTimeblock(from), position' = 1,
         seen' = Consecutive(1, from - 1)
  PROVE  TimestepInv'
<1>1. rows \in Seq(ProviderRow) /\ Len(rows) \in Nat /\ from \in Nat  BY ProviderRowsAssumption DEF ProviderRow
<1>2. CASE from > Len(rows)
  <2>1. from = Len(rows) + 1 /\ from - 1 = Len(rows)  BY <1>1, <1>2
  <2>2. block' = <<>> /\ nextRow' = from  BY <1>2 DEF ReadTimeblock
  <2> QED BY <1>1, <2>1, <2>2 DEF TimestepInv, Consecutive
<1>3. CASE ~(from > Len(rows))
  <2> DEFINE end == BlockEnd(from)
  <2>1. from \in DOMAIN rows  BY <1>1, <1>3
  <2>2. end \in from .. Len(rows) /\ IsTimestep(rows, from, end)  BY <1>1, <2>1, BlockEndIsEnd
  <2>3. block' = Consecutive(from, end - from + 1) /\ nextRow' = end + 1  BY <1>3 DEF ReadTimeblock, Consecutive
  <2> HIDE DEF end
  <2>4. end \in Nat /\ end + 1 - from = end - from + 1 /\ end + 1 - 1 = end /\ from + 1 - 2 = from - 1
        /\ end + 1 \in 1 .. Len(rows) + 1 /\ from \in 1 .. end /\ 1 \in 1 .. end + 1 - from  BY <1>1, <2>2
  <2>5. BlockFrom(from)'  BY <2>2, <2>3, <2>4 DEF BlockFrom, IsTimestep, Consecutive
  <2> QED BY <1>1, <2>3, <2>4, <2>5 DEF TimestepInv
<1> QED BY <1>2, <1>3

\* The uvws of a block that has a place for every antenna do not enlarge it.
LEMMA BlockIsNotEnlarged ==
  ASSUME TimestepInv, HasEnoughRows(rows), NEW first \in Nat, BlockFrom(first)
  PROVE  GetUVWsForTimestep(block) = block
<1>1. rows \in Seq(ProviderRow) /\ Len(rows) \in Nat /\ nextRow \in 1 .. Len(rows) + 1
  BY ProviderRowsAssumption DEF ProviderRow, TimestepInv
<1> DEFINE n == nextRow - first
<1>2. n \in Nat /\ first \in DOMAIN rows /\ nextRow - 1 \in DOMAIN rows /\ first <= nextRow - 1
      /\ IsTimestep(rows, first, nextRow - 1) /\ nextRow - 1 - first + 1 = n  BY <1>1 DEF BlockFrom
<1>3. \A r \in first .. nextRow - 1 : rows[r].a1 = 0 => rows[r].a2 * 3 < n  BY <1>2 DEF HasEnoughRows
<1>4. Len(block) = n /\ \A i \in 1 .. n : block[i] = first + i - 1  BY <1>2 DEF BlockFrom, Consecutive
<1>5. ASSUME NEW i \in 1 .. n, IsFirstAntenna(block, i)
      PROVE  AntennaIndex(block, i) \in Nat /\ AntennaIndex(block, i) < n
  <2>1. block[i] \in first .. nextRow - 1 /\ block[i] # 0 /\ block[i] \in DOMAIN rows
    <3>1. first \in 1 .. nextRow - 1 /\ nextRow \in Nat  BY <1>1 DEF BlockFrom
    <3> QED BY <1>1, <1>4, <3>1
  <2>2. rows[block[i]].a1 = 0 /\ rows[block[i]].a2 \in Nat
    <3>1. rows[block[i]] \in ProviderRow  BY <1>1, <2>1
    <3>2. rows[block[i]].a2 \in Nat  BY <3>1 DEF ProviderRow
    <3>3. rows[block[i]].a1 = 0  BY <1>5, <2>1, Zenon DEF IsFirstAntenna
    <3> QED BY <3>2, <3>3
  <2> QED BY <1>3, <2>1, <2>2 DEF AntennaIndex
<1> DEFINE needed == {AntennaIndex(block, i) + 3 : i \in {j \in 1 .. Len(block) : IsFirstAntenna(block, j)}}
<1> HIDE DEF n
<1>6. ASSUME NEW size \in needed PROVE ~(size - 3 >= Len(block))
  <2>1. PICK i \in 1 .. n : IsFirstAntenna(block, i) /\ size = AntennaIndex(block, i) + 3  BY <1>4
  <2>2. \A x \in Nat : x < n => ~(x + 3 - 3 >= n)  BY <1>2
  <2>3. Len(block) = n  BY <1>4
  <2> QED BY <1>5, <2>1, <2>2, <2>3
<1> QED BY <1>6 DEF GetUVWsForTimestep

\* Handing out a row keeps the invariant, within a block and at its end.
LEMMA HandOutKeeps ==
  ASSUME TimestepInv, \A rs \in WithATerms : HasEnoughRows(rs), HandOut
  PROVE  TimestepInv'
<1>1. rows \in Seq(ProviderRow) /\ Len(rows) \in Nat /\ nextRow \in 1 .. Len(rows) + 1 /\ rows \in ProviderRows
  BY ProviderRowsAssumption DEF ProviderRow, TimestepInv
<1>2. PICK first \in Nat : BlockFrom(first)  BY DEF HandOut, BlockAvailable, TimestepInv
<1>3. rows \in WithATerms => GetUVWsForTimestep(block) = block  BY <1>2, BlockIsNotEnlarged
<1>4. /\ seen' = Append(seen, block[position]) /\ rows' = rows
      /\ \/ position = Len(block) /\ ReadTimeblock(nextRow) /\ position' = 1
         \/ position # Len(block) /\ block' = block /\ position' = position + 1 /\ nextRow' = nextRow
  BY <1>3 DEF HandOut
<1> DEFINE n == nextRow - first
<1>5. n \in Nat /\ position \in 1 .. n /\ first \in 1 .. nextRow - 1 /\ nextRow \in Nat /\ Len(block) = n
      /\ block[position] = first + position - 1  BY <1>1, <1>2 DEF BlockFrom, Consecutive
<1>6. seen' = Consecutive(1, first + position - 1)
  <2> DEFINE k == first + position - 2
  <2>1. k \in Nat /\ first + position - 1 = k + 1  BY <1>5
  <2>2. seen = [i \in 1 .. k |-> 1 + i - 1]  BY <1>2 DEF BlockFrom, Consecutive
  <2> HIDE DEF k
  <2>3. Append(seen, k + 1) = [i \in 1 .. k + 1 |-> 1 + i - 1]  BY <2>1, <2>2
  <2> QED BY <1>4, <1>5, <2>1, <2>3 DEF Consecutive
<1>7. CASE position = Len(block) /\ ReadTimeblock(nextRow) /\ position' = 1
  <2>1. first + position - 1 = nextRow - 1  BY <1>5, <1>7
  <2> QED BY <1>1, <1>4, <1>6, <1>7, <2>1, ReadTimeblockKeeps
<1>8. CASE position # Len(block) /\ block' = block /\ position' = position + 1 /\ nextRow' = nextRow
  <2>1. position + 1 \in 1 .. n /\ first + position - 1 = first + (position + 1) - 2  BY <1>5, <1>8
  <2>2. BlockFrom(first)'  BY <1>2, <1>4, <1>6, <1>8, <2>1 DEF BlockFrom, IsTimestep, Consecutive
  <2> QED BY <1>1, <1>4, <1>8, <2>2 DEF TimestepInv
<1> QED BY <1>4, <1>7, <1>8

\* When timesteps have as many rows as their antennas need, the rows that the gridder is given
\* are those of the provider below, in order, once each and without others, whatever sets
\* are read with a-terms (timestepbuffer.h, NextRow and readTimeblock).
THEOREM RowsAreHandedOutOnce ==
  ASSUME \A rs \in WithATerms : HasEnoughRows(rs)
  PROVE  TimestepSpec => []RowsHandedOutOnce
<1>1. TimestepInit => TimestepInv
  <2> SUFFICES ASSUME TimestepInit PROVE TimestepInv  OBVIOUS
  <2>1. Len(rows) \in Nat  BY ProviderRowsAssumption DEF TimestepInit
  <2> QED BY <2>1 DEF TimestepInit, TimestepInv
<1>2. TimestepInv /\ [TimestepNext]_timestepVars => TimestepInv'
  <2> SUFFICES ASSUME TimestepInv, [TimestepNext]_timestepVars PROVE TimestepInv'  OBVIOUS
  <2>1. CASE TimestepReset
    <3>1. rows \in ProviderRows /\ 1 \in 1 .. Len(rows) + 1  BY ProviderRowsAssumption DEF TimestepInv
    <3>2. position = 1  BY <2>1 DEF TimestepInv, TimestepReset, BlockAvailable, BlockFrom, Consecutive
    <3>3. seen' = Consecutive(1, 1 - 1)  BY <2>1 DEF TimestepReset, Consecutive
    <3> QED BY <2>1, <3>1, <3>2, <3>3, ReadTimeblockKeeps DEF TimestepReset
  <2>2. CASE HandOut  BY <2>2, HandOutKeeps
  <2>3. CASE UNCHANGED timestepVars  BY <2>3 DEF timestepVars, TimestepInv, BlockFrom, IsTimestep, Consecutive
  <2> QED BY <2>1, <2>2, <2>3 DEF TimestepNext
<1>3. TimestepInv => RowsHandedOutOnce
  <2> SUFFICES ASSUME TimestepInv PROVE RowsHandedOutOnce  OBVIOUS
  <2>1. Len(rows) \in Nat  BY ProviderRowsAssumption DEF TimestepInv
  <2>2. CASE block = <<>> /\ seen = <<>>  BY <2>2 DEF RowsHandedOutOnce, RowsOnce, AllRowsSeen
  <2>3. CASE \E first \in Nat : BlockFrom(first)
    <3>1. PICK first \in Nat : BlockFrom(first)  BY <2>3
    <3>2. nextRow \in Nat  BY <2>1 DEF TimestepInv
    <3>3. first + position - 2 \in Nat /\ nextRow - first \in Nat /\ nextRow - first # 0  BY <3>1, <3>2 DEF BlockFrom
    <3>4. RowsOnce  BY <3>1, <3>3, ConsecutiveFromOne DEF BlockFrom, RowsOnce
    <3>5. Len(block) # 0  BY <3>1, <3>3 DEF BlockFrom, Consecutive
    <3>6. BlockAvailable  BY <3>5, EmptySeq DEF BlockAvailable
    <3> QED BY <3>4, <3>6 DEF RowsHandedOutOnce, AllRowsSeen
  <2>4. CASE seen = Consecutive(1, Len(rows))
    BY <2>1, <2>4, ConsecutiveFromOne DEF RowsHandedOutOnce, RowsOnce, AllRowsSeen
  <2> QED BY <2>2, <2>3, <2>4 DEF TimestepInv
<1> QED BY <1>1, <1>2, <1>3, PTL DEF TimestepSpec

----
\* The phase centre (chgcentre), for any sets, calls and number of calls.
\* After every field, the uvw of a row is that of the direction that is
\* stored for its field, up to its sign, unless the options said
\* otherwise, and the phases of every column that was moved along are
\* those of the row's uvw and the shift that is stored.  The shift is one
\* for all fields, so that this needs sets of one field, or no shift.
Difference(r, d) ==
  Minus(measurementSet.uvws[d][SetRow(r).time][SetRow(r).antenna1],
        measurementSet.uvws[d][SetRow(r).time][SetRow(r).antenna2])
Negated(p) == Minus(<<0, 0, 0>>, p)
PhasesOf(r, coordinates, dlm) ==
  [ch \in DOMAIN Frequencies(r) |-> FringeOf(coordinates, dlm) * Frequencies(r)[ch]]
Directions == DOMAIN measurementSet.uvws

CentreTypes ==
  /\ measurementSet \in MeasurementSets /\ HasOneShift(measurementSet)
  /\ phaseDir \in Seq(Directions) /\ Len(phaseDir) = Len(measurementSet.phaseDir)
  /\ fieldIndex \in 0 .. Len(phaseDir)
  /\ fieldIndex # 0 => newDirection \in Directions /\ invocation \in measurementSet.calls
  /\ IsPoint(shift) /\ IsPoint(newShift)
  /\ ~IsShifted(measurementSet) => shift = NoShift /\ newShift = NoShift
RowMatches(r) ==
  /\ IsPlace(uvw[r])
  /\ "uvw" \in leftBehind \/ uvw[r] \in {Difference(r, phaseDir[SetRow(r).field]),
                                        Negated(Difference(r, phaseDir[SetRow(r).field]))}
  /\ \A c \in DOMAIN phases \ leftBehind : phases[c][r] = PhasesOf(r, uvw[r], shift)
CentreInv == CentreTypes /\ \A r \in Rows : RowMatches(r)

\* Uvws are places, and to negate them twice is to keep them.
LEMMA DifferenceIsPlace ==
  ASSUME measurementSet \in MeasurementSets, NEW r \in Rows, NEW d \in Directions
  PROVE  IsPlace(Difference(r, d)) /\ IsPlace(Negated(Difference(r, d)))
         /\ Negated(Negated(Difference(r, d))) = Difference(r, d)
<1> DEFINE row == measurementSet.rows[r]
           a == measurementSet.uvws[d][row.time][row.antenna1]
           b == measurementSet.uvws[d][row.time][row.antenna2]
<1>1. IsPlace(a) /\ IsPlace(b)  BY SetsAssumption DEF IsSet, Rows, Directions
<1>2. Difference(r, d) = [i \in {1, 2, 3} |-> a[i] - b[i]]  BY DEF Difference, Minus, SetRow
<1> HIDE DEF a, b
<1>3. IsPlace(Difference(r, d))  BY <1>1, <1>2 DEF IsPlace
<1>4. Negated(Difference(r, d)) = [i \in {1, 2, 3} |-> 0 - (a[i] - b[i])]  BY <1>2 DEF Negated, Minus
<1>5. IsPlace(Negated(Difference(r, d)))  BY <1>1, <1>4 DEF IsPlace
<1>6. Negated(Negated(Difference(r, d))) = [i \in {1, 2, 3} |-> 0 - (0 - (a[i] - b[i]))]  BY <1>4 DEF Negated, Minus
<1>7. \A i \in {1, 2, 3} : 0 - (0 - (a[i] - b[i])) = a[i] - b[i]  BY <1>1 DEF IsPlace
<1> QED BY <1>2, <1>3, <1>5, <1>6, <1>7

\* What the assumption on sets says of a row.
LEMMA RowsOfSet ==
  ASSUME CentreTypes, NEW r \in Rows
  PROVE  /\ IsSet(measurementSet) /\ SetRow(r).field \in DOMAIN phaseDir
         /\ phaseDir[SetRow(r).field] \in Directions
         /\ ZenithDirection(r) \in Directions
         /\ \A ch \in DOMAIN Frequencies(r) : Frequencies(r)[ch] \in Int
<1>1. IsSet(measurementSet)  BY SetsAssumption DEF CentreTypes
<1>2. SetRow(r).field \in DOMAIN measurementSet.phaseDir  BY <1>1 DEF IsSet, Rows, SetRow
<1>3. DOMAIN phaseDir = DOMAIN measurementSet.phaseDir
  <2>1. measurementSet.phaseDir \in Seq(Directions) /\ phaseDir \in Seq(Directions)
    BY <1>1 DEF IsSet, CentreTypes, Directions
  <2> QED BY <2>1 DEF CentreTypes
<1>4. phaseDir[SetRow(r).field] \in Directions  BY <1>2, <1>3 DEF CentreTypes
<1> QED BY <1>1, <1>2, <1>3, <1>4 DEF IsSet, Rows, SetRow, ZenithDirection, Frequencies, Directions

LEMMA MiddleRowOfSet ==
  ASSUME IsSet(measurementSet)
  PROVE  MiddleRow \in Rows
<1>1. measurementSet.rows \in Seq(Range(measurementSet.rows)) /\ measurementSet.rows # <<>>  BY DEF IsSet
<1>2. /\ Len(measurementSet.rows) \in Nat /\ Len(measurementSet.rows) # 0
      /\ Rows = 1 .. Len(measurementSet.rows)  BY <1>1, EmptySeq DEF Rows
<1>3. \A n \in Nat : n # 0 => n \div 2 + 1 \in 1 .. n  OBVIOUS
<1> QED BY <1>2, <1>3 DEF MiddleRow

\* A set starts with the uvws and phases of its directions.
LEMMA InitialCentre ==
  ASSUME \A m \in MeasurementSets : HasOneShift(m), PhaseCentreInit
  PROVE  CentreInv
<1> USE DEF PhaseCentreInit
<1>1. IsSet(measurementSet)  BY SetsAssumption
<1>2. CentreTypes
  <2>1. phaseDir \in Seq(Directions)  BY <1>1 DEF IsSet, Directions
  <2>2. IsPoint(NoShift)  BY DEF IsPoint, NoShift
  <2> QED BY <2>1, <2>2 DEF CentreTypes
<1>3. ASSUME NEW r \in Rows PROVE RowMatches(r)
  <2>1. phaseDir[SetRow(r).field] \in Directions  BY <1>2, RowsOfSet
  <2>2. uvw[r] = Difference(r, phaseDir[SetRow(r).field])  BY DEF Difference
  <2>3. IsPlace(uvw[r])  BY <2>1, <2>2, DifferenceIsPlace
  <2>4. \A c \in DOMAIN phases : phases[c][r] = PhasesOf(r, uvw[r], shift)  BY DEF PhasesOf
  <2> QED BY <2>2, <2>3, <2>4 DEF RowMatches
<1> QED BY <1>2, <1>3 DEF CentreInv

\* The choice of a direction: it is one for which uvws are known.
LEMMA BeginKeeps ==
  ASSUME CentreInv, NEW call \in measurementSet.calls, Begin(call)
  PROVE  CentreInv'
<1> USE DEF Begin
<1>1. CentreTypes /\ IsSet(measurementSet)  BY SetsAssumption DEF CentreInv, CentreTypes
<1>2. newDirection' \in Directions
  <2>1. MiddleRow \in Rows  BY <1>1, MiddleRowOfSet
  <2>2. ZenithDirection(MiddleRow) \in Directions  BY <1>1, <2>1, RowsOfSet
  <2>3. phaseDir[1] \in Directions
    <3>1. measurementSet.phaseDir \in Seq(Directions) /\ measurementSet.phaseDir # <<>>  BY <1>1 DEF IsSet, Directions
    <3>2. Len(measurementSet.phaseDir) \in Nat /\ Len(measurementSet.phaseDir) # 0  BY <3>1, EmptySeq
    <3> QED BY <1>1, <3>2 DEF CentreTypes
  <2>4. measurementSet.minw \in Directions /\ measurementSet.template.direction \in Directions
        /\ call.direction \in Directions  BY <1>1 DEF IsSet, Directions
  <2> QED BY <2>2, <2>3, <2>4
<1>3. IsPoint(newShift') /\ (~IsShifted(measurementSet) => newShift' = NoShift)
  <2>1. IsPoint(NoShift)  BY DEF IsPoint, NoShift
  <2>2. IsPoint(measurementSet.template.shift)  BY <1>1 DEF IsSet
  <2>3. "from-ms" \in call.options => IsShifted(measurementSet)  BY DEF IsShifted
  <2> QED BY <2>1, <2>2, <2>3
<1>4. Directions' = Directions /\ IsShifted(measurementSet)' = IsShifted(measurementSet)
      /\ HasOneShift(measurementSet)' = HasOneShift(measurementSet) /\ Rows' = Rows
  BY DEF Directions, HasOneShift, IsShifted, Rows
<1>5. fieldIndex' \in 0 .. Len(phaseDir)
  <2>1. measurementSet.phaseDir \in Seq(Directions) /\ measurementSet.phaseDir # <<>>  BY <1>1 DEF IsSet, Directions
  <2>2. Len(measurementSet.phaseDir) \in Nat /\ Len(measurementSet.phaseDir) # 0  BY <2>1, EmptySeq
  <2> QED BY <1>1, <2>2 DEF CentreTypes
<1>6. CentreTypes'  BY <1>1, <1>2, <1>3, <1>4, <1>5 DEF CentreTypes, IsPoint
<1>7. ASSUME NEW r \in Rows PROVE RowMatches(r)'
  <2>1. RowMatches(r)  BY DEF CentreInv
  <2>2. UNCHANGED <<measurementSet, uvw, phases, phaseDir, shift, leftBehind>>  OBVIOUS
  <2> QED BY <2>1, <2>2 DEF RowMatches, IsPlace, Difference, Negated, Minus, SetRow, PhasesOf, FringeOf, Frequencies
<1> QED BY <1>4, <1>6, <1>7 DEF CentreInv

\* The rows of the field are moved to a direction, and all of them that are not rotated along
\* are left behind.
LEMMA MovedRowMatches ==
  ASSUME NEW r, CentreTypes, r \in Rows, RowMatches(r), measurementSet' = measurementSet,
         fieldIndex # 0, NEW new, new \in Directions, NEW dlm, IsPoint(dlm),
         SetRow(r).field = fieldIndex, phaseDir'[fieldIndex] = new \/ "uvw" \in leftBehind',
         uvw'[r] = calculateUVW(r, new), shift' = dlm, DOMAIN phases' = DOMAIN phases,
         leftBehind \subseteq leftBehind', DOMAIN phases \ ColumnsToRotate \subseteq leftBehind',
         \A c \in DOMAIN phases : c \in ColumnsToRotate =>
            phases'[c][r] = rotateVisibilities(r, phases[c][r], FringeOf(uvw'[r], dlm) - FringeOf(uvw[r], shift))
  PROVE  RowMatches(r)'
<1>1. calculateUVW(r, new) \in {Difference(r, new), Negated(Difference(r, new))}
  BY DEF calculateUVW, Difference, Negated
<1>2. IsPlace(uvw'[r])  BY <1>1, DifferenceIsPlace DEF CentreTypes
<1>3. SetRow(r)' = SetRow(r) /\ \A d : Difference(r, d)' = Difference(r, d)  BY DEF SetRow, Difference
<1>4. "uvw" \in leftBehind' \/ uvw'[r] \in {Difference(r, phaseDir'[SetRow(r).field]),
                                             Negated(Difference(r, phaseDir'[SetRow(r).field]))}  BY <1>1
<1>5. ASSUME NEW c \in DOMAIN phases' \ leftBehind' PROVE phases'[c][r] = PhasesOf(r, uvw'[r], dlm)
  <2> DEFINE f == Frequencies(r)
             old == FringeOf(uvw[r], shift)
             fringe == FringeOf(uvw'[r], dlm)
  <2>1. c \in DOMAIN phases \ leftBehind /\ c \in ColumnsToRotate  BY <1>5
  <2>2. phases[c][r] = [ch \in DOMAIN f |-> old * f[ch]]  BY <2>1 DEF RowMatches, PhasesOf
  <2>3. phases'[c][r] = rotateVisibilities(r, phases[c][r], fringe - old)  BY <2>1
  <2>4. phases'[c][r] = [ch \in DOMAIN f |-> old * f[ch] + (fringe - old) * f[ch]]
    <3> HIDE DEF old, fringe
    <3> QED BY <2>2, <2>3 DEF rotateVisibilities
  <2>5. \A ch \in DOMAIN f : f[ch] \in Int  BY RowsOfSet
  <2>6. old \in Int /\ fringe \in Int
    <3>1. IsPlace(uvw[r]) /\ IsPoint(shift)  BY DEF RowMatches, CentreTypes
    <3> QED BY <1>2, <3>1 DEF FringeOf, IsPlace, IsPoint
  <2>7. \A x, y, z \in Int : x * z + (y - x) * z = y * z  OBVIOUS
  <2> HIDE DEF old, fringe, f
  <2>8. phases'[c][r] = [ch \in DOMAIN f |-> fringe * f[ch]]  BY <2>4, <2>5, <2>6, <2>7
  <2> QED BY <2>8 DEF PhasesOf, f, fringe
<1>6. \A c \in DOMAIN phases' \ leftBehind' : phases'[c][r] = PhasesOf(r, uvw'[r], shift')  BY <1>5
<1>7. \A c : PhasesOf(r, uvw[r], shift)' = PhasesOf(r, uvw'[r], shift')  BY <1>3 DEF PhasesOf, Frequencies, FringeOf
<1>8. RowMatches(r)' = (/\ IsPlace(uvw'[r])
                        /\ "uvw" \in leftBehind' \/ uvw'[r] \in {Difference(r, phaseDir'[SetRow(r).field]),
                                             Negated(Difference(r, phaseDir'[SetRow(r).field]))}
                        /\ \A c \in DOMAIN phases' \ leftBehind' : phases'[c][r] = PhasesOf(r, uvw'[r], shift'))
  BY <1>3 DEF RowMatches, IsPlace, PhasesOf, Frequencies, FringeOf, Difference, Negated, Minus, SetRow
<1> QED BY <1>2, <1>4, <1>6, <1>8

\* A row of another field keeps its place, and there is no shift, as there are several fields.
LEMMA OtherRowMatches ==
  ASSUME NEW r, r \in Rows, RowMatches(r), measurementSet' = measurementSet,
         phaseDir'[SetRow(r).field] = phaseDir[SetRow(r).field], shift' = shift,
         uvw'[r] = uvw[r], leftBehind \subseteq leftBehind', DOMAIN phases' = DOMAIN phases,
         \A c \in DOMAIN phases : phases'[c][r] = phases[c][r]
  PROVE  RowMatches(r)'
<1>1. RowMatches(r)' = (/\ IsPlace(uvw'[r])
                        /\ "uvw" \in leftBehind' \/ uvw'[r] \in {Difference(r, phaseDir'[SetRow(r).field]),
                                             Negated(Difference(r, phaseDir'[SetRow(r).field]))}
                        /\ \A c \in DOMAIN phases' \ leftBehind' : phases'[c][r] = PhasesOf(r, uvw'[r], shift'))
  BY DEF RowMatches, IsPlace, PhasesOf, Frequencies, FringeOf, Difference, Negated, Minus, SetRow
<1> QED BY <1>1 DEF RowMatches

LEMMA NextFieldInRange ==
  ASSUME CentreTypes, fieldIndex # 0, NextField
  PROVE  fieldIndex' \in 0 .. Len(phaseDir) /\ fieldIndex \in 1 .. Len(phaseDir)
<1>1. Len(phaseDir) \in Nat  BY DEF CentreTypes
<1> QED BY <1>1 DEF CentreTypes, NextField

\* Only the direction and the shift change.
LEMMA TypesAfterMove ==
  ASSUME CentreTypes, fieldIndex # 0, NextField,
         UNCHANGED <<measurementSet, invocation, newDirection, newShift>>,
         NEW new, new \in Directions, phaseDir' \in {phaseDir, [phaseDir EXCEPT ![fieldIndex] = new]},
         IsPoint(shift'), ~IsShifted(measurementSet) => shift' = NoShift
  PROVE  CentreTypes'
<1>1. fieldIndex' \in 0 .. Len(phaseDir) /\ fieldIndex \in 1 .. Len(phaseDir)  BY NextFieldInRange
<1>2. phaseDir' \in Seq(Directions) /\ Len(phaseDir') = Len(phaseDir)  BY <1>1, ExceptSeq DEF CentreTypes
<1>3. Directions' = Directions /\ IsShifted(measurementSet)' = IsShifted(measurementSet)
      /\ HasOneShift(measurementSet)' = HasOneShift(measurementSet)  BY DEF Directions, HasOneShift, IsShifted
<1>4. IsPoint(newShift)' /\ IsPoint(shift)'  BY DEF CentreTypes, IsPoint
<1> QED BY <1>1, <1>2, <1>3, <1>4 DEF CentreTypes

\* A field that is shown, or that has the direction already.
LEMMA UnmovedFieldKeeps ==
  ASSUME CentreInv, fieldIndex # 0, NextField,
         UNCHANGED <<measurementSet, phaseDir, shift, uvw, phases, invocation, newDirection, newShift, leftBehind>>
  PROVE  CentreInv'
<1>1. CentreTypes /\ newDirection \in Directions /\ IsPoint(shift)
      /\ (~IsShifted(measurementSet) => shift = NoShift)  BY DEF CentreInv, CentreTypes
<1>2. IsPoint(shift')  BY <1>1 DEF IsPoint
<1>3. CentreTypes'  BY <1>1, <1>2, TypesAfterMove
<1>4. Rows' = Rows  BY DEF Rows
<1>5. ASSUME NEW r \in Rows PROVE RowMatches(r)'  BY OtherRowMatches DEF CentreInv
<1> QED BY <1>3, <1>4, <1>5 DEF CentreInv

\* A field that is moved: its rows are rotated from the old to the new shift, and rows of
\* other fields are only there when there is no shift.
LEMMA ProcessFieldKeeps ==
  ASSUME CentreInv, processField
  PROVE  CentreInv'
<1> DEFINE dlm == IF Has("shiftback") THEN RaDecToLM(phaseDir[fieldIndex], newDirection) ELSE newShift
<1>1. /\ CentreTypes /\ IsSet(measurementSet) /\ fieldIndex # 0 /\ NextField /\ newDirection \in Directions
      /\ invocation \in measurementSet.calls
      /\ UNCHANGED <<measurementSet, invocation, newDirection, newShift>>
  BY SetsAssumption DEF CentreInv, CentreTypes, processField
<1>2. fieldIndex \in 1 .. Len(phaseDir) /\ phaseDir \in Seq(Directions)  BY <1>1, NextFieldInRange DEF CentreTypes
<1>3. IsPoint(dlm)
  <2>1. IsPoint(phaseDir[fieldIndex]) /\ IsPoint(newDirection) /\ IsPoint(newShift)
    <3>1. phaseDir[fieldIndex] \in Directions  BY <1>2
    <3>2. \A d \in Directions : IsPoint(d)  BY <1>1 DEF IsSet, Directions
    <3> QED BY <1>1, <3>1, <3>2 DEF CentreTypes
  <2> QED BY <2>1 DEF IsPoint, RaDecToLM
<1>4. ~IsShifted(measurementSet) => dlm = NoShift /\ shift = NoShift  BY <1>1 DEF IsShifted, Has, CentreTypes
<1> DEFINE ofField == {r \in Rows : SetRow(r).field = fieldIndex}
<1> DEFINE moved ==
      /\ uvw' = [r \in Rows |-> IF r \in ofField THEN calculateUVW(r, newDirection) ELSE uvw[r]]
      /\ phases' = [c \in DOMAIN phases |-> [r \in Rows |->
           IF r \in ofField /\ c \in ColumnsToRotate
           THEN rotateVisibilities(r, phases[c][r],
                  FringeOf(calculateUVW(r, newDirection), dlm) - FringeOf(uvw[r], shift))
           ELSE phases[c][r]]]
      /\ leftBehind' = leftBehind \cup (DOMAIN phases \ ColumnsToRotate)
                         \cup (IF Has("geozenith") THEN {"uvw"} ELSE {})
<1>5. \/ UNCHANGED <<phaseDir, shift, uvw, phases, leftBehind>>
      \/ moved /\ phaseDir' = [phaseDir EXCEPT ![fieldIndex] = newDirection] /\ shift' = dlm
  BY DEF processField, MoveRows, ShiftFactor
<1>6. CASE UNCHANGED <<phaseDir, shift, uvw, phases, leftBehind>>  BY <1>1, <1>6, UnmovedFieldKeeps
<1>7. CASE moved /\ phaseDir' = [phaseDir EXCEPT ![fieldIndex] = newDirection] /\ shift' = dlm
  <2>1. CentreTypes'
    <3> HIDE DEF dlm, moved
    <3>1. IsPoint(shift')  BY <1>3, <1>7 DEF IsPoint
    <3> QED BY <1>1, <1>4, <1>7, <3>1, TypesAfterMove
  <2>2. Rows' = Rows  BY <1>1 DEF Rows
  <2>3. ASSUME NEW r \in Rows PROVE RowMatches(r)'
    <3>1. RowMatches(r) /\ SetRow(r).field \in DOMAIN phaseDir  BY <1>1, RowsOfSet DEF CentreInv
    <3>2. /\ leftBehind \subseteq leftBehind' /\ DOMAIN phases \ ColumnsToRotate \subseteq leftBehind'
          /\ DOMAIN phases' = DOMAIN phases  BY <1>7
    <3>3. CASE SetRow(r).field = fieldIndex
      <4>1. uvw'[r] = calculateUVW(r, newDirection)  BY <1>7, <3>3
      <4>2. \A c \in DOMAIN phases : c \in ColumnsToRotate =>
              phases'[c][r] = rotateVisibilities(r, phases[c][r], FringeOf(uvw'[r], dlm) - FringeOf(uvw[r], shift))
        BY <1>7, <3>3, <4>1
      <4>3. phaseDir'[fieldIndex] = newDirection  BY <1>2, <1>7
      <4> HIDE DEF dlm, moved
      <4> QED BY <1>1, <1>3, <1>7, <3>1, <3>2, <3>3, <4>1, <4>2, <4>3, MovedRowMatches
    <3>4. CASE SetRow(r).field # fieldIndex
      <4>1. uvw'[r] = uvw[r] /\ \A c \in DOMAIN phases : phases'[c][r] = phases[c][r]  BY <1>7, <3>4
      <4>2. phaseDir'[SetRow(r).field] = phaseDir[SetRow(r).field]  BY <1>2, <1>7, <3>1, <3>4
      <4>3. ~IsShifted(measurementSet)
        <5>1. DOMAIN phaseDir = 1 .. Len(phaseDir) /\ Len(phaseDir) = Len(measurementSet.phaseDir)
          BY <1>1, <1>2 DEF CentreTypes
        <5>2. IsShifted(measurementSet) => Len(measurementSet.phaseDir) = 1  BY <1>1 DEF HasOneShift, CentreTypes
        <5>3. SetRow(r).field \in 1 .. Len(phaseDir) /\ Len(phaseDir) \in Nat  BY <1>2, <3>1, <5>1
        <5> HIDE DEF dlm, moved, ofField
        <5>4. \A n \in Nat : \A i, j \in 1 .. n : i # j => n # 1  OBVIOUS
        <5>5. Len(phaseDir) # 1  BY <1>2, <3>4, <5>3, <5>4
        <5> QED BY <5>1, <5>2, <5>5
      <4> HIDE DEF dlm, moved
      <4>4. shift' = shift  BY <1>4, <1>7, <4>3
      <4> QED BY <1>1, <3>1, <3>2, <4>1, <4>2, <4>4, OtherRowMatches
    <3> QED BY <3>3, <3>4
  <2> QED BY <2>1, <2>2, <2>3 DEF CentreInv
<1> HIDE DEF dlm, moved
<1> QED BY <1>5, <1>6, <1>7

\* Every row is moved to the zenith of its time, so that the set is not standard any more.
LEMMA GeoZenithKeeps ==
  ASSUME CentreInv, rotateToGeoZenith
  PROVE  CentreInv'
<1>1. /\ CentreTypes /\ IsSet(measurementSet) /\ fieldIndex # 0 /\ NextField /\ Has("geozenith")
      /\ invocation \in measurementSet.calls
      /\ UNCHANGED <<measurementSet, invocation, newDirection, newShift, shift>>
  BY SetsAssumption DEF CentreInv, CentreTypes, rotateToGeoZenith
<1>2. fieldIndex \in 1 .. Len(phaseDir) /\ phaseDir \in Seq(Directions)  BY <1>1, NextFieldInRange DEF CentreTypes
<1>3. ~IsShifted(measurementSet) /\ shift = NoShift  BY <1>1 DEF HasOneShift, Has, CentreTypes
<1>4. IsPoint(shift)  BY <1>1 DEF CentreTypes
<1> DEFINE ofField == {r \in Rows : SetRow(r).field = fieldIndex}
<1>5. /\ uvw' = [r \in Rows |-> IF r \in ofField THEN calculateUVW(r, ZenithDirection(r)) ELSE uvw[r]]
      /\ phases' = [c \in DOMAIN phases |-> [r \in Rows |->
           IF r \in ofField /\ c \in ColumnsToRotate
           THEN rotateVisibilities(r, phases[c][r],
                  FringeOf(calculateUVW(r, ZenithDirection(r)), NoShift) - FringeOf(uvw[r], NoShift))
           ELSE phases[c][r]]]
      /\ leftBehind' = leftBehind \cup (DOMAIN phases \ ColumnsToRotate)
                         \cup (IF Has("geozenith") THEN {"uvw"} ELSE {})
      /\ phaseDir' = [phaseDir EXCEPT ![fieldIndex] = ZenithDirection(MiddleRow)]  BY DEF rotateToGeoZenith, MoveRows
<1>6. ZenithDirection(MiddleRow) \in Directions  BY <1>1, MiddleRowOfSet, RowsOfSet
<1>7. CentreTypes'
  <2>1. IsPoint(shift')  BY <1>1, <1>4 DEF IsPoint
  <2>2. ~IsShifted(measurementSet) => shift' = NoShift  BY <1>1, <1>3
  <2> QED BY <1>1, <1>5, <1>6, <2>1, <2>2, TypesAfterMove
<1>8. Rows' = Rows  BY <1>1 DEF Rows
<1>9. ASSUME NEW r \in Rows PROVE RowMatches(r)'
  <2>1. RowMatches(r) /\ SetRow(r).field \in DOMAIN phaseDir /\ ZenithDirection(r) \in Directions
    BY <1>1, RowsOfSet DEF CentreInv
  <2>2. /\ leftBehind \subseteq leftBehind' /\ DOMAIN phases \ ColumnsToRotate \subseteq leftBehind'
        /\ DOMAIN phases' = DOMAIN phases /\ "uvw" \in leftBehind'  BY <1>1, <1>5
  <2>3. CASE SetRow(r).field = fieldIndex
    <3>1. uvw'[r] = calculateUVW(r, ZenithDirection(r))  BY <1>5, <2>3
    <3>2. \A c \in DOMAIN phases : c \in ColumnsToRotate =>
            phases'[c][r] = rotateVisibilities(r, phases[c][r], FringeOf(uvw'[r], shift) - FringeOf(uvw[r], shift))
      BY <1>3, <1>5, <2>3, <3>1
    <3> HIDE DEF ofField
    <3> QED BY <1>1, <1>4, <2>1, <2>2, <2>3, <3>1, <3>2, MovedRowMatches
  <2>4. CASE SetRow(r).field # fieldIndex
    <3>1. uvw'[r] = uvw[r] /\ \A c \in DOMAIN phases : phases'[c][r] = phases[c][r]  BY <1>5, <2>4
    <3>2. phaseDir'[SetRow(r).field] = phaseDir[SetRow(r).field]  BY <1>2, <1>5, <2>1, <2>4
    <3> QED BY <1>1, <2>1, <2>2, <3>1, <3>2, OtherRowMatches
  <2> QED BY <2>3, <2>4
<1> QED BY <1>7, <1>8, <1>9 DEF CentreInv

LEMMA CentreStepKeeps ==
  ASSUME CentreInv, [PhaseCentreNext]_phaseCentreVars
  PROVE  CentreInv'
<1>1. CASE \E call \in measurementSet.calls : Begin(call)  BY <1>1, BeginKeeps
<1>2. CASE processField  BY <1>2, ProcessFieldKeeps
<1>3. CASE rotateToGeoZenith  BY <1>3, GeoZenithKeeps
<1>4. CASE showChanges  BY <1>4, UnmovedFieldKeeps DEF showChanges
<1>5. CASE UNCHANGED phaseCentreVars
  <2>1. \A r : RowMatches(r)' = RowMatches(r)
    BY <1>5 DEF phaseCentreVars, RowMatches, IsPlace, PhasesOf, Frequencies, FringeOf, Difference, Negated, Minus, SetRow
  <2>2. CentreTypes' = CentreTypes /\ Rows' = Rows
    BY <1>5 DEF phaseCentreVars, CentreTypes, Directions, IsPoint, HasOneShift, IsShifted, Rows
  <2> QED BY <2>1, <2>2 DEF CentreInv
<1> QED BY <1>1, <1>2, <1>3, <1>4, <1>5 DEF PhaseCentreNext

\* Options of a later call may flip the sign of uvws.
LEMMA CentreInvSuffices == CentreInv => VisibilitiesMatchCentre
<1> SUFFICES ASSUME CentreInv, NEW r \in Rows
             PROVE  /\ \/ "uvw" \in leftBehind
                       \/ calculateUVW(r, phaseDir[SetRow(r).field]) \in {uvw[r], Minus(<<0, 0, 0>>, uvw[r])}
                    /\ \A c \in DOMAIN phases \ leftBehind :
                         phases[c][r] = [ch \in DOMAIN Frequencies(r) |-> FringeOf(uvw[r], shift) * Frequencies(r)[ch]]
  BY DEF VisibilitiesMatchCentre, GetPhaseCentreInfo
<1> DEFINE d == phaseDir[SetRow(r).field]
<1>1. CentreTypes /\ RowMatches(r) /\ d \in Directions  BY RowsOfSet DEF CentreInv
<1>2. calculateUVW(r, d) \in {Difference(r, d), Negated(Difference(r, d))}  BY DEF calculateUVW, Difference, Negated
<1>3. Negated(Negated(Difference(r, d))) = Difference(r, d)  BY <1>1, DifferenceIsPlace DEF CentreTypes
<1>4. "uvw" \in leftBehind \/ uvw[r] \in {Difference(r, d), Negated(Difference(r, d))}  BY <1>1 DEF RowMatches
<1>5. "uvw" \in leftBehind \/ calculateUVW(r, d) \in {uvw[r], Negated(uvw[r])}  BY <1>2, <1>3, <1>4
<1> QED BY <1>1, <1>5 DEF RowMatches, PhasesOf, Negated

\* Whatever calls are made on a set, moving its centre back and forth, with any options and
\* shifts, its uvws and phases belong to the direction and shift that are stored with it
\* (chgcentre/main.cpp, processField and rotateToGeoZenith).
THEOREM CentreIsKept ==
  ASSUME \A m \in MeasurementSets : HasOneShift(m)
  PROVE  PhaseCentreSpec => []VisibilitiesMatchCentre
<1>1. PhaseCentreInit => CentreInv  BY InitialCentre
<1>2. CentreInv /\ [PhaseCentreNext]_phaseCentreVars => CentreInv'  BY CentreStepKeeps
<1>3. CentreInv => VisibilitiesMatchCentre  BY CentreInvSuffices
<1> QED BY <1>1, <1>2, <1>3, PTL DEF PhaseCentreSpec

----
\* Vectors (uvector_11.h), for any values and sizes.  The invariant adds
\* to what is stated that cells behind the last element count as never
\* set, which is what they become when a vector grows into them.
Element == NewValues \cup {Uninitialized}

\* The first cells are the elements e.
StartsWith(cells, e) ==
  /\ cells \in Seq(Element) /\ e \in Seq(Element) /\ Len(e) <= Len(cells)
  /\ \A i \in 1 .. Len(e) : cells[i] = e[i]

VectorOK(x, e) ==
  /\ x \in [cells : Seq(Element), size : Nat]
  /\ StartsWith(x.cells, e) /\ x.size = Len(e)
  /\ \A i \in Len(e) + 1 .. Len(x.cells) : x.cells[i] = Uninitialized

VectorsOK ==
  /\ vectors \in [Vectors -> [cells : Seq(Element), size : Nat]]
  /\ elements \in [Vectors -> Seq(Element)]
  /\ \A v \in Vectors : VectorOK(vectors[v], elements[v])

LEMMA FunctionIsSequence ==
  ASSUME NEW S, NEW n \in Nat, NEW f \in [1 .. n -> S]
  PROVE  f \in Seq(S) /\ Len(f) = n /\ DOMAIN f = 1 .. n  OBVIOUS

LEMMA NothingFacts ==
  ASSUME NEW n \in Nat
  PROVE  Nothing(n) \in Seq(Element) /\ Len(Nothing(n)) = n /\ \A i \in 1 .. n : Nothing(n)[i] = Uninitialized
<1>1. Nothing(n) \in [1 .. n -> Element] /\ \A i \in 1 .. n : Nothing(n)[i] = Uninitialized  BY DEF Nothing, Element
<1> QED BY <1>1, FunctionIsSequence

LEMMA StoreFacts ==
  ASSUME NEW cells \in Seq(Element), NEW values \in Seq(Element), NEW at \in Nat
  PROVE  /\ Store(cells, at, values) \in Seq(Element) /\ Len(Store(cells, at, values)) = Len(cells)
         /\ \A i \in 1 .. Len(cells) :
              Store(cells, at, values)[i] = IF i - at \in 1 .. Len(values) THEN values[i - at] ELSE cells[i]
<1>1. Len(cells) \in Nat /\ DOMAIN cells = 1 .. Len(cells) /\ DOMAIN values = 1 .. Len(values)  BY LenProperties
<1>2. \A i \in 1 .. Len(cells) :
        Store(cells, at, values)[i] = IF i - at \in 1 .. Len(values) THEN values[i - at] ELSE cells[i]
  BY <1>1 DEF Store
<1>3. \A i \in 1 .. Len(cells) : Store(cells, at, values)[i] \in Element  BY <1>2, ElementOfSeq
<1>4. Store(cells, at, values) = [i \in 1 .. Len(cells) |-> Store(cells, at, values)[i]]  BY <1>1 DEF Store
<1>5. Store(cells, at, values) \in [1 .. Len(cells) -> Element]
  <2> HIDE DEF Store
  <2> QED BY <1>3, <1>4
<1> QED BY <1>1, <1>2, <1>5, FunctionIsSequence

LEMMA AllocatedFacts ==
  ASSUME NEW n \in Nat, NEW values \in Seq(Element), Len(values) <= n
  PROVE  /\ StartsWith(Allocated(n, values), values) /\ Len(Allocated(n, values)) = n
         /\ \A i \in Len(values) + 1 .. n : Allocated(n, values)[i] = Uninitialized
<1>1. Len(values) \in Nat  BY LenProperties
<1>2. /\ Allocated(n, values) \in Seq(Element) /\ Len(Allocated(n, values)) = n
      /\ \A i \in 1 .. n :
           Allocated(n, values)[i] = IF i - 0 \in 1 .. Len(values) THEN values[i - 0] ELSE Uninitialized
  <2> DEFINE none == Nothing(n)
  <2>1. none \in Seq(Element) /\ Len(none) = n /\ \A i \in 1 .. n : none[i] = Uninitialized  BY NothingFacts
  <2>2. Allocated(n, values) = Store(none, 0, values)  BY DEF Allocated
  <2> HIDE DEF none
  <2>3. /\ Store(none, 0, values) \in Seq(Element) /\ Len(Store(none, 0, values)) = n
        /\ \A i \in 1 .. n :
             Store(none, 0, values)[i] = IF i - 0 \in 1 .. Len(values) THEN values[i - 0] ELSE none[i]
    BY <2>1, StoreFacts
  <2> QED BY <2>1, <2>2, <2>3
<1> QED BY <1>1, <1>2 DEF StartsWith

\* A vector whose first cells are e is one with the elements e.
LEMMA VectorFacts ==
  ASSUME NEW cells, NEW e, StartsWith(cells, e)
  PROVE  VectorOK(Vector(cells, Len(e)), e) /\ CapacityOf(Vector(cells, Len(e))) = Len(cells)
<1> DEFINE kept == [i \in DOMAIN cells |-> IF i <= Len(e) THEN cells[i] ELSE Uninitialized]
<1>1. /\ Len(cells) \in Nat /\ DOMAIN cells = 1 .. Len(cells) /\ Len(e) \in Nat /\ Len(e) <= Len(cells)
      /\ cells \in Seq(Element) /\ e \in Seq(Element)  BY LenProperties DEF StartsWith
<1>2. \A i \in 1 .. Len(cells) : cells[i] \in Element  BY <1>1, ElementOfSeq
<1>3. kept \in [1 .. Len(cells) -> Element]  BY <1>1, <1>2 DEF Element
<1>4. kept \in Seq(Element) /\ Len(kept) = Len(cells)
  <2> HIDE DEF kept
  <2> QED BY <1>1, <1>3, FunctionIsSequence
<1>5. /\ \A i \in 1 .. Len(e) : kept[i] = e[i]
      /\ \A i \in Len(e) + 1 .. Len(cells) : kept[i] = Uninitialized  BY <1>1 DEF StartsWith
<1>6. Vector(cells, Len(e)) = [cells |-> kept, size |-> Len(e)]  BY DEF Vector
<1> HIDE DEF kept
<1> QED BY <1>1, <1>4, <1>5, <1>6 DEF VectorOK, StartsWith, CapacityOf

\* What is known of a vector.
LEMMA KnownVector ==
  ASSUME VectorsOK, NEW v \in Vectors
  PROVE  /\ vectors[v].cells \in Seq(Element) /\ elements[v] \in Seq(Element)
         /\ Len(vectors[v].cells) \in Nat /\ Len(elements[v]) \in Nat
         /\ CapacityOf(vectors[v]) = Len(vectors[v].cells)
         /\ Size(v) = Len(elements[v]) /\ vectors[v].size = Len(elements[v]) /\ Len(elements[v]) <= Len(vectors[v].cells)
         /\ StartsWith(vectors[v].cells, elements[v])
         /\ \A i \in Len(elements[v]) + 1 .. Len(vectors[v].cells) : vectors[v].cells[i] = Uninitialized
         /\ Contents(vectors[v]) = elements[v]
<1>1. VectorOK(vectors[v], elements[v])  BY DEF VectorsOK
<1> DEFINE x == vectors[v]
           e == elements[v]
<1>2. /\ x.cells \in Seq(Element) /\ e \in Seq(Element) /\ Len(e) <= Len(x.cells) /\ x.size = Len(e)
      /\ \A i \in 1 .. Len(e) : x.cells[i] = e[i]  BY <1>1 DEF VectorOK, StartsWith
<1>3. Len(x.cells) \in Nat /\ Len(e) \in Nat  BY <1>2, LenProperties
<1>4. SubSeq(x.cells, 1, Len(e)) = e
  <2> DEFINE c == x.cells
             s == SubSeq(c, 1, Len(e))
  <2>1. \A i \in 1 .. Len(e) : c[i] \in Element  BY <1>2, <1>3, ElementOfSeq
  <2> HIDE DEF c
  <2>2. s \in Seq(Element) /\ Len(s) = IF 1 <= Len(e) THEN Len(e) - 1 + 1 ELSE 0  BY <1>3, <2>1, SubSeqProperties
  <2>3. \A i \in 1 .. Len(e) - 1 + 1 : s[i] = c[1 + i - 1]  BY <1>3, <2>1, SubSeqProperties
  <2>4. Len(s) = Len(e) /\ \A i \in 1 .. Len(e) : s[i] = c[i]
    <3> HIDE DEF s
    <3> QED BY <1>3, <2>2, <2>3
  <2>5. \A i \in 1 .. Len(e) : s[i] = e[i]  BY <1>2, <2>4 DEF c
  <2> HIDE DEF s
  <2>6. s = e  BY <1>2, <2>2, <2>4, <2>5, SeqEqual
  <2> QED BY <2>6 DEF s, c
<1> QED BY <1>1, <1>2, <1>3, <1>4 DEF VectorOK, CapacityOf, Size, Contents

\* An operation that gives a vector cells that start with its elements keeps the invariant.
LEMMA SetKeepsVectors ==
  ASSUME VectorsOK, NEW v \in Vectors, NEW cells, NEW e, StartsWith(cells, e), NEW n, n = Len(e),
         Set(v, Vector(cells, n), e)
  PROVE  VectorsOK'
<1>1. VectorOK(Vector(cells, n), e)  BY VectorFacts
<1>2. Vector(cells, n) \in [cells : Seq(Element), size : Nat] /\ e \in Seq(Element)  BY <1>1 DEF VectorOK, StartsWith
<1> QED BY <1>1, <1>2 DEF VectorsOK, Set, VectorOK

----
(* Moving elements within a vector *)

\* That moved[k] are the cells after k elements have been moved.
MovesInOrder(moved, cells, first, dest, order) ==
  moved = [k \in 0 .. Len(order) |->
             IF k = 0 THEN cells
             ELSE [moved[k - 1] EXCEPT ![dest + order[k]] = moved[k - 1][first + order[k]]]]

\* There is one such function: two of them would differ first at some element.
LEMMA OneMove ==
  ASSUME NEW cells, NEW first, NEW dest, NEW order, Len(order) \in Nat, NEW f, NEW g,
         MovesInOrder(f, cells, first, dest, order), MovesInOrder(g, cells, first, dest, order)
  PROVE  f = g
<1> DEFINE Steps == 0 .. Len(order)
           Differ == {k \in Steps : f[k] # g[k]}
<1>1. \A k \in Steps :
        /\ f[k] = IF k = 0 THEN cells ELSE [f[k - 1] EXCEPT ![dest + order[k]] = f[k - 1][first + order[k]]]
        /\ g[k] = IF k = 0 THEN cells ELSE [g[k - 1] EXCEPT ![dest + order[k]] = g[k - 1][first + order[k]]]
  BY DEF MovesInOrder
<1>2. f = [k \in Steps |-> f[k]] /\ g = [k \in Steps |-> g[k]]  BY DEF MovesInOrder
<1>3. Differ = {}
  <2> SUFFICES ASSUME Differ # {} PROVE FALSE  OBVIOUS
  <2>1. Differ \subseteq Nat  OBVIOUS
  <2> HIDE DEF Differ
  <2>2. PICK k \in Differ : \A m \in Differ : k <= m  BY <2>1, LeastElement
  <2>3. k \in Steps /\ f[k] # g[k]  BY <2>2 DEF Differ
  <2>4. k # 0  BY <1>1, <2>3
  <2>5. k - 1 \in Steps /\ ~(k <= k - 1)  BY <2>3, <2>4
  <2>6. f[k - 1] = g[k - 1]  BY <2>2, <2>5 DEF Differ
  <2> QED BY <1>1, <2>3, <2>4, <2>6
<1> QED BY <1>2, <1>3

LEMMA MoveIsLast ==
  ASSUME NEW cells, NEW first, NEW dest, NEW order, Len(order) \in Nat, NEW f,
         MovesInOrder(f, cells, first, dest, order)
  PROVE  MoveInOrder(cells, first, dest, order) = f[Len(order)]
<1> DEFINE moved == CHOOSE g : MovesInOrder(g, cells, first, dest, order)
<1>1. MovesInOrder(moved, cells, first, dest, order)  OBVIOUS
<1>2. MoveInOrder(cells, first, dest, order) = moved[Len(order)]  BY DEF MoveInOrder, MovesInOrder
<1> HIDE DEF moved
<1>3. moved = f  BY <1>1, OneMove
<1> QED BY <1>2, <1>3

\* Elements that are moved to the front are moved the first one first.
LEMMA MovedFacts ==
  ASSUME NEW cells \in Seq(Element), NEW first \in Nat, NEW last \in Nat, NEW dest \in Nat,
         dest <= first, first <= last, last <= Len(cells)
  PROVE  /\ Moved(cells, first, last, dest) \in Seq(Element) /\ Len(Moved(cells, first, last, dest)) = Len(cells)
         /\ \A i \in 1 .. Len(cells) :
              Moved(cells, first, last, dest)[i] =
                IF i - dest \in 1 .. last - first THEN cells[first + (i - dest)] ELSE cells[i]
<1> DEFINE n == last - first
           Steps == 0 .. n
           order == [k \in 1 .. n |-> k]
           after(k) == [i \in 1 .. Len(cells) |->
                          IF i - dest \in 1 .. k THEN cells[first + (i - dest)] ELSE cells[i]]
           F == [k \in Steps |-> after(k)]
<1>1. n \in Nat /\ Len(cells) \in Nat /\ cells = [i \in 1 .. Len(cells) |-> cells[i]]  BY LenProperties
<1>2. Len(order) = n /\ \A k \in 1 .. n : order[k] = k
  <2>1. order \in [1 .. n -> Nat]  OBVIOUS
  <2> QED BY <1>1, <2>1, FunctionIsSequence
<1>3. after(0) = cells  BY <1>1
<1>4. ASSUME NEW k \in 1 .. n PROVE after(k) = [after(k - 1) EXCEPT ![dest + k] = after(k - 1)[first + k]]
  <2>1. dest + k \in 1 .. Len(cells) /\ first + k \in 1 .. Len(cells)  BY <1>1
  <2>2. after(k - 1)[first + k] = cells[first + k]  BY <1>1, <2>1
  <2>3. ASSUME NEW i \in 1 .. Len(cells)
        PROVE  after(k)[i] = IF i = dest + k THEN cells[first + k] ELSE after(k - 1)[i]  BY <1>1, <2>1
  <2> QED BY <2>1, <2>2, <2>3
<1> HIDE DEF order
<1>5. \A k \in Steps : F[k] = after(k)  OBVIOUS
<1> HIDE DEF after
<1>6. \A k \in Steps : F[k] = IF k = 0 THEN cells
                              ELSE [F[k - 1] EXCEPT ![dest + order[k]] = F[k - 1][first + order[k]]]
  <2> SUFFICES ASSUME NEW k \in Steps PROVE F[k] = IF k = 0 THEN cells
                             ELSE [F[k - 1] EXCEPT ![dest + order[k]] = F[k - 1][first + order[k]]]  OBVIOUS
  <2>1. CASE k = 0  BY <1>3, <1>5, <2>1
  <2>2. CASE k # 0
    <3>1. k \in 1 .. n /\ k - 1 \in Steps  BY <1>1, <2>2
    <3>2. F[k] = after(k) /\ F[k - 1] = after(k - 1) /\ order[k] = k  BY <1>2, <1>5, <3>1
    <3> QED BY <1>4, <2>2, <3>1, <3>2
  <2> QED BY <2>1, <2>2
<1>7. F = [k \in Steps |-> F[k]]  OBVIOUS
<1> HIDE DEF F
<1>8. MovesInOrder(F, cells, first, dest, order)  BY <1>2, <1>6, <1>7 DEF MovesInOrder
<1>9. Moved(cells, first, last, dest) = F[n]  BY <1>1, <1>2, <1>8, MoveIsLast DEF Moved, order
<1>10. F[n] = after(n)  BY <1>1, <1>5
<1>11. \A i \in 1 .. Len(cells) : after(n)[i] \in Element
  <2> SUFFICES ASSUME NEW i \in 1 .. Len(cells) PROVE after(n)[i] \in Element  OBVIOUS
  <2>1. i - dest \in 1 .. n => first + (i - dest) \in 1 .. Len(cells)  BY <1>1
  <2> QED BY <2>1, ElementOfSeq DEF after
<1>12. after(n) \in [1 .. Len(cells) -> Element]  BY <1>11 DEF after
<1>13. after(n) \in Seq(Element) /\ Len(after(n)) = Len(cells)  BY <1>1, <1>12, FunctionIsSequence
<1> QED BY <1>9, <1>10, <1>13 DEF after

\* Elements that are moved to the back are moved the last one first.
LEMMA MovedBackwardFacts ==
  ASSUME NEW cells \in Seq(Element), NEW first \in Nat, NEW last \in Nat, NEW dest \in Nat,
         first <= dest, first <= last, dest + (last - first) <= Len(cells)
  PROVE  /\ MovedBackward(cells, first, last, dest) \in Seq(Element)
         /\ Len(MovedBackward(cells, first, last, dest)) = Len(cells)
         /\ \A i \in 1 .. Len(cells) :
              MovedBackward(cells, first, last, dest)[i] =
                IF i - dest \in 1 .. last - first THEN cells[first + (i - dest)] ELSE cells[i]
<1> DEFINE n == last - first
           Steps == 0 .. n
           order == [k \in 1 .. n |-> n + 1 - k]
           after(k) == [i \in 1 .. Len(cells) |->
                          IF i - dest \in n + 1 - k .. n THEN cells[first + (i - dest)] ELSE cells[i]]
           F == [k \in Steps |-> after(k)]
<1>1. n \in Nat /\ Len(cells) \in Nat /\ cells = [i \in 1 .. Len(cells) |-> cells[i]]  BY LenProperties
<1>2. Len(order) = n /\ \A k \in 1 .. n : order[k] = n + 1 - k
  <2>1. order \in [1 .. n -> Int]  BY <1>1
  <2> QED BY <1>1, <2>1, FunctionIsSequence
<1>3. after(0) = cells  BY <1>1
<1>4. ASSUME NEW k \in 1 .. n
      PROVE  after(k) = [after(k - 1) EXCEPT ![dest + (n + 1 - k)] = after(k - 1)[first + (n + 1 - k)]]
  <2> DEFINE j == n + 1 - k
             old == after(k - 1)
             new == after(k)
  <2>1. j \in 1 .. n /\ n + 1 - (k - 1) = j + 1  BY <1>1
  <2>2. \A i \in 1 .. Len(cells) :
          /\ new[i] = IF i - dest \in j .. n THEN cells[first + (i - dest)] ELSE cells[i]
          /\ old[i] = IF i - dest \in j + 1 .. n THEN cells[first + (i - dest)] ELSE cells[i]  BY <2>1
  <2>3. /\ new = [i \in 1 .. Len(cells) |-> new[i]]
        /\ old = [i \in 1 .. Len(cells) |-> old[i]]  OBVIOUS
  <2> HIDE DEF j, old, new
  <2>4. dest + j \in 1 .. Len(cells) /\ first + j \in 1 .. Len(cells) /\ (first + j) - dest \notin j + 1 .. n
    BY <1>1, <2>1
  <2>5. old[first + j] = cells[first + j]
    <3>1. \A i \in 1 .. Len(cells) : i - dest \notin j + 1 .. n => old[i] = cells[i]  BY <2>2
    <3> QED BY <1>1, <2>1, <2>4, <3>1
  <2>6. ASSUME NEW i \in 1 .. Len(cells) PROVE new[i] = IF i = dest + j THEN cells[first + j] ELSE old[i]
    <3>1. CASE i = dest + j
      <4>1. i - dest = j /\ j \in j .. n  BY <2>1, <3>1
      <4> QED BY <2>2, <3>1, <4>1
    <3>2. CASE i # dest + j
      <4>1. i - dest \in j .. n <=> i - dest \in j + 1 .. n  BY <1>1, <2>1, <3>2
      <4> QED BY <2>2, <3>2, <4>1
    <3> QED BY <3>1, <3>2
  <2>7. new = [old EXCEPT ![dest + j] = old[first + j]]  BY <2>3, <2>4, <2>5, <2>6
  <2> QED BY <2>7 DEF j, old, new
<1> HIDE DEF order
<1>5. \A k \in Steps : F[k] = after(k)  OBVIOUS
<1> HIDE DEF after
<1>6. \A k \in Steps : F[k] = IF k = 0 THEN cells
                              ELSE [F[k - 1] EXCEPT ![dest + order[k]] = F[k - 1][first + order[k]]]
  <2> SUFFICES ASSUME NEW k \in Steps PROVE F[k] = IF k = 0 THEN cells
                             ELSE [F[k - 1] EXCEPT ![dest + order[k]] = F[k - 1][first + order[k]]]  OBVIOUS
  <2>1. CASE k = 0  BY <1>3, <1>5, <2>1
  <2>2. CASE k # 0
    <3>1. k \in 1 .. n /\ k - 1 \in Steps  BY <1>1, <2>2
    <3>2. F[k] = after(k) /\ F[k - 1] = after(k - 1) /\ order[k] = n + 1 - k  BY <1>2, <1>5, <3>1
    <3> QED BY <1>4, <2>2, <3>1, <3>2
  <2> QED BY <2>1, <2>2
<1>7. F = [k \in Steps |-> F[k]]  OBVIOUS
<1> HIDE DEF F
<1>8. MovesInOrder(F, cells, first, dest, order)  BY <1>2, <1>6, <1>7 DEF MovesInOrder
<1>9. MovedBackward(cells, first, last, dest) = F[n]  BY <1>1, <1>2, <1>8, MoveIsLast DEF MovedBackward, order
<1>10. F[n] = after(n)  BY <1>1, <1>5
<1>11. \A i \in 1 .. Len(cells) :
         after(n)[i] = IF i - dest \in 1 .. n THEN cells[first + (i - dest)] ELSE cells[i]  BY <1>1 DEF after
<1>12. \A i \in 1 .. Len(cells) : after(n)[i] \in Element
  <2> SUFFICES ASSUME NEW i \in 1 .. Len(cells) PROVE after(n)[i] \in Element  OBVIOUS
  <2>1. i - dest \in 1 .. n => first + (i - dest) \in 1 .. Len(cells)  BY <1>1
  <2> QED BY <1>11, <2>1, ElementOfSeq
<1>13. after(n) \in [1 .. Len(cells) -> Element]  BY <1>12 DEF after
<1>14. after(n) \in Seq(Element) /\ Len(after(n)) = Len(cells)  BY <1>1, <1>13, FunctionIsSequence
<1> QED BY <1>9, <1>10, <1>11, <1>14

----
(* Elements that are taken out, joined and made *)

LEMMA CutFacts ==
  ASSUME NEW e \in Seq(Element), NEW a \in Nat, NEW b \in Nat, a <= b, b <= Len(e)
  PROVE  /\ SubSeq(e, a + 1, b) \in Seq(Element) /\ Len(SubSeq(e, a + 1, b)) = b - a
         /\ \A i \in 1 .. b - a : SubSeq(e, a + 1, b)[i] = e[a + i]
<1>1. Len(e) \in Nat  BY LenProperties
<1>2. \A i \in a + 1 .. b : e[i] \in Element  BY <1>1, ElementOfSeq
<1>3. a + 1 \in Int /\ b \in Int  OBVIOUS
<1> DEFINE s == SubSeq(e, a + 1, b)
<1>4. /\ s \in Seq(Element) /\ Len(s) = IF a + 1 <= b THEN b - (a + 1) + 1 ELSE 0
      /\ \A i \in 1 .. b - (a + 1) + 1 : s[i] = e[(a + 1) + i - 1]  BY <1>2, <1>3, SubSeqProperties
<1> HIDE DEF s
<1>5. Len(s) = b - a /\ \A i \in 1 .. b - a : s[i] = e[a + i]  BY <1>4
<1> QED BY <1>4, <1>5 DEF s

LEMMA JoinFacts ==
  ASSUME NEW e \in Seq(Element), NEW f \in Seq(Element)
  PROVE  /\ e \o f \in Seq(Element) /\ Len(e \o f) = Len(e) + Len(f) /\ Len(e) \in Nat /\ Len(f) \in Nat
         /\ \A i \in 1 .. Len(e) + Len(f) : (e \o f)[i] = IF i <= Len(e) THEN e[i] ELSE f[i - Len(e)]
  BY ConcatProperties, LenProperties

\* What a vector of a new size has.
Resized(e, n, value) == FirstOf(e, n) \o [i \in Missing(e, n) |-> value]
LEMMA ResizedFacts ==
  ASSUME NEW e \in Seq(Element), NEW n \in Nat, NEW value \in Element
  PROVE  LET d == Resized(e, n, value) IN
         /\ d \in Seq(Element) /\ Len(d) = n
         /\ \A i \in 1 .. n : d[i] = IF i <= Len(e) THEN e[i] ELSE value
<1>1. Len(e) \in Nat  BY LenProperties
<1> DEFINE m == IF n < Len(e) THEN n ELSE Len(e)
           first == FirstOf(e, n)
           missing == [i \in Missing(e, n) |-> value]
<1>2. m \in Nat /\ m <= Len(e) /\ m <= n  BY <1>1
<1>3. first \in Seq(Element) /\ Len(first) = m /\ \A i \in 1 .. m : first[i] = e[i]
  <2>1. first = SubSeq(e, 0 + 1, m)  BY DEF FirstOf
  <2>2. /\ SubSeq(e, 0 + 1, m) \in Seq(Element) /\ Len(SubSeq(e, 0 + 1, m)) = m - 0
        /\ \A i \in 1 .. m - 0 : SubSeq(e, 0 + 1, m)[i] = e[0 + i]
    <3> HIDE DEF m
    <3> QED BY <1>2, CutFacts
  <2> HIDE DEF first, m
  <2> QED BY <1>1, <1>2, <2>1, <2>2
<1>4. Missing(e, n) = 1 .. n - m  BY <1>1 DEF Missing
<1>5. missing \in Seq(Element) /\ Len(missing) = n - m /\ \A i \in 1 .. n - m : missing[i] = value
  <2>1. missing \in [1 .. n - m -> Element] /\ \A i \in 1 .. n - m : missing[i] = value
    <3> HIDE DEF m
    <3> QED BY <1>4
  <2>2. n - m \in Nat  BY <1>1
  <2> HIDE DEF missing, m
  <2> QED BY <2>1, <2>2, FunctionIsSequence
<1> HIDE DEF first, missing
<1>6. /\ first \o missing \in Seq(Element) /\ Len(first \o missing) = m + (n - m)
      /\ \A i \in 1 .. m + (n - m) : (first \o missing)[i] = IF i <= m THEN first[i] ELSE missing[i - m]
  <2> HIDE DEF m
  <2> QED BY <1>3, <1>5, JoinFacts
<1>7. \A i \in 1 .. n : (first \o missing)[i] = IF i <= Len(e) THEN e[i] ELSE value
  <2> SUFFICES ASSUME NEW i \in 1 .. n PROVE (first \o missing)[i] = IF i <= Len(e) THEN e[i] ELSE value  OBVIOUS
  <2>1. i \in 1 .. m + (n - m)  BY <1>2
  <2>2. CASE i <= m
    <3>1. i <= Len(e) /\ i \in 1 .. m  BY <1>1, <1>2, <2>2
    <3> HIDE DEF m
    <3> QED BY <1>3, <1>6, <2>1, <2>2, <3>1
  <2>3. CASE ~(i <= m)
    <3>1. ~(i <= Len(e)) /\ i - m \in 1 .. n - m  BY <1>1, <2>3
    <3> HIDE DEF m
    <3> QED BY <1>5, <1>6, <2>1, <2>3, <3>1
  <2> QED BY <2>2, <2>3
<1>8. Len(first \o missing) = n  BY <1>1, <1>2, <1>6
<1> QED BY <1>6, <1>7, <1>8 DEF first, missing, Resized

\* Elements with others in between.
LEMMA InsertedFacts ==
  ASSUME VectorsOK, NEW v \in Vectors, NEW index \in 0 .. Len(elements[v]), NEW values \in Seq(Element)
  PROVE  LET e == elements[v]
             d == DocumentedInsert(v, index, values)
         IN  /\ d \in Seq(Element) /\ Len(d) = Len(e) + Len(values)
             /\ \A i \in 1 .. Len(e) + Len(values) :
                  d[i] = IF i <= index THEN e[i]
                         ELSE IF i <= index + Len(values) THEN values[i - index] ELSE e[i - Len(values)]
<1> DEFINE e == elements[v]
           before == SubSeq(e, 0 + 1, index)
           after == SubSeq(e, index + 1, Len(e))
           start == before \o values
<1>1. e \in Seq(Element) /\ Len(e) \in Nat /\ index \in Nat /\ index <= Len(e) /\ Len(values) \in Nat
  BY KnownVector, LenProperties
<1>2. DocumentedInsert(v, index, values) = start \o after  BY DEF DocumentedInsert
<1> HIDE DEF e
<1>3. before \in Seq(Element) /\ Len(before) = index /\ \A i \in 1 .. index : before[i] = e[i]
  <2>1. /\ before \in Seq(Element) /\ Len(before) = index - 0
        /\ \A i \in 1 .. index - 0 : before[i] = e[0 + i]  BY <1>1, CutFacts
  <2> HIDE DEF before
  <2> QED BY <1>1, <2>1
<1>4. /\ after \in Seq(Element) /\ Len(after) = Len(e) - index
      /\ \A i \in 1 .. Len(e) - index : after[i] = e[index + i]  BY <1>1, CutFacts
<1> HIDE DEF before, after
<1>5. /\ start \in Seq(Element) /\ Len(start) = index + Len(values)
      /\ \A i \in 1 .. index + Len(values) : start[i] = IF i <= index THEN before[i] ELSE values[i - index]
  BY <1>3, JoinFacts
<1> HIDE DEF start
<1>6. /\ start \o after \in Seq(Element) /\ Len(start \o after) = Len(start) + Len(after)
      /\ \A i \in 1 .. Len(start) + Len(after) :
           (start \o after)[i] = IF i <= Len(start) THEN start[i] ELSE after[i - Len(start)]  BY <1>4, <1>5, JoinFacts
<1>7. Len(start) + Len(after) = Len(e) + Len(values)  BY <1>1, <1>4, <1>5
<1>8. ASSUME NEW i \in 1 .. Len(e) + Len(values) PROVE (start \o after)[i] = IF i <= index THEN e[i]
                                   ELSE IF i <= index + Len(values) THEN values[i - index] ELSE e[i - Len(values)]
  <2>1. CASE i <= index
    <3>1. i \in 1 .. index /\ i \in 1 .. index + Len(values) /\ i <= Len(start)  BY <1>1, <1>5, <2>1
    <3> QED BY <1>3, <1>5, <1>6, <1>7, <2>1, <3>1
  <2>2. CASE ~(i <= index) /\ i <= index + Len(values)
    <3>1. i \in 1 .. index + Len(values) /\ i <= Len(start)  BY <1>1, <1>5, <2>2
    <3> QED BY <1>5, <1>6, <1>7, <2>2, <3>1
  <2>3. CASE ~(i <= index + Len(values))
    <3>1. /\ ~(i <= index) /\ ~(i <= Len(start)) /\ i - Len(start) \in 1 .. Len(e) - index
          /\ index + (i - Len(start)) = i - Len(values)  BY <1>1, <1>5, <2>3
    <3> QED BY <1>4, <1>6, <1>7, <2>3, <3>1
  <2> QED BY <2>1, <2>2, <2>3
<1> QED BY <1>2, <1>6, <1>7, <1>8 DEF e

----
(* The gap for an insertion *)

LEMMA VectorCells ==
  ASSUME NEW cells \in Seq(Element), NEW size \in Nat
  PROVE  LET x == Vector(cells, size)
         IN  /\ x.size = size /\ x.cells \in Seq(Element) /\ Len(x.cells) = Len(cells)
             /\ \A i \in 1 .. Len(cells) : i <= size => x.cells[i] = cells[i]
<1> DEFINE kept == [i \in DOMAIN cells |-> IF i <= size THEN cells[i] ELSE Uninitialized]
<1>1. Len(cells) \in Nat /\ DOMAIN cells = 1 .. Len(cells) /\ \A i \in 1 .. Len(cells) : cells[i] \in Element
  BY LenProperties, ElementOfSeq
<1>2. kept \in [1 .. Len(cells) -> Element] /\ \A i \in 1 .. Len(cells) : i <= size => kept[i] = cells[i]
  BY <1>1 DEF Element
<1>3. Vector(cells, size) = [cells |-> kept, size |-> size]  BY DEF Vector
<1> HIDE DEF kept
<1>4. kept \in Seq(Element) /\ Len(kept) = Len(cells)  BY <1>1, <1>2, FunctionIsSequence
<1> QED BY <1>2, <1>3, <1>4

\* However the room is made, the elements before the gap and behind it are those of before.
GapOK(g, e, index, count) ==
  /\ g.cells \in Seq(Element) /\ g.size = Len(e) + count /\ g.size <= Len(g.cells)
  /\ \A i \in 1 .. index : g.cells[i] = e[i]
  /\ \A i \in index + count + 1 .. Len(e) + count : g.cells[i] = e[i - count]

LEMMA GapInPlace ==
  ASSUME VectorsOK, NEW v \in Vectors, NEW index \in 0 .. Len(elements[v]), NEW count \in Nat,
         CapacityOf(vectors[v]) >= vectors[v].size + count
  PROVE  GapOK(Gap(vectors[v], index, count), elements[v], index, count)
<1> DEFINE e == elements[v]
           c == vectors[v].cells
           moved == MovedBackward(c, index, Len(e), index + count)
           g == Vector(moved, Len(e) + count)
<1>1. /\ c \in Seq(Element) /\ Len(c) \in Nat /\ Len(e) \in Nat /\ index \in Nat /\ index <= Len(e)
      /\ Len(e) + count <= Len(c) /\ vectors[v].size = Len(e) /\ ~(CapacityOf(vectors[v]) < Len(e) + count)
      /\ \A i \in 1 .. Len(e) : c[i] = e[i]  BY KnownVector DEF StartsWith
<1>2. Gap(vectors[v], index, count) = g  BY <1>1 DEF Gap
<1> HIDE DEF e, c
<1>3. /\ moved \in Seq(Element) /\ Len(moved) = Len(c)
      /\ \A i \in 1 .. Len(c) :
           moved[i] = IF i - (index + count) \in 1 .. Len(e) - index THEN c[index + (i - (index + count))] ELSE c[i]
  <2>1. index <= index + count /\ (index + count) + (Len(e) - index) <= Len(c) /\ index + count \in Nat  BY <1>1
  <2> QED BY <1>1, <2>1, MovedBackwardFacts
<1> HIDE DEF moved
<1>4. /\ g.size = Len(e) + count /\ g.cells \in Seq(Element) /\ Len(g.cells) = Len(moved)
      /\ \A i \in 1 .. Len(moved) : i <= Len(e) + count => g.cells[i] = moved[i]
  <2>1. Len(e) + count \in Nat  BY <1>1
  <2> QED BY <1>3, <2>1, VectorCells
<1> HIDE DEF g
<1>5. ASSUME NEW i \in 1 .. index PROVE g.cells[i] = e[i]
  <2>1. /\ i \in 1 .. Len(c) /\ i \in 1 .. Len(e) /\ i <= Len(e) + count
        /\ i - (index + count) \notin 1 .. Len(e) - index  BY <1>1
  <2> QED BY <1>1, <1>3, <1>4, <2>1
<1>6. ASSUME NEW i \in index + count + 1 .. Len(e) + count PROVE g.cells[i] = e[i - count]
  <2> DEFINE m == Len(e)
             n == Len(c)
  <2>a. /\ m \in Nat /\ n \in Nat /\ index \in Nat /\ index <= m /\ m + count <= n
        /\ i \in index + count + 1 .. m + count  BY <1>1
  <2> HIDE DEF m, n
  <2>b. /\ i \in 1 .. n /\ i <= m + count /\ i - (index + count) \in 1 .. m - index  BY <2>a
  <2>c. index + (i - (index + count)) = i - count /\ i - count \in 1 .. m  BY <2>a
  <2>1. /\ i \in 1 .. Len(c) /\ i <= Len(e) + count /\ i - (index + count) \in 1 .. Len(e) - index
        /\ index + (i - (index + count)) = i - count /\ i - count \in 1 .. Len(e)  BY <2>b, <2>c DEF m, n
  <2>2. g.cells[i] = moved[i]  BY <1>3, <1>4, <2>1
  <2>3. moved[i] = c[i - count]  BY <1>3, <2>1
  <2> QED BY <1>1, <2>1, <2>2, <2>3
<1>7. GapOK(g, e, index, count)  BY <1>1, <1>3, <1>4, <1>5, <1>6 DEF GapOK
<1> QED BY <1>2, <1>7 DEF e

LEMMA GapElsewhere ==
  ASSUME VectorsOK, NEW v \in Vectors, NEW index \in 0 .. Len(elements[v]), NEW count \in Nat,
         CapacityOf(vectors[v]) < vectors[v].size + count
  PROVE  GapOK(Gap(vectors[v], index, count), elements[v], index, count)
<1> DEFINE e == elements[v]
           c == vectors[v].cells
           n == EnlargeSize(vectors[v], count)
           before == SubSeq(c, 0 + 1, index)
           after == SubSeq(c, index + 1, Len(e))
           start == Allocated(n, before)
           all == Store(start, index + count, after)
           g == Vector(all, Len(e) + count)
<1>1. /\ c \in Seq(Element) /\ Len(c) \in Nat /\ Len(e) \in Nat /\ index \in Nat /\ index <= Len(e) /\ Len(e) <= Len(c)
      /\ vectors[v].size = Len(e) /\ CapacityOf(vectors[v]) < Len(e) + count
      /\ \A i \in 1 .. Len(e) : c[i] = e[i]  BY KnownVector DEF StartsWith
<1>2. Gap(vectors[v], index, count) = g  BY <1>1 DEF Gap, EnlargedForInsert
<1>3. n \in Nat /\ Len(e) + count <= n
  <2>1. n = Len(e) + (IF count > Len(e) THEN count ELSE Len(e))  BY <1>1 DEF EnlargeSize
  <2> HIDE DEF n, e, c
  <2> QED BY <1>1, <2>1
<1> HIDE DEF e, c, n
<1>4. before \in Seq(Element) /\ Len(before) = index /\ \A i \in 1 .. index : before[i] = c[i]
  <2>1. /\ before \in Seq(Element) /\ Len(before) = index - 0
        /\ \A i \in 1 .. index - 0 : before[i] = c[0 + i]  BY <1>1, CutFacts
  <2> HIDE DEF before
  <2> QED BY <1>1, <2>1
<1>5. /\ after \in Seq(Element) /\ Len(after) = Len(e) - index
      /\ \A i \in 1 .. Len(e) - index : after[i] = c[index + i]  BY <1>1, CutFacts
<1> HIDE DEF before, after
<1>6. /\ start \in Seq(Element) /\ Len(start) = n /\ \A i \in 1 .. index : start[i] = before[i]
  <2>1. Len(before) <= n  BY <1>1, <1>3, <1>4
  <2>2. StartsWith(start, before) /\ Len(start) = n  BY <1>3, <1>4, <2>1, AllocatedFacts
  <2> HIDE DEF start
  <2> QED BY <1>4, <2>2 DEF StartsWith
<1> HIDE DEF start
<1>7. /\ all \in Seq(Element) /\ Len(all) = n
      /\ \A i \in 1 .. n :
           all[i] = IF i - (index + count) \in 1 .. Len(e) - index THEN after[i - (index + count)] ELSE start[i]
  <2>1. index + count \in Nat  BY <1>1
  <2> QED BY <1>5, <1>6, <2>1, StoreFacts
<1> HIDE DEF all
<1>8. /\ g.size = Len(e) + count /\ g.cells \in Seq(Element) /\ Len(g.cells) = n
      /\ \A i \in 1 .. n : i <= Len(e) + count => g.cells[i] = all[i]
  <2>1. Len(e) + count \in Nat  BY <1>1
  <2> QED BY <1>7, <2>1, VectorCells
<1> HIDE DEF g
<1>9. ASSUME NEW i \in 1 .. index PROVE g.cells[i] = e[i]
  <2>1. /\ i \in 1 .. n /\ i \in 1 .. Len(e) /\ i <= Len(e) + count
        /\ i - (index + count) \notin 1 .. Len(e) - index  BY <1>1, <1>3
  <2>2. g.cells[i] = all[i] /\ all[i] = start[i]  BY <1>7, <1>8, <2>1
  <2> QED BY <1>1, <1>4, <1>6, <2>1, <2>2
<1>10. ASSUME NEW i \in index + count + 1 .. Len(e) + count PROVE g.cells[i] = e[i - count]
  <2>1. /\ i \in 1 .. n /\ i <= Len(e) + count /\ i - (index + count) \in 1 .. Len(e) - index
        /\ index + (i - (index + count)) = i - count /\ i - count \in 1 .. Len(e)  BY <1>1, <1>3
  <2>2. g.cells[i] = all[i] /\ all[i] = after[i - (index + count)]  BY <1>7, <1>8, <2>1
  <2>3. after[i - (index + count)] = c[i - count]  BY <1>5, <2>1
  <2> QED BY <1>1, <2>1, <2>2, <2>3
<1>11. GapOK(g, e, index, count)  BY <1>1, <1>3, <1>8, <1>9, <1>10 DEF GapOK
<1> QED BY <1>2, <1>11 DEF e

\* An insertion gives the elements that it should.
LEMMA InsertedInGap ==
  ASSUME VectorsOK, NEW v \in Vectors, NEW index \in 0 .. Len(elements[v]), NEW values \in Seq(Element),
         NEW count, count = Len(values)
  PROVE  LET gap == Gap(vectors[v], index, count)
             d == DocumentedInsert(v, index, values)
         IN  StartsWith(Store(gap.cells, index, values), d) /\ gap.size = Len(d)
<1> DEFINE e == elements[v]
           g == Gap(vectors[v], index, count)
           d == DocumentedInsert(v, index, values)
           all == Store(g.cells, index, values)
<1>1. count \in Nat /\ Len(e) \in Nat /\ index \in Nat /\ index <= Len(e) /\ Len(vectors[v].cells) \in Nat
      /\ vectors[v].size = Len(e) /\ CapacityOf(vectors[v]) = Len(vectors[v].cells)  BY KnownVector, LenProperties
<1>2. GapOK(g, e, index, count)
  <2>1. CASE CapacityOf(vectors[v]) >= vectors[v].size + count  BY <1>1, <2>1, GapInPlace
  <2>2. CASE CapacityOf(vectors[v]) < vectors[v].size + count  BY <1>1, <2>2, GapElsewhere
  <2> QED BY <1>1, <2>1, <2>2
<1>3. /\ d \in Seq(Element) /\ Len(d) = Len(e) + count
      /\ \A i \in 1 .. Len(e) + count :
           d[i] = IF i <= index THEN e[i]
                  ELSE IF i <= index + count THEN values[i - index] ELSE e[i - count]  BY InsertedFacts
<1> HIDE DEF d, e, g
<1>4. /\ g.cells \in Seq(Element) /\ Len(g.cells) \in Nat /\ g.size = Len(e) + count /\ g.size <= Len(g.cells)
      /\ \A i \in 1 .. index : g.cells[i] = e[i]
      /\ \A i \in index + count + 1 .. Len(e) + count : g.cells[i] = e[i - count]  BY <1>2, LenProperties DEF GapOK
<1>5. /\ all \in Seq(Element) /\ Len(all) = Len(g.cells)
      /\ \A i \in 1 .. Len(g.cells) : all[i] = IF i - index \in 1 .. count THEN values[i - index] ELSE g.cells[i]
  <2> DEFINE cells == g.cells
             stored == Store(cells, index, values)
  <2>1. cells \in Seq(Element) /\ index \in Nat  BY <1>1, <1>4
  <2> HIDE DEF cells
  <2>2. /\ stored \in Seq(Element) /\ Len(stored) = Len(cells)
        /\ \A i \in 1 .. Len(cells) : stored[i] = IF i - index \in 1 .. Len(values) THEN values[i - index] ELSE cells[i]
    BY <2>1, StoreFacts
  <2> HIDE DEF stored
  <2>3. /\ stored \in Seq(Element) /\ Len(stored) = Len(cells)
        /\ \A i \in 1 .. Len(cells) : stored[i] = IF i - index \in 1 .. count THEN values[i - index] ELSE cells[i]
    BY <2>2
  <2> QED BY <2>3 DEF stored, cells
<1> HIDE DEF all
<1>6. ASSUME NEW i \in 1 .. Len(e) + count PROVE all[i] = d[i]
  <2>0. i \in 1 .. Len(g.cells)  BY <1>1, <1>4
  <2>1. CASE i <= index
    <3>1. i \in 1 .. index /\ i - index \notin 1 .. count  BY <1>1, <2>1
    <3> QED BY <1>3, <1>4, <1>5, <2>0, <2>1, <3>1
  <2>2. CASE ~(i <= index) /\ i <= index + count
    <3>1. i - index \in 1 .. count  BY <1>1, <2>2
    <3> QED BY <1>3, <1>5, <2>0, <2>2, <3>1
  <2>3. CASE ~(i <= index + count)
    <3>1. ~(i <= index) /\ i - index \notin 1 .. count /\ i \in index + count + 1 .. Len(e) + count  BY <1>1, <2>3
    <3> QED BY <1>3, <1>4, <1>5, <2>0, <2>3, <3>1
  <2> QED BY <2>1, <2>2, <2>3
<1>7. StartsWith(all, d)  BY <1>3, <1>4, <1>5, <1>6 DEF StartsWith
<1> QED BY <1>3, <1>4, <1>7 DEF all, d, g

----
(* The operations *)

LEMMA StartsWithItself ==
  ASSUME NEW e \in Seq(Element)
  PROVE  StartsWith(e, e) /\ Len(e) \in Nat
<1>1. Len(e) \in Nat  BY LenProperties
<1> QED BY <1>1 DEF StartsWith

\* Storage of n cells with the elements of a vector, or its own when that is large enough.
LEMMA RoomFacts ==
  ASSUME VectorsOK, NEW v \in Vectors, NEW n \in Nat, Len(elements[v]) <= n
  PROVE  StartsWith(Allocated(n, Contents(vectors[v])), elements[v]) /\ Len(Allocated(n, Contents(vectors[v]))) = n
<1>1. elements[v] \in Seq(Element) /\ Contents(vectors[v]) = elements[v]  BY KnownVector
<1> QED BY <1>1, AllocatedFacts

\* Values that are stored where the elements end are appended to them.
LEMMA AppendedFacts ==
  ASSUME NEW cells, NEW e, StartsWith(cells, e), NEW values \in Seq(Element), Len(e) + Len(values) <= Len(cells)
  PROVE  StartsWith(Store(cells, Len(e), values), e \o values) /\ Len(e \o values) = Len(e) + Len(values)
<1>1. /\ cells \in Seq(Element) /\ e \in Seq(Element) /\ Len(e) \in Nat /\ Len(values) \in Nat /\ Len(cells) \in Nat
      /\ \A i \in 1 .. Len(e) : cells[i] = e[i]  BY LenProperties DEF StartsWith
<1> DEFINE all == Store(cells, Len(e), values)
           d == e \o values
<1>2. /\ all \in Seq(Element) /\ Len(all) = Len(cells)
      /\ \A i \in 1 .. Len(cells) : all[i] = IF i - Len(e) \in 1 .. Len(values) THEN values[i - Len(e)] ELSE cells[i]
  BY <1>1, StoreFacts
<1>3. /\ d \in Seq(Element) /\ Len(d) = Len(e) + Len(values)
      /\ \A i \in 1 .. Len(e) + Len(values) : d[i] = IF i <= Len(e) THEN e[i] ELSE values[i - Len(e)]
  BY <1>1, JoinFacts
<1> HIDE DEF all, d
<1>4. ASSUME NEW i \in 1 .. Len(d) PROVE all[i] = d[i]
  <2>1. i \in 1 .. Len(cells) /\ i \in 1 .. Len(e) + Len(values)  BY <1>1, <1>3
  <2>2. CASE i <= Len(e)
    <3>1. i - Len(e) \notin 1 .. Len(values) /\ i \in 1 .. Len(e)  BY <1>1, <2>1, <2>2
    <3> QED BY <1>1, <1>2, <1>3, <2>1, <2>2, <3>1
  <2>3. CASE ~(i <= Len(e))
    <3>1. i - Len(e) \in 1 .. Len(values)  BY <1>1, <2>1, <2>3
    <3> QED BY <1>2, <1>3, <2>1, <2>3, <3>1
  <2> QED BY <2>2, <2>3
<1>5. StartsWith(all, d)  BY <1>1, <1>2, <1>3, <1>4 DEF StartsWith
<1> QED BY <1>3, <1>5 DEF all, d

LEMMA ConstructStep ==
  ASSUME VectorsOK, NEW v \in Vectors, NEW n \in Nat, Construct(v, n)
  PROVE  VectorsOK'
<1>1. Nothing(n) \in Seq(Element) /\ Len(Nothing(n)) = n  BY NothingFacts
<1>2. StartsWith(Nothing(n), Nothing(n))  BY <1>1, StartsWithItself
<1>3. Set(v, Vector(Nothing(n), n), Nothing(n))  BY DEF Construct
<1> QED BY <1>1, <1>2, <1>3, SetKeepsVectors

LEMMA ConstructFromStep ==
  ASSUME VectorsOK, NEW v \in Vectors, NEW values \in Seq(Element), ConstructFrom(v, values)
  PROVE  VectorsOK'
<1>1. StartsWith(Allocated(Len(values), values), values)
  <2>1. Len(values) \in Nat /\ Len(values) <= Len(values)  BY LenProperties
  <2> QED BY <2>1, AllocatedFacts
<1>2. Set(v, Vector(Allocated(Len(values), values), Len(values)), values)  BY DEF ConstructFrom
<1> QED BY <1>1, <1>2, SetKeepsVectors

LEMMA CopyConstructStep ==
  ASSUME VectorsOK, NEW v \in Vectors, NEW other \in Vectors, CopyConstruct(v, other)
  PROVE  VectorsOK'
<1>1. Size(other) = Len(elements[other]) /\ Len(elements[other]) \in Nat  BY KnownVector
<1>2. StartsWith(Allocated(Size(other), Contents(vectors[other])), elements[other])  BY <1>1, RoomFacts
<1>3. Set(v, Vector(Allocated(Size(other), Contents(vectors[other])), Size(other)), elements[other])
  BY DEF CopyConstruct
<1> QED BY <1>1, <1>2, <1>3, SetKeepsVectors

LEMMA NullIsOK == VectorOK(Null, <<>>)
<1>1. StartsWith(<<>>, <<>>) /\ Len(<<>>) = 0  BY StartsWithItself, EmptySeq
<1> QED BY <1>1, VectorFacts DEF Null

LEMMA TakeStep ==
  ASSUME VectorsOK, NEW v \in Vectors, NEW other \in Vectors, v # other, Take(v, other) \/ Swap(v, other)
  PROVE  VectorsOK'
<1>1. Null \in [cells : Seq(Element), size : Nat] /\ <<>> \in Seq(Element)  BY NullIsOK DEF VectorOK, StartsWith
<1>2. CASE Take(v, other)
  <2>1. /\ vectors' = [vectors EXCEPT ![v] = vectors[other], ![other] = Null]
        /\ elements' = [elements EXCEPT ![v] = elements[other], ![other] = <<>>]  BY <1>2 DEF Take
  <2>2. /\ vectors' \in [Vectors -> [cells : Seq(Element), size : Nat]] /\ elements' \in [Vectors -> Seq(Element)]
    BY <1>1, <2>1 DEF VectorsOK
  <2>3. ASSUME NEW u \in Vectors PROVE VectorOK(vectors'[u], elements'[u])
    <3>1. \/ vectors'[u] = Null /\ elements'[u] = <<>>
          \/ vectors'[u] = vectors[other] /\ elements'[u] = elements[other]
          \/ vectors'[u] = vectors[u] /\ elements'[u] = elements[u]  BY <2>1 DEF VectorsOK
    <3>2. VectorOK(vectors[other], elements[other]) /\ VectorOK(vectors[u], elements[u])  BY DEF VectorsOK
    <3> QED BY <3>1, <3>2, NullIsOK
  <2> QED BY <2>2, <2>3 DEF VectorsOK, VectorOK
<1>3. CASE Swap(v, other)
  <2>1. /\ vectors' = [vectors EXCEPT ![v] = vectors[other], ![other] = vectors[v]]
        /\ elements' = [elements EXCEPT ![v] = elements[other], ![other] = elements[v]]  BY <1>3 DEF Swap
  <2>2. /\ vectors' \in [Vectors -> [cells : Seq(Element), size : Nat]] /\ elements' \in [Vectors -> Seq(Element)]
    BY <2>1 DEF VectorsOK
  <2>3. ASSUME NEW u \in Vectors PROVE VectorOK(vectors'[u], elements'[u])
    <3>1. \E w \in Vectors : vectors'[u] = vectors[w] /\ elements'[u] = elements[w]  BY <2>1 DEF VectorsOK
    <3> QED BY <3>1 DEF VectorsOK
  <2> QED BY <2>2, <2>3 DEF VectorsOK, VectorOK
<1> QED BY <1>2, <1>3

\* Cells with values from the first one on start with these.
LEMMA StoredFacts ==
  ASSUME NEW cells \in Seq(Element), NEW values \in Seq(Element), Len(values) <= Len(cells)
  PROVE  StartsWith(Store(cells, 0, values), values)
<1>1. Len(cells) \in Nat /\ Len(values) \in Nat  BY LenProperties
<1> DEFINE all == Store(cells, 0, values)
<1>2. /\ all \in Seq(Element) /\ Len(all) = Len(cells)
      /\ \A i \in 1 .. Len(cells) : all[i] = IF i - 0 \in 1 .. Len(values) THEN values[i - 0] ELSE cells[i]
  BY StoreFacts
<1> HIDE DEF all
<1>3. \A i \in 1 .. Len(values) : all[i] = values[i]  BY <1>1, <1>2
<1>4. StartsWith(all, values)  BY <1>1, <1>2, <1>3 DEF StartsWith
<1> QED BY <1>4 DEF all

\* A vector that is as large, or has no room, gets the elements of the other one.
LEMMA CopyAssignStep ==
  ASSUME VectorsOK, NEW v \in Vectors, NEW other \in Vectors, ~AssignAnySize, CopyAssign(v, other)
  PROVE  VectorsOK'
<1> DEFINE n == Size(other)
           x == vectors[v]
           e == elements[other]
<1>1. /\ n = Len(e) /\ e \in Seq(Element) /\ Len(e) \in Nat /\ Contents(vectors[other]) = e
      /\ x.cells \in Seq(Element) /\ x.size \in Nat /\ x.size <= CapacityOf(x) /\ CapacityOf(x) = Len(x.cells)
      /\ Len(x.cells) \in Nat  BY KnownVector
<1>2. n > CapacityOf(x) \/ n = x.size  BY DEF CopyAssign
<1>3. CASE n > CapacityOf(x)
  <2>1. Set(v, Vector(Allocated(n, Contents(vectors[other])), n), e)  BY <1>3 DEF CopyAssign
  <2>2. StartsWith(Allocated(n, Contents(vectors[other])), e)  BY <1>1, RoomFacts
  <2> HIDE DEF n, e
  <2> QED BY <1>1, <2>1, <2>2, SetKeepsVectors
<1>4. CASE ~(n > CapacityOf(x))
  <2>1. Set(v, Vector(Store(x.cells, 0, e), x.size), e)  BY <1>1, <1>4 DEF CopyAssign
  <2>2. x.size = n /\ Len(e) <= Len(x.cells)  BY <1>1, <1>2, <1>4
  <2> HIDE DEF n, e
  <2>3. StartsWith(Store(x.cells, 0, e), e)  BY <1>1, <2>2, StoredFacts
  <2> QED BY <1>1, <2>1, <2>2, <2>3, SetKeepsVectors
<1> QED BY <1>3, <1>4

LEMMA ReserveStep ==
  ASSUME VectorsOK, NEW v \in Vectors, NEW n \in Nat, Reserve(v, n)
  PROVE  VectorsOK'
<1>1. Len(elements[v]) <= n /\ vectors[v].size = Len(elements[v])
  <2>1. /\ CapacityOf(vectors[v]) < n /\ CapacityOf(vectors[v]) = Len(vectors[v].cells)
        /\ Len(elements[v]) <= Len(vectors[v].cells) /\ Len(elements[v]) \in Nat /\ Len(vectors[v].cells) \in Nat
        /\ vectors[v].size = Len(elements[v])  BY KnownVector DEF Reserve
  <2> QED BY <2>1
<1>2. StartsWith(Allocated(n, Contents(vectors[v])), elements[v])  BY <1>1, RoomFacts
<1>3. Set(v, Vector(Allocated(n, Contents(vectors[v])), vectors[v].size), elements[v])  BY DEF Reserve, Reallocated
<1> QED BY <1>1, <1>2, <1>3, SetKeepsVectors

LEMMA ShrinkToFitStep ==
  ASSUME VectorsOK, NEW v \in Vectors, ShrinkToFit(v)
  PROVE  VectorsOK'
<1>1. elements[v] \in Seq(Element) /\ Contents(vectors[v]) = elements[v] /\ Size(v) = Len(elements[v])  BY KnownVector
<1>2. Set(v, Vector(elements[v], Len(elements[v])), elements[v])  BY <1>1 DEF ShrinkToFit
<1> QED BY <1>1, <1>2, StartsWithItself, SetKeepsVectors

LEMMA AssignStep ==
  ASSUME VectorsOK, NEW v \in Vectors, NEW values \in Seq(Element), AssignFromRange(v, values)
  PROVE  VectorsOK'
<1> DEFINE n == Len(values)
           cells == IF n > CapacityOf(vectors[v]) THEN Nothing(n) ELSE vectors[v].cells
<1>1. n \in Nat  BY LenProperties
<1>2. cells \in Seq(Element) /\ n <= Len(cells)
  <2>1. CASE n > CapacityOf(vectors[v])  BY <1>1, <2>1, NothingFacts
  <2>2. CASE ~(n > CapacityOf(vectors[v]))
    <3>1. /\ vectors[v].cells \in Seq(Element) /\ CapacityOf(vectors[v]) = Len(vectors[v].cells)
          /\ Len(vectors[v].cells) \in Nat  BY KnownVector
    <3> QED BY <1>1, <2>2, <3>1
  <2> QED BY <2>1, <2>2
<1>3. Set(v, Vector(Store(cells, 0, values), n), values)  BY DEF AssignFromRange
<1> HIDE DEF cells
<1>4. StartsWith(Store(cells, 0, values), values)  BY <1>2, StoredFacts
<1> QED BY <1>3, <1>4, SetKeepsVectors

LEMMA PushBackStep ==
  ASSUME VectorsOK, NEW v \in Vectors, NEW values \in Seq(Element), PushBackRange(v, values)
  PROVE  VectorsOK'
<1> DEFINE x == vectors[v]
           e == elements[v]
           n == Len(values)
           roomy == IF CapacityOf(x) - x.size < n THEN Reallocated(x, EnlargeSize(x, n)) ELSE x
<1>1. /\ n \in Nat /\ Len(e) \in Nat /\ x.size = Len(e) /\ CapacityOf(x) = Len(x.cells) /\ Len(x.cells) \in Nat
      /\ StartsWith(x.cells, e)  BY KnownVector, LenProperties
<1>2. StartsWith(roomy.cells, e) /\ Len(e) + n <= Len(roomy.cells)
  <2>1. CASE CapacityOf(x) - x.size < n
    <3> DEFINE m == EnlargeSize(x, n)
               allocated == Allocated(m, Contents(x))
    <3>1. m = Len(e) + (IF n > Len(e) THEN n ELSE Len(e))  BY <1>1 DEF EnlargeSize
    <3>2. m \in Nat /\ Len(e) + n <= m /\ Len(e) <= m
      <4> HIDE DEF m, e, n
      <4> QED BY <1>1, <3>1
    <3>3. StartsWith(allocated, e) /\ Len(allocated) = m  BY <3>2, RoomFacts
    <3>4. roomy = Vector(allocated, Len(e))  BY <1>1, <2>1 DEF Reallocated
    <3> HIDE DEF allocated, roomy, e, m
    <3>5. VectorOK(roomy, e) /\ CapacityOf(roomy) = m  BY <3>3, <3>4, VectorFacts
    <3> QED BY <3>2, <3>5 DEF VectorOK, CapacityOf
  <2>2. CASE ~(CapacityOf(x) - x.size < n)
    <3>1. roomy = x  BY <2>2
    <3>2. Len(e) + n <= Len(x.cells)
      <4> DEFINE room == Len(x.cells)
      <4>1. ~(room - Len(e) < n)  BY <1>1, <2>2
      <4>2. room \in Nat /\ Len(e) \in Nat /\ n \in Nat  BY <1>1
      <4> HIDE DEF room, e, n
      <4>3. Len(e) + n <= room  BY <4>1, <4>2
      <4> QED BY <4>3 DEF room
    <3> HIDE DEF roomy, x
    <3> QED BY <1>1, <3>1, <3>2
  <2> QED BY <2>1, <2>2
<1>3. Set(v, Vector(Store(roomy.cells, Len(e), values), Len(e) + n), e \o values)  BY <1>1 DEF PushBackRange
<1> HIDE DEF roomy, e
<1>4. StartsWith(Store(roomy.cells, Len(e), values), e \o values) /\ Len(e \o values) = Len(e) + n
  BY <1>2, AppendedFacts
<1> QED BY <1>3, <1>4, SetKeepsVectors

\* The elements beyond the old ones were never set, and count as that in the storage too.
LEMMA ResizeStep ==
  ASSUME VectorsOK, NEW v \in Vectors, NEW n \in Nat, Resize(v, n)
  PROVE  VectorsOK'
<1> DEFINE x == vectors[v]
           e == elements[v]
           cells == IF CapacityOf(x) < n THEN Allocated(EnlargeSize(x, n), Contents(x)) ELSE x.cells
           d == Resized(e, n, Uninitialized)
<1>1. /\ Len(e) \in Nat /\ x.size = Len(e) /\ CapacityOf(x) = Len(x.cells) /\ Len(x.cells) \in Nat
      /\ e \in Seq(Element) /\ Contents(x) = e
      /\ StartsWith(x.cells, e) /\ Len(e) <= Len(x.cells)
      /\ \A i \in Len(e) + 1 .. Len(x.cells) : x.cells[i] = Uninitialized  BY KnownVector
<1>2. Set(v, Vector(cells, n), d)  BY DEF Resize, Resized
<1>3. /\ StartsWith(cells, e) /\ n <= Len(cells)
      /\ \A i \in Len(e) + 1 .. Len(cells) : cells[i] = Uninitialized
  <2>1. CASE CapacityOf(x) < n
    <3> DEFINE m == EnlargeSize(x, n)
    <3>1. m = Len(e) + (IF n > Len(e) THEN n ELSE Len(e))  BY <1>1 DEF EnlargeSize
    <3>2. m \in Nat /\ n <= m /\ Len(e) <= m
      <4> HIDE DEF m, e
      <4> QED BY <1>1, <3>1
    <3>3. cells = Allocated(m, e)  BY <1>1, <2>1
    <3> HIDE DEF cells, m, e
    <3> QED BY <1>1, <3>2, <3>3, AllocatedFacts
  <2>2. CASE ~(CapacityOf(x) < n)  BY <1>1, <2>2
  <2> QED BY <2>1, <2>2
<1>4. /\ d \in Seq(Element) /\ Len(d) = n
      /\ \A i \in 1 .. n : d[i] = IF i <= Len(e) THEN e[i] ELSE Uninitialized
  <2>1. Uninitialized \in Element  BY DEF Element
  <2>2. e \in Seq(Element)  BY <1>1
  <2> HIDE DEF e, cells
  <2> QED BY <2>1, <2>2, ResizedFacts
<1> HIDE DEF cells, d, e
<1>5. cells \in Seq(Element) /\ Len(cells) \in Nat /\ \A i \in 1 .. Len(e) : cells[i] = e[i]
  BY <1>3, LenProperties DEF StartsWith
<1>6. ASSUME NEW i \in 1 .. n PROVE cells[i] = d[i]
  <2>1. i \in 1 .. Len(e) \/ (~(i <= Len(e)) /\ i \in Len(e) + 1 .. Len(cells))  BY <1>1, <1>3, <1>5
  <2> QED BY <1>1, <1>3, <1>4, <1>5, <2>1
<1>7. StartsWith(cells, d)  BY <1>3, <1>4, <1>5, <1>6 DEF StartsWith
<1> QED BY <1>2, <1>4, <1>7, SetKeepsVectors

\* A value that is converted to an integer and stays the same is stored in the new elements.
LEMMA ResizeFilledStep ==
  ASSUME VectorsOK, NEW v \in Vectors, NEW n \in Nat, NEW value \in NewValues, ToSizeT(value) = value,
         ResizeFilled(v, n, value)
  PROVE  VectorsOK'
<1> DEFINE x == vectors[v]
           e == elements[v]
           cells == IF CapacityOf(x) < n THEN Allocated(n, e) ELSE x.cells
           new == [i \in Missing(e, n) |-> value]
           all == Store(cells, Len(e), new)
           d == Resized(e, n, value)
<1>1. /\ Len(e) \in Nat /\ x.size = Len(e) /\ CapacityOf(x) = Len(x.cells) /\ Len(x.cells) \in Nat
      /\ e \in Seq(Element) /\ Contents(x) = e /\ StartsWith(x.cells, e) /\ Len(e) <= Len(x.cells)  BY KnownVector
<1>2. Set(v, Vector(all, n), d)
  <2> DEFINE old == Contents(x)
             newCells == IF CapacityOf(x) < n THEN Allocated(n, old) ELSE x.cells
             converted == [i \in Missing(old, n) |-> ToSizeT(value)]
  <2>1. Set(v, Vector(Store(newCells, x.size, converted), n), d)  BY DEF ResizeFilled, Resized
  <2>2. newCells = cells /\ converted = new /\ x.size = Len(e)  BY <1>1
  <2> HIDE DEF newCells, cells, converted, new, d, x, e
  <2> QED BY <2>1, <2>2
<1>3. StartsWith(cells, e) /\ n <= Len(cells)
  <2>1. CASE CapacityOf(x) < n
    <3>1. Len(e) <= n /\ cells = Allocated(n, e)  BY <1>1, <2>1
    <3> HIDE DEF cells, e
    <3> QED BY <1>1, <3>1, AllocatedFacts
  <2>2. CASE ~(CapacityOf(x) < n)  BY <1>1, <2>2
  <2> QED BY <2>1, <2>2
<1>4. /\ d \in Seq(Element) /\ Len(d) = n
      /\ \A i \in 1 .. n : d[i] = IF i <= Len(e) THEN e[i] ELSE value
  <2>1. value \in Element  BY DEF Element
  <2> HIDE DEF e, x, cells, new, all
  <2> QED BY <1>1, <2>1, ResizedFacts
<1> HIDE DEF cells, e
<1>5. cells \in Seq(Element) /\ Len(cells) \in Nat /\ \A i \in 1 .. Len(e) : cells[i] = e[i]
  BY <1>3, LenProperties DEF StartsWith
<1>6. CASE Len(e) <= n
  <2>1. Missing(e, n) = 1 .. n - Len(e) /\ n - Len(e) \in Nat  BY <1>1, <1>6 DEF Missing
  <2>2. new \in [1 .. n - Len(e) -> Element] /\ \A i \in 1 .. n - Len(e) : new[i] = value  BY <2>1 DEF Element
  <2> HIDE DEF new, d
  <2>3. new \in Seq(Element) /\ Len(new) = n - Len(e)  BY <2>1, <2>2, FunctionIsSequence
  <2>4. /\ all \in Seq(Element) /\ Len(all) = Len(cells)
        /\ \A i \in 1 .. Len(cells) : all[i] = IF i - Len(e) \in 1 .. Len(new) THEN new[i - Len(e)] ELSE cells[i]
    <3> DEFINE at == Len(e)
    <3>1. at \in Nat  BY <1>1
    <3> HIDE DEF at
    <3>2. LET s == Store(cells, at, new)
          IN  /\ s \in Seq(Element) /\ Len(s) = Len(cells)
              /\ \A i \in 1 .. Len(cells) : s[i] = IF i - at \in 1 .. Len(new) THEN new[i - at] ELSE cells[i]
      BY <1>5, <2>3, <3>1, StoreFacts
    <3> QED BY <3>2 DEF at
  <2> HIDE DEF all
  <2>5. ASSUME NEW i \in 1 .. n PROVE all[i] = d[i]
    <3>1. i \in 1 .. Len(cells)  BY <1>3, <1>5
    <3>2. CASE i <= Len(e)
      <4>1. i \in 1 .. Len(e) /\ i - Len(e) \notin 1 .. Len(new)  BY <1>1, <2>1, <2>3, <3>2
      <4> QED BY <1>4, <1>5, <2>4, <3>1, <3>2, <4>1
    <3>3. CASE ~(i <= Len(e))
      <4>1. i - Len(e) \in 1 .. n - Len(e)  BY <1>1, <3>3
      <4> QED BY <1>4, <2>2, <2>3, <2>4, <3>1, <3>3, <4>1
    <3> QED BY <3>2, <3>3
  <2>6. StartsWith(all, d)  BY <1>3, <1>4, <2>4, <2>5 DEF StartsWith
  <2> QED BY <1>2, <1>4, <2>6, SetKeepsVectors
<1>7. CASE ~(Len(e) <= n)
  <2>1. Missing(e, n) = 1 .. 0  BY <1>1, <1>7 DEF Missing
  <2>2. new \in [1 .. 0 -> Element]  BY <2>1
  <2> HIDE DEF new, d
  <2>3. new \in Seq(Element) /\ Len(new) = 0  BY <2>2, FunctionIsSequence
  <2>4. /\ all \in Seq(Element) /\ Len(all) = Len(cells)
        /\ \A i \in 1 .. Len(cells) : all[i] = IF i - Len(e) \in 1 .. Len(new) THEN new[i - Len(e)] ELSE cells[i]
    <3> DEFINE at == Len(e)
    <3>1. at \in Nat  BY <1>1
    <3> HIDE DEF at
    <3>2. LET s == Store(cells, at, new)
          IN  /\ s \in Seq(Element) /\ Len(s) = Len(cells)
              /\ \A i \in 1 .. Len(cells) : s[i] = IF i - at \in 1 .. Len(new) THEN new[i - at] ELSE cells[i]
      BY <1>5, <2>3, <3>1, StoreFacts
    <3> QED BY <3>2 DEF at
  <2> HIDE DEF all
  <2>5. ASSUME NEW i \in 1 .. n PROVE all[i] = d[i]
    <3>1. i \in 1 .. Len(cells) /\ i <= Len(e) /\ i \in 1 .. Len(e) /\ i - Len(e) \notin 1 .. Len(new)
      BY <1>1, <1>3, <1>5, <1>7, <2>3
    <3> QED BY <1>4, <1>5, <2>4, <3>1
  <2>6. StartsWith(all, d)  BY <1>3, <1>4, <2>4, <2>5 DEF StartsWith
  <2> QED BY <1>2, <1>4, <2>6, SetKeepsVectors
<1> QED BY <1>1, <1>6, <1>7

\* The first elements of a vector are left.
LEMMA ShortenedFacts ==
  ASSUME VectorsOK, NEW v \in Vectors, NEW n \in Nat, n <= Len(elements[v])
  PROVE  LET d == SubSeq(elements[v], 1, n) IN StartsWith(vectors[v].cells, d) /\ Len(d) = n
<1> DEFINE e == elements[v]
           c == vectors[v].cells
           d == SubSeq(e, 0 + 1, n)
<1>1. /\ c \in Seq(Element) /\ e \in Seq(Element) /\ Len(c) \in Nat /\ Len(e) \in Nat /\ Len(e) <= Len(c)
      /\ \A i \in 1 .. Len(e) : c[i] = e[i]  BY KnownVector DEF StartsWith
<1> HIDE DEF e, c
<1>2. d \in Seq(Element) /\ Len(d) = n - 0 /\ \A i \in 1 .. n - 0 : d[i] = e[0 + i]
  <2>1. n <= Len(e)  BY DEF e
  <2> QED BY <1>1, <2>1, CutFacts
<1>3. d = SubSeq(elements[v], 1, n)  BY DEF e
<1> HIDE DEF d
<1>4. StartsWith(c, d) /\ Len(d) = n
  <2>1. n <= Len(e)  BY DEF e
  <2> QED BY <1>1, <1>2, <2>1 DEF StartsWith
<1> QED BY <1>3, <1>4 DEF c

LEMMA PopBackStep ==
  ASSUME VectorsOK, NEW v \in Vectors, PopBack(v)
  PROVE  VectorsOK'
<1> DEFINE n == Len(elements[v]) - 1
<1>1. n \in Nat /\ n <= Len(elements[v]) /\ Size(v) = Len(elements[v])  BY KnownVector DEF PopBack
<1>2. Set(v, Vector(vectors[v].cells, n), SubSeq(elements[v], 1, n))  BY <1>1 DEF PopBack, Front
<1> HIDE DEF n
<1> QED BY <1>1, <1>2, ShortenedFacts, SetKeepsVectors

LEMMA ClearStep ==
  ASSUME VectorsOK, ClearVector
  PROVE  VectorsOK'
<1>1. PICK v \in Vectors : Set(v, Vector(vectors[v].cells, 0), <<>>)  BY DEF ClearVector
<1>2. StartsWith(vectors[v].cells, <<>>) /\ Len(<<>>) = 0  BY KnownVector, EmptySeq DEF StartsWith
<1> QED BY <1>1, <1>2, SetKeepsVectors

LEMMA InsertStep ==
  ASSUME VectorsOK, NEW v \in Vectors, NEW index \in 0 .. Size(v), NEW values \in Seq(Element),
         InsertFromRange(v, index, values)
  PROVE  VectorsOK'
<1> DEFINE gap == Gap(vectors[v], index, Len(values))
           d == DocumentedInsert(v, index, values)
<1>1. Set(v, Vector(Store(gap.cells, index, values), gap.size), d)  BY DEF InsertFromRange
<1>2. index \in 0 .. Len(elements[v])  BY KnownVector
<1>3. StartsWith(Store(gap.cells, index, values), d) /\ gap.size = Len(d)  BY <1>2, InsertedInGap
<1> HIDE DEF gap, d
<1> QED BY <1>1, <1>3, SetKeepsVectors

LEMMA InsertUninitializedStep ==
  ASSUME VectorsOK, NEW v \in Vectors, NEW index \in 0 .. Size(v), NEW n \in Nat,
         InsertUninitialized(v, index, n)
  PROVE  VectorsOK'
<1> DEFINE gap == Gap(vectors[v], index, n)
           values == Nothing(n)
           d == DocumentedInsert(v, index, values)
<1>1. Set(v, Vector(Store(gap.cells, index, values), gap.size), d)  BY DEF InsertUninitialized
<1>2. index \in 0 .. Len(elements[v]) /\ values \in Seq(Element) /\ n = Len(values)  BY KnownVector, NothingFacts
<1> HIDE DEF values
<1>3. StartsWith(Store(gap.cells, index, values), d) /\ gap.size = Len(d)  BY <1>2, InsertedInGap
<1> HIDE DEF gap, d
<1> QED BY <1>1, <1>3, SetKeepsVectors

\* What follows the elements that are taken out comes in their place.
LEMMA EraseStep ==
  ASSUME VectorsOK, NEW v \in Vectors, NEW first \in 0 .. Size(v), NEW last \in first .. Size(v),
         Erase(v, first, last)
  PROVE  VectorsOK'
<1> DEFINE e == elements[v]
           c == vectors[v].cells
           size == Len(e)
           moved == Moved(c, last, size, first)
           before == SubSeq(e, 0 + 1, first)
           after == SubSeq(e, last + 1, size)
           d == before \o after
<1>1. /\ c \in Seq(Element) /\ e \in Seq(Element) /\ Len(c) \in Nat /\ size \in Nat /\ size <= Len(c)
      /\ Size(v) = size /\ \A i \in 1 .. size : c[i] = e[i]  BY KnownVector DEF StartsWith
<1>2. first \in Nat /\ last \in Nat /\ first <= last /\ last <= size  BY <1>1
<1>3. Set(v, Vector(moved, size - (last - first)), d)  BY <1>1 DEF Erase
<1> HIDE DEF e, c, size
<1>4. /\ moved \in Seq(Element) /\ Len(moved) = Len(c)
      /\ \A i \in 1 .. Len(c) : moved[i] = IF i - first \in 1 .. size - last THEN c[last + (i - first)] ELSE c[i]
  BY <1>1, <1>2, MovedFacts
<1> HIDE DEF moved
<1>5. before \in Seq(Element) /\ Len(before) = first - 0 /\ \A i \in 1 .. first - 0 : before[i] = e[0 + i]
  <2>1. first <= Len(e)  BY <1>1, <1>2 DEF size
  <2> QED BY <1>1, <1>2, <2>1, CutFacts
<1>6. after \in Seq(Element) /\ Len(after) = size - last /\ \A i \in 1 .. size - last : after[i] = e[last + i]
  <2>1. size <= Len(e)  BY <1>1 DEF size
  <2> QED BY <1>1, <1>2, <2>1, CutFacts
<1> HIDE DEF before, after
<1>7. /\ d \in Seq(Element) /\ Len(d) = first + (size - last)
      /\ \A i \in 1 .. first + (size - last) : d[i] = IF i <= first THEN before[i] ELSE after[i - first]
  <2>1. Len(before) = first  BY <1>2, <1>5
  <2>2. /\ d \in Seq(Element) /\ Len(d) = Len(before) + Len(after)
        /\ \A i \in 1 .. Len(before) + Len(after) :
             d[i] = IF i <= Len(before) THEN before[i] ELSE after[i - Len(before)]  BY <1>5, <1>6, JoinFacts
  <2> HIDE DEF d
  <2> QED BY <1>6, <2>1, <2>2
<1> HIDE DEF d
<1>8. first + (size - last) = size - (last - first) /\ Len(d) <= Len(moved)  BY <1>1, <1>2, <1>4, <1>7
<1>9. ASSUME NEW i \in 1 .. first + (size - last) PROVE moved[i] = d[i]
  <2>1. CASE i <= first
    <3>1. i \in 1 .. Len(c) /\ i \in 1 .. size /\ i - first \notin 1 .. size - last /\ i \in 1 .. first - 0 /\ 0 + i = i
      BY <1>1, <1>2, <2>1
    <3> QED BY <1>1, <1>4, <1>5, <1>7, <2>1, <3>1
  <2>2. CASE ~(i <= first)
    <3>1. /\ i \in 1 .. Len(c) /\ i - first \in 1 .. size - last /\ last + (i - first) \in 1 .. size
      BY <1>1, <1>2, <2>2
    <3>2. moved[i] = e[last + (i - first)]  BY <1>1, <1>4, <3>1
    <3>3. d[i] = e[last + (i - first)]  BY <1>6, <1>7, <2>2, <3>1
    <3> QED BY <3>2, <3>3
  <2> QED BY <2>1, <2>2
<1>10. StartsWith(moved, d)  BY <1>4, <1>7, <1>8, <1>9 DEF StartsWith
<1> QED BY <1>3, <1>7, <1>8, <1>10, SetKeepsVectors

LEMMA NewSequences ==
  ASSUME NEW x \in NewValues, NEW y \in NewValues
  PROVE  <<x>> \in Seq(Element) /\ <<x, y>> \in Seq(Element)  BY DEF Element

LEMMA AloneStep ==
  ASSUME VectorsOK, NEW v \in Vectors, Alone(v), \A value \in NewValues : ToSizeT(value) = value
  PROVE  VectorsOK'
<1>0. MaxSize \in Nat /\ Size(v) \in Nat  BY KnownVector, VectorsAssumption
<1>1. ASSUME NEW n \in 0 .. MaxSize,
             \/ Construct(v, n) \/ Resize(v, n) \/ Reserve(v, n)
             \/ \E value \in NewValues : ResizeFilled(v, n, value) \/ Assign(v, n, value)
      PROVE  VectorsOK'
  <2>1. n \in Nat  BY <1>0
  <2>2. CASE Construct(v, n) \/ Resize(v, n) \/ Reserve(v, n)  BY <2>1, <2>2, ConstructStep, ResizeStep, ReserveStep
  <2>3. ASSUME NEW value \in NewValues, ResizeFilled(v, n, value) PROVE VectorsOK'  BY <2>1, <2>3, ResizeFilledStep
  <2>4. ASSUME NEW value \in NewValues, Assign(v, n, value) PROVE VectorsOK'
    <3> DEFINE values == [i \in 1 .. n |-> value]
    <3>1. values \in [1 .. n -> Element] /\ AssignFromRange(v, values)  BY <2>4 DEF Element, Assign
    <3> HIDE DEF values
    <3>2. values \in Seq(Element)  BY <2>1, <3>1, FunctionIsSequence
    <3> QED BY <3>1, <3>2, AssignStep
  <2> QED BY <1>1, <2>2, <2>3, <2>4
<1>2. ASSUME NEW n \in 1 .. MaxSize - Size(v),
             PushBackUninitialized(v, n) \/ \E index \in 0 .. Size(v) : InsertUninitialized(v, index, n)
      PROVE  VectorsOK'
  <2>1. n \in Nat /\ Size(v) + n \in Nat  BY <1>0
  <2>2. CASE PushBackUninitialized(v, n)  BY <2>1, <2>2, ResizeStep DEF PushBackUninitialized
  <2>3. ASSUME NEW index \in 0 .. Size(v), InsertUninitialized(v, index, n) PROVE VectorsOK'
    BY <2>1, <2>3, InsertUninitializedStep
  <2> QED BY <1>2, <2>2, <2>3
<1>3. ASSUME NEW value \in NewValues,
             PushBack(v, value) \/ \E index \in 0 .. Size(v) : Insert(v, index, value)
      PROVE  VectorsOK'
  <2>1. <<value>> \in Seq(Element)  BY NewSequences
  <2>2. CASE PushBack(v, value)  BY <2>1, <2>2, PushBackStep DEF PushBack
  <2>3. ASSUME NEW index \in 0 .. Size(v), Insert(v, index, value) PROVE VectorsOK'
    BY <2>1, <2>3, InsertStep DEF Insert
  <2> QED BY <1>3, <2>2, <2>3
<1>4. ASSUME NEW x \in NewValues, NEW y \in NewValues,
             \/ ConstructFrom(v, <<x, y>>) \/ AssignFromRange(v, <<x, y>>)
             \/ PushBackRange(v, <<x, y>>) \/ \E index \in 0 .. Size(v) : InsertFromRange(v, index, <<x, y>>)
      PROVE  VectorsOK'
  <2>1. <<x, y>> \in Seq(Element)  BY NewSequences
  <2>2. CASE ConstructFrom(v, <<x, y>>) \/ AssignFromRange(v, <<x, y>>) \/ PushBackRange(v, <<x, y>>)
    BY <2>1, <2>2, ConstructFromStep, AssignStep, PushBackStep
  <2>3. ASSUME NEW index \in 0 .. Size(v), InsertFromRange(v, index, <<x, y>>) PROVE VectorsOK'
    BY <2>1, <2>3, InsertStep
  <2> QED BY <1>4, <2>2, <2>3
<1>5. ASSUME NEW first \in 0 .. Size(v), NEW last \in first .. Size(v), Erase(v, first, last) PROVE VectorsOK'
  BY <1>5, EraseStep
<1>6. CASE ShrinkToFit(v) \/ PopBack(v)  BY <1>6, ShrinkToFitStep, PopBackStep
<1> QED BY <1>1, <1>2, <1>3, <1>4, <1>5, <1>6 DEF Alone

\* Whatever is done to vectors, and in whatever order, each has the elements that its
\* documentation says, for any values, sizes and number of vectors, when copies are made to
\* vectors of the same size or without room (a copy to a larger one keeps its old size, for
\* which `AssignAnySize' stands), and the values that vectors are filled with are integers,
\* which is what they are converted to (uvector_11.h).
THEOREM VectorsHoldTheirElements ==
  ASSUME ~AssignAnySize, \A value \in NewValues : ToSizeT(value) = value
  PROVE  UVectorSpec => []ElementsAsDocumented
<1>1. UVectorInit => VectorsOK
  <2>1. Null \in [cells : Seq(Element), size : Nat] /\ <<>> \in Seq(Element)  BY NullIsOK DEF VectorOK, StartsWith
  <2> QED BY <2>1, NullIsOK DEF UVectorInit, VectorsOK
<1>2. VectorsOK /\ [UVectorNext]_uvectorVars => VectorsOK'
  <2> SUFFICES ASSUME VectorsOK, [UVectorNext]_uvectorVars PROVE VectorsOK'  OBVIOUS
  <2>1. CASE UNCHANGED uvectorVars  BY <2>1 DEF uvectorVars, VectorsOK, VectorOK
  <2>2. CASE ClearVector  BY <2>2, ClearStep
  <2>3. ASSUME NEW v \in Vectors, Alone(v) PROVE VectorsOK'  BY <2>3, AloneStep
  <2>4. ASSUME NEW v \in Vectors, NEW other \in Vectors \ {v}, Together(v, other) PROVE VectorsOK'
    <3>1. v # other /\ other \in Vectors  OBVIOUS
    <3> QED BY <2>4, <3>1, CopyConstructStep, CopyAssignStep, TakeStep DEF Together, MoveConstruct, MoveAssign
  <2> QED BY <2>1, <2>2, <2>3, <2>4 DEF UVectorNext
<1>3. VectorsOK => ElementsAsDocumented  BY KnownVector DEF ElementsAsDocumented
<1> QED BY <1>1, <1>2, <1>3, PTL DEF UVectorSpec

----
\* The minor loop (genericclean.cpp), for any images and settings.
\* Integrated images are sums over the linked images.  That a sum of
\* integers is one, and that there is one at all, is shown for the
\* functions that sum over all subsets, by a smallest subset without one.
OneOf(s) == CHOOSE x \in s : TRUE
Sums(F, S, f) == F = [s \in SUBSET S |-> IF s = {} THEN 0 ELSE f[OneOf(s)] + F[s \ {OneOf(s)}]]

AddsUp(F, S, f) ==
  F[{}] = 0 /\ \A s \in SUBSET S : s # {} => F[s] = f[OneOf(s)] + F[s \ {OneOf(s)}]

LEMMA SumsOf == ASSUME NEW F, NEW S, NEW f, Sums(F, S, f) PROVE AddsUp(F, S, f)
<1>1. \A s \in SUBSET S :
        F[s] = IF s = {} THEN 0 ELSE f[OneOf(s)] + F[s \ {OneOf(s)}]  BY DEF Sums
<1> QED BY <1>1 DEF AddsUp

LEMMA OneOfSet == ASSUME NEW s, s # {} PROVE OneOf(s) \in s  BY DEF OneOf

\* Subsets have fewer elements.
LEMMA FewerElements ==
  ASSUME NEW S, IsFiniteSet(S), NEW s \in SUBSET S, NEW x \in s
  PROVE  /\ IsFiniteSet(s) /\ Cardinality(s) \in Nat /\ Cardinality(s \ {x}) \in Nat
         /\ Cardinality(s \ {x}) = Cardinality(s) - 1  BY FS_Subset, FS_RemoveElement, FS_CardinalityType

\* A property of finite sets that fails has a smallest set for which it does.
LEMMA SmallestSet ==
  ASSUME NEW S, IsFiniteSet(S), NEW Bad, Bad \subseteq SUBSET S, Bad # {}
  PROVE  \E s \in Bad : \A t \in SUBSET S : Cardinality(t) < Cardinality(s) => t \notin Bad
<1> DEFINE Numbers == {n \in Nat : \E t \in Bad : Cardinality(t) = n}
<1>1. \A t \in SUBSET S : Cardinality(t) \in Nat  BY FS_Subset, FS_CardinalityType
<1>2. Numbers # {} /\ Numbers \subseteq Nat  BY <1>1
<1> HIDE DEF Numbers
<1>3. PICK n \in Numbers : \A m \in Numbers : n <= m  BY <1>2, LeastElement
<1>4. PICK s \in Bad : Cardinality(s) = n  BY <1>3 DEF Numbers
<1>5. ASSUME NEW t \in SUBSET S, Cardinality(t) < Cardinality(s), t \in Bad PROVE FALSE
  <2>1. Cardinality(t) \in Numbers  BY <1>1, <1>5 DEF Numbers
  <2>2. Cardinality(t) \in Nat /\ n \in Nat /\ n <= Cardinality(t)  BY <1>1, <1>2, <1>3, <2>1
  <2> QED BY <1>4, <1>5, <2>2
<1> QED BY <1>5

\* Two functions that sum agree where both do.
LEMMA OneSumOfSubsets ==
  ASSUME NEW S, IsFiniteSet(S), NEW T \in SUBSET S, NEW U \in SUBSET S, NEW f,
         NEW F, Sums(F, T, f), NEW G, Sums(G, U, f), NEW s \in SUBSET T, s \in SUBSET U
  PROVE  F[s] = G[s]
<1>a. AddsUp(F, T, f) /\ AddsUp(G, U, f)  BY SumsOf
<1> DEFINE Bad == {t \in SUBSET S : t \in SUBSET T /\ t \in SUBSET U /\ F[t] # G[t]}
<1>1. Bad = {}
  <2> SUFFICES ASSUME Bad # {} PROVE FALSE  OBVIOUS
  <2>1. Bad \subseteq SUBSET S  OBVIOUS
  <2> HIDE DEF Bad
  <2>2. PICK t \in Bad : \A u \in SUBSET S : Cardinality(u) < Cardinality(t) => u \notin Bad  BY <2>1, SmallestSet
  <2>3. t \in SUBSET S /\ t \in SUBSET T /\ t \in SUBSET U /\ F[t] # G[t]  BY <2>2 DEF Bad
  <2>4. t # {}  BY <1>a, <2>3 DEF AddsUp
  <2> DEFINE x == OneOf(t)
             u == t \ {x}
  <2>5. x \in t /\ F[t] = f[x] + F[u] /\ G[t] = f[x] + G[u]
    <3>1. x \in t  BY <2>4, OneOfSet
    <3>2. F[t] = f[x] + F[u]  BY <1>a, <2>3, <2>4 DEF AddsUp
    <3>3. G[t] = f[x] + G[u]  BY <1>a, <2>3, <2>4 DEF AddsUp
    <3> QED BY <3>1, <3>2, <3>3
  <2> HIDE DEF x
  <2>6. u \in SUBSET S /\ u \in SUBSET T /\ u \in SUBSET U  BY <2>3
  <2>7. Cardinality(u) < Cardinality(t)  BY <2>3, <2>5, FewerElements
  <2>8. F[u] = G[u]  BY <2>2, <2>6, <2>7 DEF Bad
  <2> QED BY <2>3, <2>5, <2>8
<1> QED BY <1>1

LEMMA SumsExist ==
  ASSUME NEW S, IsFiniteSet(S), NEW f
  PROVE  \E F : Sums(F, S, f)
<1> DEFINE Bad == {T \in SUBSET S : ~\E F : Sums(F, T, f)}
<1>1. Bad = {}
  <2> SUFFICES ASSUME Bad # {} PROVE FALSE  OBVIOUS
  <2>1. Bad \subseteq SUBSET S  OBVIOUS
  <2> HIDE DEF Bad
  <2>2. PICK T \in Bad : \A u \in SUBSET S : Cardinality(u) < Cardinality(T) => u \notin Bad  BY <2>1, SmallestSet
  <2>3. T \in SUBSET S /\ ~\E F : Sums(F, T, f)  BY <2>2 DEF Bad
  <2> DEFINE of(u) == CHOOSE F : Sums(F, u, f)
             F == [s \in SUBSET T |-> IF s = {} THEN 0 ELSE f[OneOf(s)] + of(s \ {OneOf(s)})[s \ {OneOf(s)}]]
  <2>4. ASSUME NEW u \in SUBSET T, u # T PROVE Sums(of(u), u, f)
    <3>1. Cardinality(u) < Cardinality(T)
      <4>1. IsFiniteSet(T)  BY <2>3, FS_Subset
      <4>2. Cardinality(u) <= Cardinality(T) /\ (Cardinality(u) = Cardinality(T) => u = T)  BY <4>1, FS_Subset
      <4>3. Cardinality(u) \in Nat /\ Cardinality(T) \in Nat  BY <2>3, FS_Subset, FS_CardinalityType
      <4> QED BY <2>4, <4>2, <4>3
    <3>2. \E G : Sums(G, u, f)  BY <2>2, <2>3, <3>1 DEF Bad
    <3> QED BY <3>2
  <2>5. ASSUME NEW s \in SUBSET T, s # {} PROVE F[s \ {OneOf(s)}] = of(s \ {OneOf(s)})[s \ {OneOf(s)}]
    <3> DEFINE u == s \ {OneOf(s)}
    <3>1. OneOf(s) \in s  BY <2>5, OneOfSet
    <3>2. u \in SUBSET T /\ u # T  BY <3>1
    <3>3. Sums(of(u), u, f)  BY <2>4, <3>2
    <3> HIDE DEF of
    <3>6. AddsUp(of(u), u, f)  BY <3>3, SumsOf
    <3>4. CASE u = {}
      <4>1. F[u] = 0  BY <3>2, <3>4
      <4>2. of(u)[u] = 0  BY <3>4, <3>6 DEF AddsUp
      <4> QED BY <4>1, <4>2
    <3>5. CASE u # {}
      <4> DEFINE w == u \ {OneOf(u)}
      <4>1. F[u] = f[OneOf(u)] + of(w)[w]  BY <3>2, <3>5
      <4>2. of(u)[u] = f[OneOf(u)] + of(u)[w]  BY <3>5, <3>6 DEF AddsUp
      <4>3. w \in SUBSET T /\ w # T /\ w \in SUBSET u  BY <3>2
      <4>4. Sums(of(w), w, f)  BY <2>4, <4>3 DEF of
      <4> HIDE DEF w, u, F
      <4>5. of(u)[w] = of(w)[w]  BY <2>3, <3>2, <3>3, <4>3, <4>4, OneSumOfSubsets
      <4> QED BY <4>1, <4>2, <4>5 DEF u
    <3> QED BY <3>4, <3>5
  <2>6. \A s \in SUBSET T : F[s] = IF s = {} THEN 0 ELSE f[OneOf(s)] + F[s \ {OneOf(s)}]
    <3> SUFFICES ASSUME NEW s \in SUBSET T PROVE F[s] = IF s = {} THEN 0 ELSE f[OneOf(s)] + F[s \ {OneOf(s)}]  OBVIOUS
    <3>1. F[s] = IF s = {} THEN 0 ELSE f[OneOf(s)] + of(s \ {OneOf(s)})[s \ {OneOf(s)}]  OBVIOUS
    <3> HIDE DEF F, of
    <3> QED BY <2>5, <3>1
  <2>7. F = [s \in SUBSET T |-> F[s]]  OBVIOUS
  <2> HIDE DEF F
  <2>8. Sums(F, T, f)  BY <2>6, <2>7 DEF Sums
  <2> QED BY <2>3, <2>8
<1> QED BY <1>1

LEMMA SumsAreIntegers ==
  ASSUME NEW S, IsFiniteSet(S), NEW f \in [S -> Int], NEW F, Sums(F, S, f)
  PROVE  F[S] \in Int
<1>a. AddsUp(F, S, f)  BY SumsOf
<1> DEFINE Bad == {s \in SUBSET S : F[s] \notin Int}
<1>1. Bad = {}
  <2> SUFFICES ASSUME Bad # {} PROVE FALSE  OBVIOUS
  <2>1. Bad \subseteq SUBSET S  OBVIOUS
  <2> HIDE DEF Bad
  <2>2. PICK t \in Bad : \A u \in SUBSET S : Cardinality(u) < Cardinality(t) => u \notin Bad  BY <2>1, SmallestSet
  <2>3. t \in SUBSET S /\ F[t] \notin Int  BY <2>2 DEF Bad
  <2>4. t # {}
    <3>1. F[{}] = 0  BY <1>a DEF AddsUp
    <3> QED BY <2>3, <3>1
  <2> DEFINE x == OneOf(t)
             u == t \ {x}
  <2>5. x \in t /\ F[t] = f[x] + F[u]  BY <1>a, <2>3, <2>4, OneOfSet DEF AddsUp
  <2> HIDE DEF x
  <2>6. u \in SUBSET S  BY <2>3
  <2>7. Cardinality(u) < Cardinality(t)  BY <2>3, <2>5, FewerElements
  <2>8. F[u] \in Int  BY <2>2, <2>6, <2>7 DEF Bad
  <2>9. f[x] \in Int  BY <2>3, <2>5
  <2> QED BY <2>3, <2>5, <2>8, <2>9
<1> QED BY <1>1

\* What is summed over the images: values, and squares.
ValueSum(images, p, S) == MapThenSumSet(LAMBDA i : images[i][p], S)
SquareSum(images, p, S) == MapThenSumSet(LAMBDA i : images[i][p] * images[i][p], S)

LEMMA SumOfValues ==
  ASSUME NEW S, IsFiniteSet(S), NEW images, NEW p, \A i \in S : images[i][p] \in Int
  PROVE  ValueSum(images, p, S) \in Int
<1> DEFINE f == [i \in S |-> images[i][p]]
           IsSum(F) == F = [s \in SUBSET S |-> IF s = {} THEN 0 ELSE images[OneOf(s)][p] + F[s \ {OneOf(s)}]]
           F == CHOOSE F : IsSum(F)
<1>1. f \in [S -> Int]  OBVIOUS
<1>2. \A s \in SUBSET S : s # {} => f[OneOf(s)] = images[OneOf(s)][p]  BY OneOfSet
<1>3. ASSUME NEW G PROVE IsSum(G) <=> Sums(G, S, f)
  <2> DEFINE A(s) == IF s = {} THEN 0 ELSE images[OneOf(s)][p] + G[s \ {OneOf(s)}]
             B(s) == IF s = {} THEN 0 ELSE f[OneOf(s)] + G[s \ {OneOf(s)}]
  <2>1. \A s \in SUBSET S : A(s) = B(s)
    <3> HIDE DEF f
    <3> QED BY <1>2
  <2>2. [s \in SUBSET S |-> A(s)] = [s \in SUBSET S |-> B(s)]
    <3> HIDE DEF A, B
    <3> QED BY <2>1
  <2> QED BY <2>2 DEF Sums
<1> HIDE DEF f
<1>4. \E G : IsSum(G)
  <2>1. PICK G : Sums(G, S, f)  BY <1>1, SumsExist
  <2> QED BY <1>3, <2>1
<1>5. IsSum(F)
  <2> HIDE DEF IsSum
  <2> QED BY <1>4
<1>6. MapThenSumSet(LAMBDA i : images[i][p], S) = F[S]  BY DEF MapThenSumSet, MapThenFoldSet, OneOf
<1> HIDE DEF F, IsSum
<1> QED BY <1>1, <1>3, <1>5, <1>6, SumsAreIntegers DEF ValueSum

LEMMA SumOfSquares ==
  ASSUME NEW S, IsFiniteSet(S), NEW images, NEW p, \A i \in S : images[i][p] \in Int
  PROVE  SquareSum(images, p, S) \in Int
<1> DEFINE f == [i \in S |-> images[i][p] * images[i][p]]
           IsSum(F) == F = [s \in SUBSET S |-> IF s = {} THEN 0 ELSE images[OneOf(s)][p] * images[OneOf(s)][p] + F[s \ {OneOf(s)}]]
           F == CHOOSE F : IsSum(F)
<1>1. f \in [S -> Int]  OBVIOUS
<1>2. \A s \in SUBSET S : s # {} => f[OneOf(s)] = images[OneOf(s)][p] * images[OneOf(s)][p]  BY OneOfSet
<1>3. ASSUME NEW G PROVE IsSum(G) <=> Sums(G, S, f)
  <2> DEFINE A(s) == IF s = {} THEN 0 ELSE images[OneOf(s)][p] * images[OneOf(s)][p] + G[s \ {OneOf(s)}]
             B(s) == IF s = {} THEN 0 ELSE f[OneOf(s)] + G[s \ {OneOf(s)}]
  <2>1. \A s \in SUBSET S : A(s) = B(s)
    <3> HIDE DEF f
    <3> QED BY <1>2
  <2>2. [s \in SUBSET S |-> A(s)] = [s \in SUBSET S |-> B(s)]
    <3> HIDE DEF A, B
    <3> QED BY <2>1
  <2> QED BY <2>2 DEF Sums
<1> HIDE DEF f
<1>4. \E G : IsSum(G)
  <2>1. PICK G : Sums(G, S, f)  BY <1>1, SumsExist
  <2> QED BY <1>3, <2>1
<1>5. IsSum(F)
  <2> HIDE DEF IsSum
  <2> QED BY <1>4
<1>6. MapThenSumSet(LAMBDA i : images[i][p] * images[i][p], S) = F[S]  BY DEF MapThenSumSet, MapThenFoldSet, OneOf
<1> HIDE DEF F, IsSum
<1> QED BY <1>1, <1>3, <1>5, <1>6, SumsAreIntegers DEF SquareSum

----
\* Peaks: of finitely many pixels one is highest, the first of those that
\* are as high.
IsAbove(image, p, q) ==
  \/ HeightOf(image[p]) > HeightOf(image[q])
  \/ HeightOf(image[p]) = HeightOf(image[q]) /\ IsBefore(p, q)
IsHighest(image, T, p) == p \in T /\ \A q \in T : IsAbove(image, p, q)
HasHeights(image, T) == T \subseteq Int \X Int /\ \A p \in T : HeightOf(image[p]) \in Int

LEMMA AboveIsTotal ==
  ASSUME NEW image, NEW T, HasHeights(image, T), NEW p \in T, NEW q \in T
  PROVE  IsAbove(image, p, q) \/ IsAbove(image, q, p)
<1>1. p[1] \in Int /\ p[2] \in Int /\ q[1] \in Int /\ q[2] \in Int  BY DEF HasHeights
<1>2. HeightOf(image[p]) \in Int /\ HeightOf(image[q]) \in Int  BY DEF HasHeights
<1> QED BY <1>1, <1>2 DEF IsAbove, IsBefore

LEMMA AboveIsReflexive == ASSUME NEW image, NEW T, HasHeights(image, T), NEW p \in T PROVE IsAbove(image, p, p)
BY AboveIsTotal

LEMMA AboveIsTransitive ==
  ASSUME NEW image, NEW T, HasHeights(image, T), NEW p \in T, NEW q \in T, NEW r \in T,
         IsAbove(image, p, q), IsAbove(image, q, r)
  PROVE  IsAbove(image, p, r)
<1>1. p[1] \in Int /\ p[2] \in Int /\ q[1] \in Int /\ q[2] \in Int /\ r[1] \in Int /\ r[2] \in Int  BY DEF HasHeights
<1>2. HeightOf(image[p]) \in Int /\ HeightOf(image[q]) \in Int /\ HeightOf(image[r]) \in Int  BY DEF HasHeights
<1> QED BY <1>1, <1>2 DEF IsAbove, IsBefore

LEMMA HighestExists ==
  ASSUME NEW image, NEW S, IsFiniteSet(S), S # {}, HasHeights(image, S)
  PROVE  HighestOf(image, S) \in S
<1> DEFINE Bad == {T \in SUBSET S : T # {} /\ ~\E p : IsHighest(image, T, p)}
<1>1. Bad = {}
  <2> SUFFICES ASSUME Bad # {} PROVE FALSE  OBVIOUS
  <2>1. Bad \subseteq SUBSET S  OBVIOUS
  <2> HIDE DEF Bad
  <2>2. PICK T \in Bad : \A u \in SUBSET S : Cardinality(u) < Cardinality(T) => u \notin Bad  BY <2>1, SmallestSet
  <2>3. T \in SUBSET S /\ T # {} /\ ~\E p : IsHighest(image, T, p)  BY <2>2 DEF Bad
  <2>4. PICK x \in T : TRUE  BY <2>3
  <2> DEFINE R == T \ {x}
  <2>5. Cardinality(R) < Cardinality(T)  BY <2>3, <2>4, FewerElements
  <2>6. R \in SUBSET S /\ R \notin Bad  BY <2>2, <2>3, <2>5
  <2>7. IsAbove(image, x, x)  BY <2>3, <2>4, AboveIsReflexive
  <2>8. CASE R = {}
    <3>1. \A q \in T : q = x  BY <2>8
    <3> QED BY <2>3, <2>4, <2>7, <3>1 DEF IsHighest
  <2>9. CASE R # {}
    <3>1. PICK z : IsHighest(image, R, z)  BY <2>6, <2>9 DEF Bad
    <3>2. z \in S /\ x \in S /\ z \in T /\ \A q \in R : q \in S /\ IsAbove(image, z, q)
      BY <2>3, <2>4, <3>1 DEF IsHighest
    <3>3. \A q \in T : q = x \/ q \in R  OBVIOUS
    <3>4. CASE IsAbove(image, z, x)  BY <2>3, <3>2, <3>3, <3>4 DEF IsHighest
    <3>5. CASE IsAbove(image, x, z)
      <4>1. \A q \in R : IsAbove(image, x, q)  BY <3>2, <3>5, AboveIsTransitive
      <4> QED BY <2>3, <2>4, <2>7, <3>3, <4>1 DEF IsHighest
    <3> QED BY <3>2, <3>4, <3>5, AboveIsTotal
  <2> QED BY <2>8, <2>9
<1>2. PICK p : IsHighest(image, S, p)  BY <1>1
<1>3. p \in S /\ \A q \in S : \/ HeightOf(image[p]) > HeightOf(image[q])
                              \/ HeightOf(image[p]) = HeightOf(image[q]) /\ IsBefore(p, q)
  BY <1>2 DEF IsHighest, IsAbove
<1> QED BY <1>3 DEF HighestOf

\* What is known of the settings of a call.
LEMMA OneSetup ==
  ASSUME clean \in CleanSetups
  PROVE  /\ clean.width \in Nat \ {0} /\ clean.height \in Nat \ {0}
         /\ clean.dirty \in Seq([CleanPixels -> Int]) /\ clean.dirty # <<>>
         /\ Images = 1 .. Len(clean.dirty) /\ Len(clean.dirty) \in Nat \ {0}
         /\ \A i \in Images : clean.dirty[i] \in [CleanPixels -> Int]
         /\ clean.linked \subseteq Images /\ clean.mask \subseteq CleanPixels
         /\ clean.psfs \in [Images -> [CleanPixels -> Int]]
         /\ clean.rmsFactor \in [CleanPixels -> Nat]
         /\ clean.border \in Nat /\ clean.threshold \in Nat /\ clean.majorIterThreshold \in Nat
         /\ clean.keptHalves \in Nat /\ clean.threads \in Nat \ {0}
<1>1. /\ clean.width \in Nat \ {0} /\ clean.height \in Nat \ {0}
      /\ clean.dirty \in Seq([CleanPixels -> Int]) /\ clean.dirty # <<>>
      /\ clean.linked \subseteq Images /\ clean.mask \subseteq CleanPixels
      /\ clean.psfs \in [Images -> [CleanPixels -> Int]]
      /\ clean.rmsFactor \in [CleanPixels -> Nat]
      /\ clean.border \in Nat /\ clean.threshold \in Nat /\ clean.majorIterThreshold \in Nat
      /\ clean.keptHalves \in Nat /\ clean.threads \in Nat \ {0}
  BY CleanSetupsAssumption DEF CleanSetupsAssumption, CleanPixels, Images
<1>2. Images = 1 .. Len(clean.dirty) /\ Len(clean.dirty) \in Nat \ {0}  BY <1>1 DEF Images
<1>3. \A i \in Images : clean.dirty[i] \in [CleanPixels -> Int]  BY <1>1, <1>2
<1> QED BY <1>1, <1>2, <1>3

LEMMA FinitePixels ==
  ASSUME clean \in CleanSetups
  PROVE  IsFiniteSet(CleanPixels) /\ CleanPixels \subseteq Int \X Int /\ <<0, 0>> \in CleanPixels
<1>1. clean.width \in Nat \ {0} /\ clean.height \in Nat \ {0}  BY OneSetup
<1>2. IsFiniteSet(0 .. clean.width - 1) /\ IsFiniteSet(0 .. clean.height - 1)
  <2> DEFINE w == clean.width - 1
             h == clean.height - 1
  <2>1. w \in Int /\ h \in Int  BY <1>1
  <2> HIDE DEF w, h
  <2>2. IsFiniteSet(0 .. w) /\ IsFiniteSet(0 .. h)  BY <2>1, FS_Interval
  <2> QED BY <2>2 DEF w, h
<1>3. IsFiniteSet((0 .. clean.width - 1) \X (0 .. clean.height - 1))  BY <1>2, FS_Product
<1> QED BY <1>1, <1>3 DEF CleanPixels, PixelsOf

\* FindPeakAVX is only used for images without a border in which negative peaks count.
PeaksAreAllowed ==
  \A c \in CleanSetups : c.avx => c.border = 0 /\ (c.allowNegatives \/ c.stopOnNegative)

LEMMA HeightIsInteger == ASSUME NEW v \in Int PROVE HeightOf(v) \in Int /\ Magnitude(v) \in Nat
BY DEF HeightOf, Magnitude

\* A peak is a pixel, and one with a value is allowed.
LEMMA PeakIsAllowed ==
  ASSUME PeaksAreAllowed, clean \in CleanSetups, NEW image \in [CleanPixels -> Int], FindPeak(image) # NoPeak
  PROVE  /\ FindPeak(image) \in CleanPixels
         /\ Magnitude(image[FindPeak(image)]) > 0 =>
              FindPeak(image) \in InsideBorder \cap clean.mask /\ HeightOf(image[FindPeak(image)]) > 0
<1> DEFINE found == {p \in InsideBorder \cap clean.mask : HeightOf(image[p]) > 0}
<1>1. clean.mask \subseteq CleanPixels  BY OneSetup
<1>2. CASE found # {}
  <2>1. FindPeak(image) = HighestOf(image, found)  BY <1>2 DEF FindPeak
  <2>2. found \subseteq CleanPixels  BY <1>1
  <2>3. HasHeights(image, found)
    <3>1. \A p \in found : image[p] \in Int  BY <2>2
    <3>2. \A p \in found : HeightOf(image[p]) \in Int  BY <3>1, HeightIsInteger
    <3> HIDE DEF found
    <3> QED BY <2>2, <3>2, FinitePixels DEF HasHeights
  <2>4. IsFiniteSet(found)  BY <2>2, FinitePixels, FS_Subset
  <2>5. HighestOf(image, found) \in found
    <3> HIDE DEF found
    <3> QED BY <1>2, <2>3, <2>4, HighestExists
  <2> HIDE DEF found
  <2>6. FindPeak(image) \in found  BY <2>1, <2>5
  <2> QED BY <2>2, <2>6 DEF found
<1>3. CASE found = {}
  <2>1. clean.avx /\ clean.mask = CleanPixels /\ FindPeak(image) = <<0, 0>>  BY <1>3 DEF FindPeak
  <2>2. clean.border = 0 /\ AllowNegatives  BY <2>1 DEF PeaksAreAllowed, AllowNegatives
  <2>3. <<0, 0>> \in CleanPixels /\ image[<<0, 0>>] \in Int  BY FinitePixels
  <2>4. <<0, 0>> \in InsideBorder
    <3>1. clean.width \in Nat \ {0} /\ clean.height \in Nat \ {0}  BY OneSetup
    <3> QED BY <2>2, <3>1 DEF InsideBorder, GreatestOf
  <2>5. ~(HeightOf(image[<<0, 0>>]) > 0)  BY <1>3, <2>1, <2>3, <2>4
  <2>6. ~(Magnitude(image[<<0, 0>>]) > 0)  BY <2>2, <2>5 DEF HeightOf
  <2> QED BY <2>1, <2>3, <2>6
<1> QED BY <1>2, <1>3

----
\* Integrated images have integer values, and what they show of the linked
\* images is what `LinkedSquares' says.

\* With several polarizations the first one is linked, so that the buffer is cleared.
FirstIsLinked ==
  \A c \in CleanSetups : c.joined = "channels" \/ Len(c.dirty) = 1 \/ c.linked = {} \/ 1 \in c.linked

AreImages(images) == images \in Seq([CleanPixels -> Int]) /\ Len(images) = Len(clean.dirty)

LEMMA LinkedImages ==
  ASSUME clean \in CleanSetups
  PROVE  Linked \subseteq Images /\ IsFiniteSet(Linked) /\ 1 \in Images
<1>1. Images = 1 .. Len(clean.dirty) /\ Len(clean.dirty) \in Nat \ {0} /\ clean.linked \subseteq Images  BY OneSetup
<1>2. IsFiniteSet(1 .. Len(clean.dirty))
  <2> DEFINE n == Len(clean.dirty)
  <2>1. n \in Int  BY <1>1
  <2> HIDE DEF n
  <2>2. IsFiniteSet(1 .. n)  BY <2>1, FS_Interval
  <2> QED BY <2>2 DEF n
<1>3. Linked \subseteq Images /\ 1 \in Images  BY <1>1 DEF Linked
<1>4. IsFiniteSet(Images)  BY <1>1, <1>2
<1> QED BY <1>3, <1>4, FS_Subset

LEMMA ImageTypes ==
  ASSUME clean \in CleanSetups, NEW images, AreImages(images)
  PROVE  \A i \in Images : images[i] \in [CleanPixels -> Int]  BY OneSetup DEF AreImages

LEMMA LinearTypes ==
  ASSUME clean \in CleanSetups, NEW images, AreImages(images)
  PROVE  LinearIntegrated(images) \in [CleanPixels -> Int]
<1> DEFINE sum(p) == ValueSum(images, p, Linked)
           value(p) == SignedSquare(IF clean.joined = "channels" THEN sum(p) \div Len(images) ELSE sum(p))
<1>1. DOMAIN images[1] = CleanPixels  BY LinkedImages, ImageTypes
<1>2. ASSUME NEW p \in CleanPixels PROVE sum(p) \in Int
  <2>1. \A i \in Linked : images[i][p] \in Int  BY LinkedImages, ImageTypes
  <2> QED BY <2>1, LinkedImages, SumOfValues
<1>3. LinearIntegrated(images) = [p \in CleanPixels |-> value(p)]  BY <1>1 DEF LinearIntegrated, ValueSum
<1>4. Len(images) \in Nat \ {0}  BY OneSetup DEF AreImages
<1> HIDE DEF sum
<1>5. ASSUME NEW p \in CleanPixels PROVE value(p) \in Int
  <2>1. sum(p) \in Int /\ sum(p) \div Len(images) \in Int  BY <1>2, <1>4
  <2> DEFINE x == IF clean.joined = "channels" THEN sum(p) \div Len(images) ELSE sum(p)
  <2>2. x \in Int  BY <2>1
  <2> HIDE DEF x
  <2>3. SignedSquare(x) \in Int  BY <2>2 DEF SignedSquare, Magnitude
  <2> QED BY <2>3 DEF x
<1> HIDE DEF value
<1> QED BY <1>3, <1>5

LEMMA SquareSums ==
  ASSUME clean \in CleanSetups, NEW images, AreImages(images), NEW p \in CleanPixels
  PROVE  SquareSum(images, p, Linked) \in Int
<1>1. \A i \in Linked : images[i][p] \in Int  BY LinkedImages, ImageTypes
<1> QED BY <1>1, LinkedImages, SumOfSquares

LEMMA SquareTypes ==
  ASSUME FirstIsLinked, clean \in CleanSetups, AreImages(residual)
  PROVE  SquareIntegrated(residual) \in [CleanPixels -> Int] /\ SquareIntegrated(residual) = LinkedSquares
<1>1. CASE clean.joined = "channels" \/ Len(residual) = 1  BY <1>1, LinearTypes DEF SquareIntegrated, LinkedSquares
<1>2. CASE ~(clean.joined = "channels" \/ Len(residual) = 1)
  <2>1. 1 \in Linked
    <3>1. Len(clean.dirty) # 1  BY <1>2 DEF AreImages
    <3>2. clean.linked = {} \/ 1 \in clean.linked  BY <1>2, <3>1 DEF FirstIsLinked
    <3> QED BY <3>2, LinkedImages DEF Linked
  <2>2. SquareIntegrated(residual) =
          [p \in CleanPixels |-> SquareSum(residual, p, Linked) + (IF 1 \in Linked THEN 0 ELSE LeftInBuffer(p))]
    BY <1>2 DEF SquareIntegrated, SquareSum
  <2>3. LinkedSquares = [p \in CleanPixels |-> SquareSum(residual, p, Linked)]  BY <1>2 DEF LinkedSquares, SquareSum
  <2>4. \A p \in CleanPixels : SquareSum(residual, p, Linked) \in Int  BY SquareSums
  <2>5. \A p \in CleanPixels :
          SquareSum(residual, p, Linked) + (IF 1 \in Linked THEN 0 ELSE LeftInBuffer(p)) = SquareSum(residual, p, Linked)
    BY <2>1, <2>4
  <2> QED BY <2>2, <2>3, <2>4, <2>5
<1> QED BY <1>1, <1>2

LEMMA WeightedTypes ==
  ASSUME clean \in CleanSetups, NEW image \in [CleanPixels -> Int]
  PROVE  Weighted(image) \in [CleanPixels -> Int]
<1>1. \A p \in CleanPixels : clean.rmsFactor[p] \in Nat  BY OneSetup
<1>2. \A p \in CleanPixels : image[p] * clean.rmsFactor[p] * clean.rmsFactor[p] \in Int  BY <1>1
<1> QED BY <1>2 DEF Weighted

----
\* Subtracting the psf keeps to the pixels of the images.
LEMMA SubtractionTypes ==
  ASSUME clean \in CleanSetups, NEW image \in [CleanPixels -> Int], NEW psf \in [CleanPixels -> Int],
         NEW at \in CleanPixels, NEW factor \in Int, NEW startY \in Int, NEW endY \in Int
  PROVE  PartialSubtractImage(image, psf, at, factor, startY, endY) \in [CleanPixels -> Int]
<1> DEFINE w == clean.width
           h == clean.height
           offset == <<at[1] - w \div 2, at[2] - h \div 2>>
           columnRange == GreatestOf(offset[1], 0) .. LeastOf(at[1] + w \div 2, w) - 1
           rowRange == GreatestOf(offset[2], startY) .. LeastOf(at[2] + h \div 2, endY) - 1
           shifted(p) == psf[<<p[1] - offset[1], p[2] - offset[2]>>]
<1>1. w \in Nat \ {0} /\ h \in Nat \ {0}  BY OneSetup
<1>2. CleanPixels = (0 .. w - 1) \X (0 .. h - 1)  BY DEF CleanPixels, PixelsOf
<1> HIDE DEF w, h
<1>3. at[1] \in 0 .. w - 1 /\ at[2] \in 0 .. h - 1  BY <1>2
<1>4. w \div 2 \in Int /\ h \div 2 \in Int /\ 2 * (w \div 2) <= w /\ 2 * (h \div 2) <= h  BY <1>1
<1>5. ASSUME NEW p \in CleanPixels, p[1] \in columnRange, p[2] \in rowRange PROVE shifted(p) \in Int
  <2>1. p[1] \in 0 .. w - 1 /\ p[2] \in 0 .. h - 1  BY <1>2
  <2>2. p[1] - offset[1] \in 0 .. w - 1  BY <1>1, <1>3, <1>4, <1>5, <2>1 DEF GreatestOf, LeastOf
  <2>3. p[2] - offset[2] \in 0 .. h - 1  BY <1>1, <1>3, <1>4, <1>5, <2>1 DEF GreatestOf, LeastOf
  <2> HIDE DEF offset
  <2>4. <<p[1] - offset[1], p[2] - offset[2]>> \in CleanPixels  BY <1>2, <2>2, <2>3
  <2> QED BY <2>4
<1>6. PartialSubtractImage(image, psf, at, factor, startY, endY) =
        [p \in CleanPixels |-> IF p[1] \in columnRange /\ p[2] \in rowRange
                                 THEN image[p] - (shifted(p) * factor) \div 2
                                 ELSE image[p]]  BY DEF PartialSubtractImage, w, h
<1> HIDE DEF shifted, columnRange, rowRange
<1>7. ASSUME NEW p \in CleanPixels, p[1] \in columnRange, p[2] \in rowRange
      PROVE  image[p] - (shifted(p) * factor) \div 2 \in Int
  <2>1. shifted(p) \in Int /\ image[p] \in Int  BY <1>5, <1>7
  <2>2. shifted(p) * factor \in Int  BY <2>1
  <2> QED BY <2>1, <2>2
<1>8. \A p \in CleanPixels : image[p] \in Int  OBVIOUS
<1> QED BY <1>6, <1>7, <1>8

LEMMA SliceTypes ==
  ASSUME clean \in CleanSetups, NEW thread \in Int
  PROVE  SliceStart(thread) \in Int /\ SliceEnd(thread) \in Int
<1>1. clean.height \in Int /\ clean.threads \in Nat \ {0}  BY OneSetup
<1>2. clean.height * thread \in Int /\ clean.height * (thread + 1) \in Int  BY <1>1
<1> QED BY <1>1, <1>2 DEF SliceStart, SliceEnd

----
\* The invariant.  A component may only be where the peak of the image was
\* found, or at the positions that the sub-minor loop collected.
Allowed == InsideBorder \cap clean.mask
Subtraction == [image : Images, threads : SUBSET Int, factors : [Images -> Int]]

LoopTypes ==
  /\ clean \in CleanSetups /\ iteration \in Nat /\ majorIterThreshold \in Int
  /\ integrated \in [CleanPixels -> Int]
  /\ \A i \in Images : DOMAIN model[i] = CleanPixels
  /\ DOMAIN subMinor = {"positions", "residual", "model"}
  /\ loop # "done" => AreImages(residual)
  /\ loop = "subtract" => subtraction \in Subtraction /\ peakAt \in Allowed
ComponentsInside ==
  /\ \A i \in Images : \A p \in CleanPixels : p \notin Allowed => model[i][p] = 0
  /\ loop = "sub-minor" => subMinor.positions \subseteq Allowed
PeakIsFound ==
  /\ peakAt = FindPeak(Weighted(integrated))
  /\ loop = "start" => iteration = 0
  /\ loop = "iterate" /\ iteration > 0 => integrated = LinkedSquares
MinorLoopInv == LoopTypes /\ ComponentsInside /\ PeakIsFound

LEMMA AllowedPixels == clean \in CleanSetups => Allowed \subseteq CleanPixels  BY OneSetup DEF Allowed

\* The peak that is found has a value, and when it is cleaned it is allowed.
LEMMA FoundPeak ==
  ASSUME PeaksAreAllowed, MinorLoopInv, peakAt # NoPeak
  PROVE  /\ peakAt \in CleanPixels /\ PeakValue \in Int
         /\ IsCleaned(PeakValue) => peakAt \in Allowed /\ HeightOf(PeakValue) > 0
<1> DEFINE image == Weighted(integrated)
<1>1. clean \in CleanSetups /\ majorIterThreshold \in Int /\ image \in [CleanPixels -> Int]
      /\ peakAt = FindPeak(image) /\ PeakValue = image[peakAt]
  BY WeightedTypes DEF MinorLoopInv, LoopTypes, PeakIsFound, PeakValue
<1> HIDE DEF image
<1>2. /\ peakAt \in CleanPixels
      /\ Magnitude(image[peakAt]) > 0 => peakAt \in InsideBorder \cap clean.mask /\ HeightOf(image[peakAt]) > 0
  BY <1>1, PeakIsAllowed
<1>3. PeakValue \in Int  BY <1>1, <1>2
<1>4. ASSUME IsCleaned(PeakValue) PROVE Magnitude(PeakValue) > 0
  <2>1. clean.threshold \in Nat  BY <1>1, OneSetup
  <2>2. FirstThreshold \in Int /\ FirstThreshold >= 0  BY <1>1, <2>1 DEF FirstThreshold, GreatestOf
  <2>3. Magnitude(PeakValue) \in Nat /\ Magnitude(PeakValue) > FirstThreshold
    BY <1>3, <1>4, HeightIsInteger DEF IsCleaned
  <2> QED BY <2>2, <2>3
<1> QED BY <1>1, <1>2, <1>3, <1>4 DEF Allowed

LEMMA InitLoopInv == MinorLoopInit => MinorLoopInv
<1> SUFFICES ASSUME MinorLoopInit PROVE MinorLoopInv  OBVIOUS
<1> USE DEF MinorLoopInit
<1>1. clean \in CleanSetups /\ AreImages(residual)  BY OneSetup DEF AreImages
<1>2. integrated \in [CleanPixels -> Int]  BY <1>1, LinearTypes
<1>3. \A i \in Images : DOMAIN model[i] = CleanPixels /\ \A p \in CleanPixels : model[i][p] = 0  BY DEF Blank
<1>4. LoopTypes  BY <1>1, <1>2, <1>3 DEF LoopTypes
<1>5. ComponentsInside  BY <1>3 DEF ComponentsInside
<1>6. PeakIsFound  BY DEF PeakIsFound
<1> QED BY <1>4, <1>5, <1>6 DEF MinorLoopInv

\* What is shown of the linked images, as functions of what it depends on.
LinearOf(images, linked, joined) ==
  [p \in DOMAIN images[1] |->
     SignedSquare(IF joined = "channels" THEN ValueSum(images, p, linked) \div Len(images)
                  ELSE ValueSum(images, p, linked))]
SquaresOf(images, linked, pixels) == [p \in pixels |-> SquareSum(images, p, linked)]

ShownOf(images, linked, joined, pixels) ==
  IF joined = "channels" \/ Len(images) = 1 THEN LinearOf(images, linked, joined)
  ELSE SquaresOf(images, linked, pixels)

LEMMA LinkedSquaresAre == LinkedSquares = ShownOf(residual, Linked, clean.joined, CleanPixels)
<1>1. LinearIntegrated(residual) = LinearOf(residual, Linked, clean.joined)
  BY DEF LinearIntegrated, LinearOf, ValueSum
<1>2. LinkedSquares = IF clean.joined = "channels" \/ Len(residual) = 1 THEN LinearIntegrated(residual)
                      ELSE SquaresOf(residual, Linked, CleanPixels)  BY DEF LinkedSquares, SquaresOf, SquareSum
<1> QED BY <1>1, <1>2 DEF ShownOf

\* Every step keeps the invariant.
LEMMA LoopInvStep ==
  ASSUME PeaksAreAllowed, FirstIsLinked
  PROVE  MinorLoopInv /\ [MinorLoopNext]_minorLoopVars => MinorLoopInv'
<1> SUFFICES ASSUME MinorLoopInv, [MinorLoopNext]_minorLoopVars PROVE MinorLoopInv'  OBVIOUS
<1>a. LoopTypes /\ ComponentsInside /\ PeakIsFound /\ clean \in CleanSetups  BY DEF MinorLoopInv, LoopTypes
<1>b. Images = 1 .. Len(clean.dirty) /\ Len(clean.dirty) \in Nat \ {0} /\ clean.threads \in Nat \ {0}
      /\ clean.psfs \in [Images -> [CleanPixels -> Int]] /\ clean.majorIterThreshold \in Nat /\ clean.keptHalves \in Nat
  BY <1>a, OneSetup
\* What depends on the settings stays when they do.
<1>c. ASSUME clean' = clean
      PROVE  /\ CleanPixels' = CleanPixels /\ Images' = Images /\ Allowed' = Allowed /\ Subtraction' = Subtraction
             /\ Weighted(integrated)' = Weighted(integrated')
             /\ FindPeak(Weighted(integrated))' = FindPeak(Weighted(integrated'))
  BY <1>c DEF CleanPixels, PixelsOf, Images, Allowed, InsideBorder, Subtraction, Weighted, FindPeak, HighestOf, HeightOf,
              AllowNegatives
<1>d. ASSUME clean' = clean, residual' = residual PROVE LinkedSquares' = LinkedSquares /\ AreImages(residual)' = AreImages(residual)
  <2>1. Linked' = Linked /\ CleanPixels' = CleanPixels  BY <1>d DEF Linked, Images, CleanPixels, PixelsOf
  <2>2. (LinkedSquares = ShownOf(residual, Linked, clean.joined, CleanPixels))'  BY LinkedSquaresAre, PTL
  <2>3. AreImages(residual)' = AreImages(residual)  BY <1>d, <2>1 DEF AreImages
  <2> QED BY <1>d, <2>1, <2>2, <2>3, LinkedSquaresAre
<1>e. ASSUME clean' = clean, integrated' = integrated, peakAt' = peakAt
      PROVE  peakAt' = FindPeak(Weighted(integrated))'  BY <1>a, <1>c, <1>e DEF PeakIsFound
<1>1. CASE Start
  <2>1. /\ loop = "start" /\ loop' \in {"aborted", "find positions", "iterate"}
        /\ UNCHANGED <<clean, residual, model, integrated, peakAt, iteration, subMinor>>  BY <1>1 DEF Start
  <2>2. majorIterThreshold' \in Int
    <3>1. CASE peakAt = NoPeak  BY <1>a, <1>1, <3>1 DEF Start, LoopTypes
    <3>2. CASE peakAt # NoPeak
      <4>1. Magnitude(PeakValue) \in Nat  BY <3>2, FoundPeak, HeightIsInteger
      <4> DEFINE kept == Magnitude(PeakValue) * clean.keptHalves * clean.keptHalves
      <4>2. kept \in Int  BY <1>b, <4>1
      <4>3. majorIterThreshold' = GreatestOf(clean.majorIterThreshold, kept \div 4)  BY <1>1, <3>2 DEF Start
      <4> HIDE DEF kept
      <4> QED BY <1>b, <4>2, <4>3 DEF GreatestOf
    <3> QED BY <3>1, <3>2
  <2>3. LoopTypes'  BY <1>a, <1>c, <1>d, <2>1, <2>2 DEF LoopTypes
  <2>4. ComponentsInside'  BY <1>a, <1>c, <2>1 DEF ComponentsInside
  <2>5. PeakIsFound'
    <3>1. peakAt' = FindPeak(Weighted(integrated))'  BY <1>e, <2>1
    <3>2. loop' # "start" /\ iteration' = 0  BY <1>a, <2>1 DEF PeakIsFound
    <3>3. ~(iteration' > 0)  BY <3>2
    <3> QED BY <3>1, <3>2, <3>3 DEF PeakIsFound
  <2> QED BY <2>3, <2>4, <2>5 DEF MinorLoopInv
<1>2. CASE AddComponent
  <2>1. peakAt \in Allowed /\ peakAt \in CleanPixels  BY <1>2, FoundPeak DEF AddComponent
  <2>2. /\ loop = "iterate" /\ loop' = "subtract"
        /\ UNCHANGED <<clean, residual, integrated, peakAt, iteration, majorIterThreshold, subMinor>>
    BY <1>2 DEF AddComponent
  <2>3. AreImages(residual) /\ \A i \in Images : residual[i][peakAt] \in Int
    BY <1>a, <2>1, <2>2, ImageTypes DEF LoopTypes
  <2>4. \A i \in Images : Gain(residual[i][peakAt]) \in Int  BY <2>3 DEF Gain
  <2>5. subtraction' \in Subtraction
    <3>1. subtraction' = [image |-> 1, threads |-> 0 .. clean.threads - 1,
                          factors |-> [i \in Images |-> Gain(residual[i][peakAt])]]  BY <1>2 DEF AddComponent
    <3>2. [i \in Images |-> Gain(residual[i][peakAt])] \in [Images -> Int]  BY <2>4
    <3> QED BY <1>b, <3>1, <3>2 DEF Subtraction
  <2>6. ASSUME NEW i \in Images
        PROVE  /\ DOMAIN model'[i] = CleanPixels
               /\ \A p \in CleanPixels : p # peakAt => model'[i][p] = model[i][p]
    <3>1. model'[i] = [model[i] EXCEPT ![peakAt] = @ + Gain(residual[i][peakAt])]  BY <1>2 DEF AddComponent
    <3>2. DOMAIN model[i] = CleanPixels  BY <1>a DEF LoopTypes
    <3> QED BY <3>1, <3>2
  <2>7. LoopTypes'  BY <1>a, <1>c, <1>d, <2>1, <2>2, <2>5, <2>6 DEF LoopTypes
  <2>8. ComponentsInside'  BY <1>a, <1>c, <2>1, <2>2, <2>6 DEF ComponentsInside
  <2>9. PeakIsFound'  BY <1>a, <1>e, <2>2 DEF PeakIsFound
  <2> QED BY <2>7, <2>8, <2>9 DEF MinorLoopInv
<1>3. CASE NextImage
  <2>1. /\ loop = "subtract" /\ subtraction.image < Len(residual)
        /\ subtraction' = [subtraction EXCEPT !.image = @ + 1, !.threads = 0 .. clean.threads - 1]
        /\ UNCHANGED <<clean, loop, residual, model, integrated, peakAt, iteration, majorIterThreshold, subMinor>>
    BY <1>3 DEF NextImage
  <2>2. subtraction \in Subtraction /\ Len(residual) = Len(clean.dirty)  BY <1>a, <2>1 DEF LoopTypes, AreImages
  <2>3. subtraction' \in Subtraction
    <3>1. subtraction.image + 1 \in Images /\ 0 .. clean.threads - 1 \in SUBSET Int
      BY <1>b, <2>1, <2>2 DEF Subtraction
    <3> DEFINE threads == 0 .. clean.threads - 1
    <3> HIDE DEF threads
    <3>2. threads \in SUBSET Int  BY <3>1 DEF threads
    <3>3. subtraction' = [subtraction EXCEPT !.image = @ + 1, !.threads = threads]  BY <2>1 DEF threads
    <3>4. /\ subtraction' = [image |-> subtraction.image + 1, threads |-> threads, factors |-> subtraction.factors]
          /\ subtraction.factors \in [Images -> Int]  BY <2>2, <3>3 DEF Subtraction
    <3> QED BY <3>1, <3>2, <3>4 DEF Subtraction
  <2>4. LoopTypes'  BY <1>a, <1>c, <1>d, <2>1, <2>3 DEF LoopTypes
  <2>5. ComponentsInside'  BY <1>a, <1>c, <2>1 DEF ComponentsInside
  <2>6. PeakIsFound'  BY <1>a, <1>e, <2>1 DEF PeakIsFound
  <2> QED BY <2>4, <2>5, <2>6 DEF MinorLoopInv
<1>4. CASE NextPeak
  <2>1. /\ loop = "subtract" /\ loop' = "iterate" /\ iteration' = iteration + 1
        /\ integrated' = SquareIntegrated(residual)
        /\ peakAt' = FindPeak(Weighted(SquareIntegrated(residual)))
        /\ UNCHANGED <<clean, residual, model, majorIterThreshold, subMinor>>  BY <1>4 DEF NextPeak
  <2>2. integrated' \in [CleanPixels -> Int] /\ integrated' = LinkedSquares  BY <1>a, <2>1, SquareTypes DEF LoopTypes
  <2>3. LoopTypes'  BY <1>a, <1>c, <1>d, <2>1, <2>2 DEF LoopTypes
  <2>4. ComponentsInside'  BY <1>a, <1>c, <2>1 DEF ComponentsInside
  <2>5. PeakIsFound'  BY <1>c, <1>d, <2>1, <2>2 DEF PeakIsFound
  <2> QED BY <2>3, <2>4, <2>5 DEF MinorLoopInv
<1>5. CASE Finish
  <2>1. /\ loop' \in {"aborted", "done"} /\ loop = "iterate"
        /\ UNCHANGED <<clean, residual, model, integrated, peakAt, iteration, majorIterThreshold, subtraction, subMinor>>
    BY <1>5 DEF Finish, Stop
  <2>2. LoopTypes'  BY <1>a, <1>c, <1>d, <2>1 DEF LoopTypes
  <2>3. ComponentsInside'  BY <1>a, <1>c, <2>1 DEF ComponentsInside
  <2>4. PeakIsFound'  BY <1>a, <1>e, <2>1 DEF PeakIsFound
  <2> QED BY <2>2, <2>3, <2>4 DEF MinorLoopInv
<1>6. ASSUME NEW thread \in subtraction.threads, SubtractRows(thread) PROVE MinorLoopInv'
  <2> DEFINE i == subtraction.image
             subtracted == PartialSubtractImage(residual[i], clean.psfs[i], peakAt, subtraction.factors[i],
                                                SliceStart(thread), SliceEnd(thread))
  <2>1. /\ loop = "subtract" /\ residual' = [residual EXCEPT ![i] = subtracted]
        /\ subtraction' = [subtraction EXCEPT !.threads = @ \ {thread}]
        /\ UNCHANGED <<clean, loop, model, integrated, peakAt, iteration, majorIterThreshold, subMinor>>
    BY <1>6 DEF SubtractRows
  <2>2. subtraction \in Subtraction /\ peakAt \in CleanPixels /\ AreImages(residual)
    BY <1>a, <2>1, AllowedPixels DEF LoopTypes
  <2>3. i \in Images /\ thread \in Int /\ subtraction.factors[i] \in Int  BY <2>2 DEF Subtraction
  <2>4. residual[i] \in [CleanPixels -> Int] /\ clean.psfs[i] \in [CleanPixels -> Int]
    BY <1>a, <1>b, <2>2, <2>3, ImageTypes
  <2>5. subtracted \in [CleanPixels -> Int]  BY <1>a, <2>2, <2>3, <2>4, SliceTypes, SubtractionTypes
  <2> HIDE DEF subtracted
  <2>6. AreImages(residual')
    <3> DEFINE S == [CleanPixels -> Int]
    <3>1. residual \in Seq(S) /\ subtracted \in S /\ i \in 1 .. Len(residual)  BY <1>b, <2>2, <2>3, <2>5 DEF AreImages
    <3> HIDE DEF S, i
    <3>2. [residual EXCEPT ![i] = subtracted] \in Seq(S) /\ Len([residual EXCEPT ![i] = subtracted]) = Len(residual)
      BY <3>1, ExceptSeq
    <3> QED BY <2>1, <2>2, <3>2 DEF AreImages, S
  <2>7. AreImages(residual)'  BY <1>c, <2>1, <2>6 DEF AreImages
  <2>8. subtraction' \in Subtraction  BY <2>1, <2>2 DEF Subtraction
  <2>9. LoopTypes'  BY <1>a, <1>c, <2>1, <2>7, <2>8 DEF LoopTypes
  <2>10. ComponentsInside'  BY <1>a, <1>c, <2>1 DEF ComponentsInside
  <2>11. PeakIsFound'  BY <1>a, <1>e, <2>1 DEF PeakIsFound
  <2> QED BY <2>9, <2>10, <2>11 DEF MinorLoopInv
<1>7. CASE FindPeakPositions
  <2>1. /\ loop = "find positions" /\ loop' \in {"aborted", "sub-minor"}
        /\ subMinor'.positions \subseteq Allowed /\ DOMAIN subMinor' = {"positions", "residual", "model"}
        /\ UNCHANGED <<clean, residual, model, integrated, peakAt, iteration, majorIterThreshold, subtraction>>
    BY <1>7 DEF FindPeakPositions, Allowed
  <2>2. LoopTypes'  BY <1>a, <1>c, <1>d, <2>1 DEF LoopTypes
  <2>3. ComponentsInside'  BY <1>a, <1>c, <2>1 DEF ComponentsInside
  <2>4. PeakIsFound'  BY <1>a, <1>e, <2>1 DEF PeakIsFound
  <2> QED BY <2>2, <2>3, <2>4 DEF MinorLoopInv
<1>8. CASE SubMinorComponent
  <2>1. /\ loop = "sub-minor" /\ iteration' = iteration + 1
        /\ UNCHANGED <<clean, loop, residual, model, integrated, peakAt, majorIterThreshold, subtraction>>
    BY <1>8 DEF SubMinorComponent
  <2>2. subMinor'.positions = subMinor.positions /\ DOMAIN subMinor' = {"positions", "residual", "model"}
    BY <1>8 DEF SubMinorComponent
  <2>3. LoopTypes'  BY <1>a, <1>c, <1>d, <2>1, <2>2 DEF LoopTypes
  <2>4. ComponentsInside'  BY <1>a, <1>c, <2>1, <2>2 DEF ComponentsInside
  <2>5. PeakIsFound'  BY <1>a, <1>e, <2>1 DEF PeakIsFound
  <2> QED BY <2>3, <2>4, <2>5 DEF MinorLoopInv
<1>9. CASE SubMinorDone
  <2>1. /\ loop = "sub-minor" /\ loop' = "done"
        /\ model' = [i \in Images |-> [p \in CleanPixels |-> model[i][p] + GetFullIndividualModel(i)[p]]]
        /\ UNCHANGED <<clean, integrated, peakAt, iteration, majorIterThreshold, subtraction, subMinor>>
    BY <1>9 DEF SubMinorDone, Stop
  <2>2. ASSUME NEW i \in Images, NEW p \in CleanPixels, p \notin Allowed PROVE model'[i][p] = 0
    <3>1. model[i][p] = 0 /\ p \notin subMinor.positions  BY <1>a, <2>1, <2>2 DEF ComponentsInside
    <3>2. GetFullIndividualModel(i)[p] = 0  BY <3>1 DEF GetFullIndividualModel
    <3>3. model'[i][p] = model[i][p] + GetFullIndividualModel(i)[p]  BY <2>1
    <3> QED BY <3>1, <3>2, <3>3
  <2>3. \A i \in Images : DOMAIN model'[i] = CleanPixels  BY <2>1
  <2>4. LoopTypes'  BY <1>a, <1>c, <2>1, <2>3 DEF LoopTypes
  <2>5. ComponentsInside'  BY <1>c, <2>1, <2>2 DEF ComponentsInside
  <2>6. PeakIsFound'  BY <1>a, <1>e, <2>1 DEF PeakIsFound
  <2> QED BY <2>4, <2>5, <2>6 DEF MinorLoopInv
<1>10. CASE UNCHANGED minorLoopVars
  <2>1. UNCHANGED <<clean, loop, residual, model, integrated, peakAt, iteration, majorIterThreshold, subtraction, subMinor>>
    BY <1>10 DEF minorLoopVars
  <2>2. LoopTypes'  BY <1>a, <1>c, <1>d, <2>1 DEF LoopTypes
  <2>3. ComponentsInside'  BY <1>a, <1>c, <2>1 DEF ComponentsInside
  <2>4. PeakIsFound'  BY <1>a, <1>d, <1>e, <2>1 DEF PeakIsFound
  <2> QED BY <2>2, <2>3, <2>4 DEF MinorLoopInv
<1> QED BY <1>1, <1>2, <1>3, <1>4, <1>5, <1>6, <1>7, <1>8, <1>9, <1>10 DEF MinorLoopNext

\* Components are where they are allowed, for any images and settings: they lie inside the
\* border and the mask, they are sought in the linked images as they are, and a peak that is
\* cleaned is positive unless negative ones are allowed (genericclean.cpp, imageset.cpp,
\* simpleclean.cpp).  Left out are the settings with which the code does otherwise: those of
\* FindPeakAVX with a border or with -no-negative, and several polarizations of which the
\* first one is not linked.
THEOREM ComponentsAreAllowed ==
  ASSUME PeaksAreAllowed, FirstIsLinked
  PROVE  MinorLoopSpec => []ComponentsAllowed
<1>1. MinorLoopInv => ComponentsAllowed
  <2> SUFFICES ASSUME MinorLoopInv PROVE ComponentsAllowed  OBVIOUS
  <2>1. \A i \in Images : \A p \in CleanPixels : model[i][p] # 0 => p \in InsideBorder \cap clean.mask
    BY DEF MinorLoopInv, ComponentsInside, Allowed
  <2>2. loop = "iterate" /\ iteration > 0 => integrated = LinkedSquares  BY DEF MinorLoopInv, PeakIsFound
  <2>3. loop = "iterate" /\ peakAt # NoPeak /\ IsCleaned(PeakValue) => HeightOf(PeakValue) > 0  BY FoundPeak
  <2> QED BY <2>1, <2>2, <2>3 DEF ComponentsAllowed
<1> QED BY <1>1, InitLoopInv, LoopInvStep, PTL DEF MinorLoopSpec

----
\* Totals over finite sets of integers: in any order, of the same terms,
\* with one of them changed, without those that are zero, and of terms
\* that are found elsewhere.
SumsOver(S, f) == CHOOSE F : Sums(F, S, f)
Total(f, S) == SumsOver(S, f)[S]
AreIntegers(f, S) == \A x \in S : f[x] \in Int

LEMMA SumsOverSubsets == ASSUME NEW S, IsFiniteSet(S), NEW f PROVE Sums(SumsOver(S, f), S, f)
BY SumsExist DEF SumsOver

LEMMA TotalIsSum ==
  ASSUME NEW S, IsFiniteSet(S), NEW f, NEW F, Sums(F, S, f)
  PROVE  F[S] = Total(f, S)
<1>1. Sums(SumsOver(S, f), S, f)  BY SumsOverSubsets
<1>2. S \in SUBSET S  OBVIOUS
<1>3. F[S] = SumsOver(S, f)[S]  BY <1>1, <1>2, OneSumOfSubsets
<1> QED BY <1>3 DEF Total

LEMMA TotalTypes == ASSUME NEW S, IsFiniteSet(S), NEW f, AreIntegers(f, S) PROVE Total(f, S) \in Int
<1> DEFINE g == [x \in S |-> f[x]]
           F == SumsOver(S, f)
<1>1. Sums(F, S, f)  BY SumsOverSubsets
<1>2. AddsUp(F, S, f)  BY <1>1, SumsOf
<1> HIDE DEF F
<1> DEFINE Bad == {t \in SUBSET S : F[t] \notin Int}
<1>3. Bad = {}
  <2> SUFFICES ASSUME Bad # {} PROVE FALSE  OBVIOUS
  <2>1. Bad \subseteq SUBSET S  OBVIOUS
  <2> HIDE DEF Bad
  <2>2. PICK t \in Bad : \A u \in SUBSET S : Cardinality(u) < Cardinality(t) => u \notin Bad  BY <2>1, SmallestSet
  <2>3. t \in SUBSET S /\ F[t] \notin Int  BY <2>2 DEF Bad
  <2>4. t # {}
    <3>1. F[{}] = 0  BY <1>2 DEF AddsUp
    <3> QED BY <2>3, <3>1
  <2> DEFINE x == OneOf(t)
             u == t \ {x}
  <2>5. x \in t /\ F[t] = f[x] + F[u]  BY <1>2, <2>3, <2>4, OneOfSet DEF AddsUp
  <2> HIDE DEF x
  <2>6. u \in SUBSET S /\ Cardinality(u) < Cardinality(t)  BY <2>3, <2>5, FewerElements
  <2>7. F[u] \in Int  BY <2>2, <2>6 DEF Bad
  <2>8. f[x] \in Int  BY <2>3, <2>5 DEF AreIntegers
  <2> QED BY <2>3, <2>5, <2>7, <2>8
<1>4. F[S] \in Int  BY <1>3
<1> QED BY <1>4 DEF Total, F

LEMMA TotalOfNone == ASSUME NEW f PROVE Total(f, {}) = 0
<1>1. Sums(SumsOver({}, f), {}, f)  BY SumsOverSubsets, FS_EmptySet
<1> QED BY <1>1, SumsOf DEF Total, AddsUp

LEMMA TotalOfFirst ==
  ASSUME NEW S, IsFiniteSet(S), S # {}, NEW f
  PROVE  Total(f, S) = f[OneOf(S)] + Total(f, S \ {OneOf(S)})
<1> DEFINE R == S \ {OneOf(S)}
           F == SumsOver(S, f)
           G == SumsOver(R, f)
<1>1. Sums(F, S, f) /\ AddsUp(F, S, f)  BY SumsOverSubsets, SumsOf
<1>2. R \in SUBSET S /\ R \in SUBSET R /\ IsFiniteSet(R)  BY FS_Subset
<1>3. Sums(G, R, f)  BY <1>2, SumsOverSubsets
<1> HIDE DEF F, G
<1>4. S \in SUBSET S /\ F[S] = f[OneOf(S)] + F[R]  BY <1>1 DEF AddsUp
<1> HIDE DEF R
<1>5. F[R] = G[R]  BY <1>1, <1>2, <1>3, <1>4, OneSumOfSubsets
<1> QED BY <1>4, <1>5 DEF Total, F, G, R

\* The order does not matter.
LEMMA TotalWithout ==
  ASSUME NEW S, IsFiniteSet(S), NEW f, AreIntegers(f, S), NEW x \in S
  PROVE  Total(f, S) = f[x] + Total(f, S \ {x})
<1> DEFINE Bad == {t \in SUBSET S : \E y \in t : Total(f, t) # f[y] + Total(f, t \ {y})}
<1>a. ASSUME NEW t \in SUBSET S
      PROVE  IsFiniteSet(t) /\ AreIntegers(f, t) /\ Total(f, t) \in Int
  <2>1. IsFiniteSet(t) /\ AreIntegers(f, t)  BY FS_Subset DEF AreIntegers
  <2> QED BY <2>1, TotalTypes
<1>1. Bad = {}
  <2> SUFFICES ASSUME Bad # {} PROVE FALSE  OBVIOUS
  <2>1. Bad \subseteq SUBSET S  OBVIOUS
  <2> HIDE DEF Bad
  <2>2. PICK t \in Bad : \A u \in SUBSET S : Cardinality(u) < Cardinality(t) => u \notin Bad  BY <2>1, SmallestSet
  <2>3. t \in SUBSET S /\ \E y \in t : Total(f, t) # f[y] + Total(f, t \ {y})  BY <2>2 DEF Bad
  <2>4. PICK y \in t : Total(f, t) # f[y] + Total(f, t \ {y})  BY <2>3
  <2> DEFINE z == OneOf(t)
             u == t \ {z}
             v == t \ {y}
             r == u \ {y}
  <2>5. z \in t /\ Total(f, t) = f[z] + Total(f, u)  BY <1>a, <2>3, <2>4, OneOfSet, TotalOfFirst
  <2> HIDE DEF z
  <2>6. y # z  BY <2>4, <2>5
  <2>7. /\ u \in SUBSET S /\ v \in SUBSET S /\ r \in SUBSET S /\ y \in u /\ z \in v /\ r = v \ {z}
        /\ y \in S /\ z \in S  BY <2>3, <2>4, <2>5, <2>6
  <2>8. Cardinality(u) < Cardinality(t) /\ Cardinality(v) < Cardinality(t)  BY <2>3, <2>4, <2>5, FewerElements
  <2>9. u \notin Bad /\ v \notin Bad  BY <2>2, <2>7, <2>8
  <2>10. Total(f, u) = f[y] + Total(f, r)  BY <2>7, <2>9 DEF Bad
  <2>11. Total(f, v) = f[z] + Total(f, r)  BY <2>7, <2>9 DEF Bad
  <2>12. f[y] \in Int /\ f[z] \in Int /\ Total(f, r) \in Int  BY <1>a, <2>7 DEF AreIntegers
  <2> HIDE DEF u, v, r
  <2>13. Total(f, t) = f[y] + Total(f, v)  BY <2>5, <2>10, <2>11, <2>12
  <2> QED BY <2>4, <2>13 DEF v
<1>2. S \notin Bad  BY <1>1
<1> QED BY <1>2

LEMMA TotalOfSame ==
  ASSUME NEW S, IsFiniteSet(S), NEW f, NEW g, \A x \in S : f[x] = g[x]
  PROVE  Total(f, S) = Total(g, S)
<1> DEFINE Bad == {t \in SUBSET S : Total(f, t) # Total(g, t)}
<1>1. Bad = {}
  <2> SUFFICES ASSUME Bad # {} PROVE FALSE  OBVIOUS
  <2>1. Bad \subseteq SUBSET S  OBVIOUS
  <2> HIDE DEF Bad
  <2>2. PICK t \in Bad : \A u \in SUBSET S : Cardinality(u) < Cardinality(t) => u \notin Bad  BY <2>1, SmallestSet
  <2>3. t \in SUBSET S /\ Total(f, t) # Total(g, t)  BY <2>2 DEF Bad
  <2>4. t # {}  BY <2>3, TotalOfNone
  <2> DEFINE x == OneOf(t)
             u == t \ {x}
  <2>5. x \in t /\ IsFiniteSet(t)  BY <2>3, <2>4, OneOfSet, FS_Subset
  <2>6. Total(f, t) = f[x] + Total(f, u) /\ Total(g, t) = g[x] + Total(g, u)  BY <2>4, <2>5, TotalOfFirst
  <2> HIDE DEF x
  <2>7. u \in SUBSET S /\ Cardinality(u) < Cardinality(t) /\ f[x] = g[x]  BY <2>3, <2>5, FewerElements
  <2>8. Total(f, u) = Total(g, u)  BY <2>2, <2>7 DEF Bad
  <2> HIDE DEF u
  <2> QED BY <2>3, <2>6, <2>7, <2>8
<1> QED BY <1>1

LEMMA TotalChanges ==
  ASSUME NEW S, IsFiniteSet(S), NEW f, AreIntegers(f, S), NEW g, AreIntegers(g, S), NEW x \in S,
         \A y \in S : y # x => f[y] = g[y]
  PROVE  Total(g, S) = Total(f, S) - f[x] + g[x]
<1> DEFINE R == S \ {x}
<1>1. IsFiniteSet(R) /\ AreIntegers(f, R) /\ f[x] \in Int /\ g[x] \in Int  BY FS_Subset DEF AreIntegers
<1>2. Total(f, S) = f[x] + Total(f, R) /\ Total(g, S) = g[x] + Total(g, R)  BY TotalWithout
<1>3. \A y \in R : f[y] = g[y]  OBVIOUS
<1> HIDE DEF R
<1>4. Total(f, R) = Total(g, R) /\ Total(f, R) \in Int  BY <1>1, <1>3, TotalOfSame, TotalTypes
<1> QED BY <1>1, <1>2, <1>4

LEMMA TotalOfNonZero ==
  ASSUME NEW S, IsFiniteSet(S), NEW f, AreIntegers(f, S), NEW R \in SUBSET S, \A x \in S : x \notin R => f[x] = 0
  PROVE  Total(f, S) = Total(f, R)
<1> DEFINE Bad == {t \in SUBSET S : R \subseteq t /\ Total(f, t) # Total(f, R)}
<1>1. Bad = {}
  <2> SUFFICES ASSUME Bad # {} PROVE FALSE  OBVIOUS
  <2>1. Bad \subseteq SUBSET S  OBVIOUS
  <2> HIDE DEF Bad
  <2>2. PICK t \in Bad : \A u \in SUBSET S : Cardinality(u) < Cardinality(t) => u \notin Bad  BY <2>1, SmallestSet
  <2>3. t \in SUBSET S /\ R \subseteq t /\ Total(f, t) # Total(f, R)  BY <2>2 DEF Bad
  <2>4. PICK x \in t : x \notin R  BY <2>3
  <2> DEFINE u == t \ {x}
  <2>5. /\ IsFiniteSet(t) /\ AreIntegers(f, t) /\ u \in SUBSET S /\ R \subseteq u /\ Cardinality(u) < Cardinality(t)
        /\ f[x] = 0 /\ IsFiniteSet(u) /\ AreIntegers(f, u)  BY <2>3, <2>4, FewerElements, FS_Subset DEF AreIntegers
  <2>6. Total(f, t) = f[x] + Total(f, u)  BY <2>4, <2>5, TotalWithout
  <2>7. Total(f, u) = Total(f, R) /\ Total(f, u) \in Int  BY <2>2, <2>5, TotalTypes DEF Bad
  <2> HIDE DEF u
  <2> QED BY <2>3, <2>5, <2>6, <2>7
<1> QED BY <1>1

\* Terms that a one-to-one mapping finds elsewhere.
Elsewhere(b, s) == {b[x] : x \in s}

LEMMA TotalElsewhere ==
  ASSUME NEW S, IsFiniteSet(S), NEW f, AreIntegers(f, S), NEW g, NEW b,
         \A x, y \in S : b[x] = b[y] => x = y, \A x \in S : g[b[x]] = f[x]
  PROVE  IsFiniteSet(Elsewhere(b, S)) /\ Total(g, Elsewhere(b, S)) = Total(f, S)
<1> DEFINE Bad == {t \in SUBSET S : ~(IsFiniteSet(Elsewhere(b, t)) /\ Total(g, Elsewhere(b, t)) = Total(f, t))}
<1>1. Bad = {}
  <2> SUFFICES ASSUME Bad # {} PROVE FALSE  OBVIOUS
  <2>1. Bad \subseteq SUBSET S  OBVIOUS
  <2> HIDE DEF Bad
  <2>2. PICK t \in Bad : \A u \in SUBSET S : Cardinality(u) < Cardinality(t) => u \notin Bad  BY <2>1, SmallestSet
  <2>3. t \in SUBSET S /\ ~(IsFiniteSet(Elsewhere(b, t)) /\ Total(g, Elsewhere(b, t)) = Total(f, t))  BY <2>2 DEF Bad
  <2>4. t # {}
    <3>1. Elsewhere(b, {}) = {}  BY DEF Elsewhere
    <3> QED BY <2>3, <3>1, TotalOfNone, FS_EmptySet
  <2>5. PICK x \in t : TRUE  BY <2>4
  <2> DEFINE u == t \ {x}
  <2>6. IsFiniteSet(t) /\ AreIntegers(f, t) /\ u \in SUBSET S /\ Cardinality(u) < Cardinality(t)
    BY <2>3, <2>5, FewerElements, FS_Subset DEF AreIntegers
  <2>7. Total(f, t) = f[x] + Total(f, u)  BY <2>5, <2>6, TotalWithout
  <2>8. Elsewhere(b, t) \ {b[x]} = Elsewhere(b, u) /\ b[x] \in Elsewhere(b, t)  BY <2>3, <2>5 DEF Elsewhere
  <2>9. IsFiniteSet(Elsewhere(b, t))
    <3>1. IsFiniteSet(Elsewhere(b, u))  BY <2>2, <2>6 DEF Bad
    <3>2. Elsewhere(b, t) = Elsewhere(b, u) \cup {b[x]}  BY <2>5 DEF Elsewhere
    <3> QED BY <3>1, <3>2, FS_AddElement
  <2>10. AreIntegers(g, Elsewhere(b, t))
    <3>1. \A y \in t : g[b[y]] \in Int  BY <2>3 DEF AreIntegers
    <3> QED BY <3>1 DEF AreIntegers, Elsewhere
  <2>11. Total(g, Elsewhere(b, t)) = g[b[x]] + Total(g, Elsewhere(b, u))  BY <2>8, <2>9, <2>10, TotalWithout
  <2>12. Total(g, Elsewhere(b, u)) = Total(f, u)  BY <2>2, <2>6 DEF Bad
  <2> HIDE DEF u
  <2> QED BY <2>3, <2>5, <2>7, <2>9, <2>11, <2>12
<1> QED BY <1>1

----
\* What a model explains: the psf around each of its components.  The
\* psfs are given in halves and the components are even.
EvenIntegers == {x \in Int : x % 2 = 0}

Seen(w, h, psf, p, c) == IF Offset(w, h, p, c) \in PixelsOf(w, h) THEN psf[Offset(w, h, p, c)] ELSE 0
Share(w, h, psf, p, c, value) == (Seen(w, h, psf, p, c) * value) \div 2
Shares(w, h, psf, p, image) == [c \in DOMAIN image |-> Share(w, h, psf, p, c, image[c])]
Spread(w, h, psf, p, image) == Total(Shares(w, h, psf, p, image), DOMAIN image)

LEMMA EvenHalves ==
  ASSUME NEW s \in Int, NEW a \in EvenIntegers, NEW b \in EvenIntegers
  PROVE  (s * (a + b)) \div 2 = (s * a) \div 2 + (s * b) \div 2
<1>1. PICK m \in Int : a = 2 * m
  <2>1. a = 2 * (a \div 2) /\ a \div 2 \in Int  BY DEF EvenIntegers
  <2> QED BY <2>1
<1>2. PICK n \in Int : b = 2 * n
  <2>1. b = 2 * (b \div 2) /\ b \div 2 \in Int  BY DEF EvenIntegers
  <2> QED BY <2>1
<1>3. s * a = 2 * (s * m) /\ s * b = 2 * (s * n) /\ s * (a + b) = 2 * (s * m + s * n)  BY <1>1, <1>2
<1> DEFINE x == s * m
           y == s * n
<1>4. x \in Int /\ y \in Int  OBVIOUS
<1> HIDE DEF x, y
<1>5. (2 * x) \div 2 = x /\ (2 * y) \div 2 = y /\ (2 * (x + y)) \div 2 = x + y  BY <1>4
<1> QED BY <1>3, <1>5 DEF x, y

LEMMA SeenIsInteger ==
  ASSUME NEW w, NEW h, NEW psf \in [PixelsOf(w, h) -> Int], NEW p, NEW c
  PROVE  Seen(w, h, psf, p, c) \in Int  BY DEF Seen

LEMMA ShareTypes ==
  ASSUME NEW w, NEW h, NEW psf \in [PixelsOf(w, h) -> Int], NEW p, NEW c, NEW value \in Int
  PROVE  Share(w, h, psf, p, c, value) \in Int /\ Share(w, h, psf, p, c, 0) = 0
<1> DEFINE s == Seen(w, h, psf, p, c)
<1>1. s \in Int  BY SeenIsInteger
<1> HIDE DEF s
<1>2. s * value \in Int /\ s * 0 = 0  BY <1>1
<1>3. (s * value) \div 2 \in Int /\ (s * 0) \div 2 = 0  BY <1>2
<1> QED BY <1>3 DEF Share, s

LEMMA SharesAreIntegers ==
  ASSUME NEW w, NEW h, NEW psf \in [PixelsOf(w, h) -> Int], NEW p, NEW T, NEW image \in [T -> Int]
  PROVE  AreIntegers(Shares(w, h, psf, p, image), T)
<1>1. ASSUME NEW c \in T PROVE Shares(w, h, psf, p, image)[c] \in Int
  <2>1. image[c] \in Int /\ Shares(w, h, psf, p, image)[c] = Share(w, h, psf, p, c, image[c])  BY DEF Shares
  <2> QED BY <2>1, ShareTypes
<1> QED BY <1>1 DEF AreIntegers

LEMMA SpreadIsInteger ==
  ASSUME NEW w, NEW h, NEW psf \in [PixelsOf(w, h) -> Int], NEW p, NEW T, IsFiniteSet(T), NEW image \in [T -> Int]
  PROVE  Spread(w, h, psf, p, image) \in Int
<1>1. DOMAIN image = T  OBVIOUS
<1> QED BY <1>1, SharesAreIntegers, TotalTypes DEF Spread

\* A blank model explains nothing.
LEMMA SpreadOfBlank ==
  ASSUME NEW w, NEW h, NEW psf \in [PixelsOf(w, h) -> Int], NEW p, NEW T, IsFiniteSet(T), NEW image \in [T -> Int],
         \A c \in T : image[c] = 0
  PROVE  Spread(w, h, psf, p, image) = 0
<1> DEFINE f == Shares(w, h, psf, p, image)
<1>1. DOMAIN image = T /\ AreIntegers(f, T)  BY SharesAreIntegers
<1>2. \A c \in T : f[c] = 0  BY ShareTypes DEF Shares
<1> HIDE DEF f
<1>3. Total(f, T) = Total(f, {})  BY <1>1, <1>2, TotalOfNonZero
<1> QED BY <1>1, <1>3, TotalOfNone DEF Spread, f

\* A component adds its psf.
LEMMA SpreadChanges ==
  ASSUME NEW w, NEW h, NEW psf \in [PixelsOf(w, h) -> Int], NEW p, NEW T, IsFiniteSet(T),
         NEW image \in [T -> EvenIntegers], NEW other \in [T -> EvenIntegers], NEW at \in T,
         NEW factor \in EvenIntegers, \A c \in T : other[c] = IF c = at THEN image[c] + factor ELSE image[c]
  PROVE  Spread(w, h, psf, p, other) = Spread(w, h, psf, p, image) + Share(w, h, psf, p, at, factor)
<1> DEFINE f == Shares(w, h, psf, p, image)
           g == Shares(w, h, psf, p, other)
<1>1. EvenIntegers \subseteq Int /\ image \in [T -> Int] /\ other \in [T -> Int]  BY DEF EvenIntegers
<1>2. DOMAIN image = T /\ DOMAIN other = T /\ AreIntegers(f, T) /\ AreIntegers(g, T)  BY <1>1, SharesAreIntegers
<1>3. \A c \in T : c # at => f[c] = g[c]  BY DEF Shares
<1>4. f[at] = Share(w, h, psf, p, at, image[at]) /\ g[at] = Share(w, h, psf, p, at, other[at])  BY DEF Shares
<1>5. g[at] = f[at] + Share(w, h, psf, p, at, factor)
  <2> DEFINE s == Seen(w, h, psf, p, at)
  <2>1. s \in Int /\ image[at] \in EvenIntegers /\ other[at] = image[at] + factor  BY SeenIsInteger
  <2> HIDE DEF s
  <2>2. (s * (image[at] + factor)) \div 2 = (s * image[at]) \div 2 + (s * factor) \div 2  BY <2>1, EvenHalves
  <2> QED BY <1>4, <2>1, <2>2 DEF Share, s
<1>6. Share(w, h, psf, p, at, factor) \in Int  BY <1>1, ShareTypes
<1> HIDE DEF f, g
<1>7. Total(g, T) = Total(f, T) - f[at] + g[at]  BY <1>2, <1>3, TotalChanges
<1>8. Total(f, T) \in Int /\ f[at] \in Int  BY <1>2, TotalTypes DEF AreIntegers
<1> QED BY <1>2, <1>5, <1>6, <1>7, <1>8 DEF Spread, f, g

\* A model of some pixels explains what the model with the others blank does.
LEMMA SpreadOfPart ==
  ASSUME NEW w, NEW h, NEW psf \in [PixelsOf(w, h) -> Int], NEW p, NEW T, IsFiniteSet(T), NEW R \in SUBSET T,
         NEW image \in [T -> Int], NEW part \in [R -> Int],
         \A c \in T : image[c] = IF c \in R THEN part[c] ELSE 0
  PROVE  Spread(w, h, psf, p, image) = Spread(w, h, psf, p, part)
<1> DEFINE f == Shares(w, h, psf, p, image)
           g == Shares(w, h, psf, p, part)
<1>1. DOMAIN image = T /\ DOMAIN part = R /\ AreIntegers(f, T) /\ AreIntegers(g, R)  BY SharesAreIntegers
<1>2. \A c \in T : c \notin R => f[c] = 0  BY ShareTypes DEF Shares
<1>3. \A c \in R : f[c] = g[c]  BY DEF Shares
<1>4. IsFiniteSet(R)  BY FS_Subset
<1> HIDE DEF f, g
<1>5. Total(f, T) = Total(f, R) /\ Total(f, R) = Total(g, R)  BY <1>1, <1>2, <1>3, <1>4, TotalOfNonZero, TotalOfSame
<1> QED BY <1>1, <1>5 DEF Spread, f, g

\* `Response' adds the parts that are not zero.
LEMMA ResponseIsSpread ==
  ASSUME NEW psf \in [CleanPixels -> Int], NEW p, NEW T, IsFiniteSet(T), NEW image \in [T -> Int]
  PROVE  Response(image, psf, p) = Spread(clean.width, clean.height, psf, p, image)
<1> DEFINE S == {c \in DOMAIN image : image[c] # 0}
           f == Shares(clean.width, clean.height, psf, p, image)
           IsSum(F) == F = [s \in SUBSET S |-> IF s = {} THEN 0
                              ELSE (PsfAt(psf, p, OneOf(s)) * image[OneOf(s)]) \div 2 + F[s \ {OneOf(s)}]]
           F == CHOOSE F : IsSum(F)
<1>1. CleanPixels = PixelsOf(clean.width, clean.height) /\ DOMAIN image = T /\ S \in SUBSET T /\ IsFiniteSet(S)
  BY FS_Subset DEF CleanPixels
<1>2. \A c \in S : f[c] = (PsfAt(psf, p, c) * image[c]) \div 2  BY DEF Shares, Share, Seen, Offset, PsfAt, CleanPixels
<1>3. ASSUME NEW G PROVE IsSum(G) <=> Sums(G, S, f)
  <2> DEFINE A(s) == IF s = {} THEN 0 ELSE (PsfAt(psf, p, OneOf(s)) * image[OneOf(s)]) \div 2 + G[s \ {OneOf(s)}]
             B(s) == IF s = {} THEN 0 ELSE f[OneOf(s)] + G[s \ {OneOf(s)}]
  <2>1. \A s \in SUBSET S : A(s) = B(s)
    <3> SUFFICES ASSUME NEW s \in SUBSET S, s # {} PROVE A(s) = B(s)  OBVIOUS
    <3>1. OneOf(s) \in S  BY OneOfSet
    <3> HIDE DEF f, S
    <3> QED BY <1>2, <3>1
  <2>2. [s \in SUBSET S |-> A(s)] = [s \in SUBSET S |-> B(s)]
    <3> HIDE DEF A, B, S
    <3> QED BY <2>1
  <2> QED BY <2>2 DEF Sums
<1>4. \E G : IsSum(G)
  <2>1. PICK G : Sums(G, S, f)  BY <1>1, SumsExist
  <2> QED BY <1>3, <2>1
<1>5. IsSum(F)
  <2> HIDE DEF IsSum
  <2> QED BY <1>4
<1>6. Response(image, psf, p) = F[S]  BY DEF Response, MapThenSumSet, MapThenFoldSet, OneOf
<1>7. AreIntegers(f, T) /\ \A c \in T : c \notin S => f[c] = 0
  <2>1. AreIntegers(f, T)  BY <1>1, SharesAreIntegers
  <2>2. \A c \in T : c \notin S => f[c] = 0  BY <1>1, ShareTypes DEF Shares
  <2> QED BY <2>1, <2>2
<1> HIDE DEF F, IsSum, f
<1>8. F[S] = Total(f, S)  BY <1>1, <1>3, <1>5, TotalIsSum
<1> HIDE DEF S
<1>9. Total(f, T) = Total(f, S)  BY <1>1, <1>7, TotalOfNonZero
<1> QED BY <1>1, <1>6, <1>8, <1>9 DEF Spread, f

----
\* The threads of SubtractImage divide the rows, and each subtracts the
\* psf from its own.
LEMMA HalfSizes ==
  ASSUME EvenSizes, clean \in CleanSetups
  PROVE  /\ clean.width \in Nat \ {0} /\ clean.height \in Nat \ {0}
         /\ clean.width \div 2 \in Nat /\ clean.width = 2 * (clean.width \div 2)
         /\ clean.height \div 2 \in Nat /\ clean.height = 2 * (clean.height \div 2)
<1>1. clean.width \in Nat \ {0} /\ clean.height \in Nat \ {0} /\ clean.width % 2 = 0 /\ clean.height % 2 = 0
  BY OneSetup DEF EvenSizes
<1> QED BY <1>1

ShareAt(psf, p, at, factor) == Share(clean.width, clean.height, psf, p, at, factor)

LEMMA RowsAreSubtracted ==
  ASSUME EvenSizes, clean \in CleanSetups, NEW image \in [CleanPixels -> Int], NEW psf \in [CleanPixels -> Int],
         NEW at \in CleanPixels, NEW factor \in Int, NEW startY \in Int, NEW endY \in Int, NEW p \in CleanPixels
  PROVE  PartialSubtractImage(image, psf, at, factor, startY, endY)[p] =
           IF p[2] \in startY .. endY - 1 THEN image[p] - ShareAt(psf, p, at, factor) ELSE image[p]
<1> DEFINE w == clean.width
           h == clean.height
           a == w \div 2
           b == h \div 2
           x == p[1] - (at[1] - a)
           y == p[2] - (at[2] - b)
           columns == GreatestOf(at[1] - a, 0) .. LeastOf(at[1] + a, w) - 1
           lines == GreatestOf(at[2] - b, startY) .. LeastOf(at[2] + b, endY) - 1
<1>1. a \in Nat /\ w = 2 * a /\ b \in Nat /\ h = 2 * b  BY HalfSizes
<1>2. CleanPixels = (0 .. w - 1) \X (0 .. h - 1) /\ PixelsOf(w, h) = CleanPixels  BY DEF CleanPixels, PixelsOf
<1>3. PartialSubtractImage(image, psf, at, factor, startY, endY)[p] =
        IF p[1] \in columns /\ p[2] \in lines THEN image[p] - (psf[<<x, y>>] * factor) \div 2 ELSE image[p]
  BY DEF PartialSubtractImage
<1>4. ShareAt(psf, p, at, factor) = (IF <<x, y>> \in CleanPixels THEN psf[<<x, y>>] * factor ELSE 0 * factor) \div 2
  <2>1. Offset(w, h, p, at) = <<x, y>>
    <3> HIDE DEF a, b, w, h
    <3>1. /\ p[1] \in Int /\ p[2] \in Int /\ at[1] \in Int /\ at[2] \in Int /\ a \in Int /\ b \in Int  BY <1>1, <1>2
    <3>2. p[1] - at[1] + a = x /\ p[2] - at[2] + b = y  BY <3>1
    <3> QED BY <3>2 DEF Offset, a, b
  <2>2. Seen(w, h, psf, p, at) = IF <<x, y>> \in CleanPixels THEN psf[<<x, y>>] ELSE 0  BY <1>2, <2>1 DEF Seen
  <2> HIDE DEF x, y, w, h
  <2> QED BY <2>2 DEF ShareAt, Share, w, h
<1> HIDE DEF a, b, w, h
<1>5. /\ p[1] \in 0 .. w - 1 /\ p[2] \in 0 .. h - 1 /\ at[1] \in 0 .. w - 1 /\ at[2] \in 0 .. h - 1  BY <1>2
<1>6. <<x, y>> \in CleanPixels <=> x \in 0 .. w - 1 /\ y \in 0 .. h - 1
  <2> HIDE DEF x, y
  <2> QED BY <1>2
<1>7. x \in 0 .. w - 1 <=> p[1] \in columns  BY <1>1, <1>5 DEF GreatestOf, LeastOf
<1>8. y \in 0 .. h - 1 /\ p[2] \in startY .. endY - 1 <=> p[2] \in lines  BY <1>1, <1>5 DEF GreatestOf, LeastOf
<1> HIDE DEF x, y, columns, lines
<1>9. image[p] \in Int /\ 0 * factor = 0 /\ 0 \div 2 = 0  OBVIOUS
<1> QED BY <1>3, <1>4, <1>6, <1>7, <1>8, <1>9

\* Quotients keep the order.
LEMMA QuotientsInOrder ==
  ASSUME NEW a \in Nat, NEW b \in Nat, a <= b, NEW n \in Nat \ {0}
  PROVE  a \div n \in Nat /\ a \div n <= b \div n
<1> DEFINE q == a \div n
           r == b \div n
<1>1. q \in Nat /\ n * q <= a /\ a < n * q + n  OBVIOUS
<1>2. r \in Nat /\ n * r <= b /\ b < n * r + n  OBVIOUS
<1> HIDE DEF q, r
<1>3. n * q < n * r + n  BY <1>1, <1>2
<1>4. n * r + n = n * (r + 1)  BY <1>2
<1>5. q < r + 1  BY <1>1, <1>2, <1>3, <1>4
<1> QED BY <1>1, <1>2, <1>5 DEF q, r

LEMMA SlicesFollow ==
  ASSUME clean \in CleanSetups
  PROVE  /\ SliceStart(0) = 0 /\ SliceEnd(clean.threads - 1) = clean.height
         /\ \A t \in Nat : SliceStart(t) \in Nat /\ SliceEnd(t) \in Nat /\ SliceEnd(t) = SliceStart(t + 1)
         /\ \A t, u \in Nat : t <= u => SliceStart(t) <= SliceStart(u)
<1> DEFINE h == clean.height
           n == clean.threads
<1>1. h \in Nat \ {0} /\ n \in Nat \ {0}  BY OneSetup
<1>2. \A t \in Nat : SliceStart(t) = (h * t) \div n /\ SliceEnd(t) = (h * (t + 1)) \div n  BY DEF SliceStart, SliceEnd
<1>a. SliceStart(0) = (h * 0) \div n /\ SliceEnd(n - 1) = (h * ((n - 1) + 1)) \div n  BY DEF SliceStart, SliceEnd
<1> HIDE DEF h, n
<1>3. (h * 0) \div n = 0
  <2>1. h * 0 = 0 /\ 0 \div n = 0  BY <1>1
  <2> QED BY <2>1
<1>4. (h * ((n - 1) + 1)) \div n = h
  <2>1. (n - 1) + 1 = n  BY <1>1
  <2>2. h * n \in Nat /\ (h * n) \div n = h  BY <1>1
  <2> QED BY <2>1, <2>2
<1>5. ASSUME NEW t \in Nat, NEW u \in Nat, t <= u PROVE (h * t) \div n \in Nat /\ (h * t) \div n <= (h * u) \div n
  <2>1. h * t \in Nat /\ h * u \in Nat /\ h * t <= h * u
    <3>1. PICK d \in Nat : u = t + d
      <4>1. u - t \in Nat /\ u = t + (u - t)  BY <1>5
      <4> QED BY <4>1
    <3>2. h * u = h * t + h * d /\ h * d \in Nat /\ h * t \in Nat  BY <1>1, <3>1
    <3> QED BY <3>2
  <2> QED BY <1>1, <2>1, QuotientsInOrder
<1>6. \A t \in Nat : SliceStart(t) \in Nat /\ SliceEnd(t) \in Nat
  <2> TAKE t \in Nat
  <2>1. t + 1 \in Nat /\ t <= t /\ t + 1 <= t + 1  OBVIOUS
  <2>2. (h * t) \div n \in Nat /\ (h * (t + 1)) \div n \in Nat  BY <1>5, <2>1
  <2> QED BY <1>2, <2>2
<1>7. \A t \in Nat : SliceEnd(t) = SliceStart(t + 1)  BY <1>2
<1>8. \A t, u \in Nat : t <= u => SliceStart(t) <= SliceStart(u)  BY <1>2, <1>5
<1> QED BY <1>3, <1>4, <1>a, <1>6, <1>7, <1>8 DEF h, n

IsRowOf(y, t) == y \in SliceStart(t) .. SliceEnd(t) - 1

\* Every row is one thread's.
LEMMA RowHasThread ==
  ASSUME clean \in CleanSetups, NEW y \in 0 .. clean.height - 1
  PROVE  \E t \in 0 .. clean.threads - 1 : IsRowOf(y, t)
<1> DEFINE T == {t \in Nat : y < SliceEnd(t)}
           last == clean.threads - 1
<1>1. clean.height \in Nat \ {0} /\ last \in Nat /\ clean.threads \in Nat \ {0}  BY OneSetup
<1>2. SliceStart(0) = 0 /\ SliceEnd(last) = clean.height
      /\ \A t \in Nat : SliceStart(t) \in Nat /\ SliceEnd(t) \in Nat /\ SliceEnd(t) = SliceStart(t + 1)
  BY SlicesFollow
<1>3. last \in T  BY <1>1, <1>2
<1>4. T \subseteq Nat  OBVIOUS
<1> HIDE DEF T
<1>5. PICK t \in T : \A u \in T : t <= u  BY <1>3, <1>4, LeastElement
<1>6. t \in Nat /\ t <= last /\ y < SliceEnd(t)  BY <1>3, <1>5 DEF T
<1>7. SliceStart(t) <= y
  <2>1. CASE t = 0  BY <1>1, <1>2, <2>1
  <2>2. CASE t # 0
    <3>1. t - 1 \in Nat /\ ~(t <= t - 1) /\ (t - 1) + 1 = t  BY <1>6, <2>2
    <3>2. t - 1 \notin T  BY <1>5, <3>1
    <3>3. ~(y < SliceEnd(t - 1))  BY <3>1, <3>2 DEF T
    <3>4. SliceEnd(t - 1) = SliceStart(t) /\ SliceStart(t) \in Nat /\ y \in Int  BY <1>2, <1>6, <3>1
    <3> QED BY <3>3, <3>4
  <2> QED BY <2>1, <2>2
<1>8. t \in 0 .. clean.threads - 1 /\ SliceStart(t) \in Nat /\ SliceEnd(t) \in Nat /\ y \in Int  BY <1>1, <1>2, <1>6
<1>9. IsRowOf(y, t)  BY <1>6, <1>7, <1>8 DEF IsRowOf
<1> QED BY <1>8, <1>9

LEMMA RowHasOneThread ==
  ASSUME clean \in CleanSetups, NEW y \in Int, NEW t \in Nat, NEW u \in Nat, IsRowOf(y, t), IsRowOf(y, u)
  PROVE  t = u
<1>1. \A a, b \in Nat : a < b => SliceEnd(a) <= SliceStart(b)
  <2> TAKE a, b \in Nat
  <2> HAVE a < b
  <2>1. a + 1 \in Nat /\ a + 1 <= b  OBVIOUS
  <2> QED BY <2>1, SlicesFollow
<1>2. /\ SliceStart(t) \in Nat /\ SliceEnd(t) \in Nat /\ SliceStart(u) \in Nat /\ SliceEnd(u) \in Nat
      /\ SliceStart(t) <= y /\ y < SliceEnd(t) /\ SliceStart(u) <= y /\ y < SliceEnd(u)
  <2>1. SliceStart(t) \in Nat /\ SliceEnd(t) \in Nat /\ SliceStart(u) \in Nat /\ SliceEnd(u) \in Nat  BY SlicesFollow
  <2>2. y \in SliceStart(t) .. SliceEnd(t) - 1 /\ y \in SliceStart(u) .. SliceEnd(u) - 1  BY DEF IsRowOf
  <2> QED BY <2>1, <2>2
<1>3. ~(t < u) /\ ~(u < t)  BY <1>1, <1>2
<1> QED BY <1>3

----
\* What is known at each step of the call: the residuals are the dirty
\* images without what the model explains, up to the parts that threads
\* still have to subtract.

\* The root of what was left in the buffer is an integer.
LEMMA RootIsInteger == ASSUME NEW n \in Nat PROVE Root(n) \in Int
<1> DEFINE T == {r \in Nat : (r + 1) * (r + 1) > n}
<1>1. n \in T
  <2>1. (n + 1) * (n + 1) = n * n + n + n + 1 /\ n * n \in Nat  OBVIOUS
  <2> QED BY <2>1
<1>2. T \subseteq Nat  OBVIOUS
<1> HIDE DEF T
<1>3. PICK r \in T : \A s \in T : r <= s  BY <1>1, <1>2, LeastElement
<1>4. r \in Nat /\ (r + 1) * (r + 1) > n  BY <1>3 DEF T
<1>5. r * r <= n
  <2>1. CASE r = 0  BY <2>1
  <2>2. CASE r # 0
    <3>1. r - 1 \in Nat /\ ~(r <= r - 1) /\ (r - 1) + 1 = r  BY <1>4, <2>2
    <3>2. ~(((r - 1) + 1) * ((r - 1) + 1) > n)  BY <1>3, <3>1 DEF T
    <3>3. ~(r * r > n) /\ r * r \in Int  BY <1>4, <3>1, <3>2
    <3> QED BY <3>3
  <2> QED BY <2>1, <2>2
<1>6. r <= n
  <2>1. CASE r = 0  BY <2>1
  <2>2. CASE r # 0
    <3>1. r - 1 \in Nat /\ r * r = r * (r - 1) + r /\ r * (r - 1) \in Nat  BY <1>4, <2>2
    <3> QED BY <1>4, <1>5, <3>1
  <2> QED BY <2>1, <2>2
<1>7. r \in 0 .. n /\ r * r <= n /\ (r + 1) * (r + 1) > n  BY <1>4, <1>5, <1>6
<1>8. Root(n) \in 0 .. n  BY <1>7 DEF Root
<1> QED BY <1>8

LEMMA BufferTypes ==
  ASSUME clean \in CleanSetups, AreImages(residual), integrated \in [CleanPixels -> Int]
  PROVE  SquareIntegrated(residual) \in [CleanPixels -> Int]
<1>1. CASE clean.joined = "channels" \/ Len(residual) = 1  BY <1>1, LinearTypes DEF SquareIntegrated
<1>2. CASE ~(clean.joined = "channels" \/ Len(residual) = 1)
  <2> DEFINE value(p) == SquareSum(residual, p, Linked) + (IF 1 \in Linked THEN 0 ELSE LeftInBuffer(p))
  <2>1. SquareIntegrated(residual) = [p \in CleanPixels |-> value(p)]  BY <1>2 DEF SquareIntegrated, SquareSum
  <2>2. ASSUME NEW p \in CleanPixels PROVE value(p) \in Int
    <3>1. SquareSum(residual, p, Linked) \in Int  BY SquareSums
    <3>2. LeftInBuffer(p) \in Int
      <4> DEFINE x == integrated[p]
      <4>1. x \in Int  OBVIOUS
      <4>2. LeftInBuffer(p) = IF x < 0 THEN -Root(-x) ELSE Root(x)  BY DEF LeftInBuffer
      <4> HIDE DEF x
      <4>3. x < 0 => Root(-x) \in Int
        <5> SUFFICES ASSUME x < 0 PROVE Root(-x) \in Int  OBVIOUS
        <5>1. -x \in Nat  BY <4>1
        <5> QED BY <5>1, RootIsInteger
      <4>4. ~(x < 0) => Root(x) \in Int  BY <4>1, RootIsInteger
      <4> QED BY <4>2, <4>3, <4>4
    <3> QED BY <3>1, <3>2
  <2> HIDE DEF value
  <2> QED BY <2>1, <2>2
<1> QED BY <1>1, <1>2

LEMMA PeakIsPixel ==
  ASSUME clean \in CleanSetups, NEW image \in [CleanPixels -> Int]
  PROVE  FindPeak(image) = NoPeak \/ FindPeak(image) \in CleanPixels
<1> DEFINE found == {p \in InsideBorder \cap clean.mask : HeightOf(image[p]) > 0}
<1>1. clean.mask \subseteq CleanPixels  BY OneSetup
<1>2. CASE found # {}
  <2>1. FindPeak(image) = HighestOf(image, found)  BY <1>2 DEF FindPeak
  <2>2. found \subseteq CleanPixels  BY <1>1
  <2>3. HasHeights(image, found)
    <3>1. \A p \in found : image[p] \in Int  BY <2>2
    <3>2. \A p \in found : HeightOf(image[p]) \in Int  BY <3>1, HeightIsInteger
    <3> HIDE DEF found
    <3> QED BY <2>2, <3>2, FinitePixels DEF HasHeights
  <2>4. IsFiniteSet(found)  BY <2>2, FinitePixels, FS_Subset
  <2> HIDE DEF found
  <2>5. HighestOf(image, found) \in found  BY <1>2, <2>3, <2>4, HighestExists
  <2> QED BY <2>1, <2>2, <2>5
<1>3. CASE found = {}  BY <1>3, FinitePixels DEF FindPeak
<1> QED BY <1>2, <1>3

LEMMA GainIsEven == ASSUME NEW v \in Int PROVE Gain(v) \in EvenIntegers
<1>1. v \div 4 \in Int  OBVIOUS
<1> DEFINE q == v \div 4
<1> HIDE DEF q
<1>2. q \in Int => 2 * q \in Int /\ (2 * q) % 2 = 0  OBVIOUS
<1> QED BY <1>1, <1>2 DEF Gain, EvenIntegers, q

LEMMA EvenSum == ASSUME NEW a \in EvenIntegers, NEW b \in EvenIntegers PROVE a + b \in EvenIntegers /\ 0 \in EvenIntegers
<1>1. a \in Int /\ b \in Int /\ a % 2 = 0 /\ b % 2 = 0  BY DEF EvenIntegers
<1>2. a + b \in Int /\ (a + b) % 2 = 0  BY <1>1
<1> QED BY <1>2 DEF EvenIntegers

\* The values of the positions of the sub-minor loop, of which one is highest.
LEMMA PositionsAreImages ==
  ASSUME clean \in CleanSetups, NEW P \in SUBSET CleanPixels, NEW images \in [Images -> [P -> Int]]
  PROVE  LinearIntegrated(images) \in [P -> Int]
<1> DEFINE sum(p) == ValueSum(images, p, Linked)
           value(p) == SignedSquare(IF clean.joined = "channels" THEN sum(p) \div Len(images) ELSE sum(p))
<1>1. DOMAIN images[1] = P  BY LinkedImages
<1>2. ASSUME NEW p \in P PROVE sum(p) \in Int
  <2>1. \A i \in Linked : images[i][p] \in Int  BY LinkedImages
  <2> QED BY <2>1, LinkedImages, SumOfValues
<1>3. LinearIntegrated(images) = [p \in P |-> value(p)]  BY <1>1 DEF LinearIntegrated, ValueSum
<1>4. Len(images) \in Nat \ {0}
  <2>1. Images = 1 .. Len(clean.dirty) /\ Len(clean.dirty) \in Nat \ {0}  BY OneSetup
  <2> DEFINE n == Len(clean.dirty)
  <2> HIDE DEF n
  <2>2. n \in Nat \ {0} /\ DOMAIN images = 1 .. n  BY <2>1 DEF n
  <2>3. Len(images) = n  BY <2>2
  <2> QED BY <2>2, <2>3
<1> HIDE DEF sum
<1>5. ASSUME NEW p \in P PROVE value(p) \in Int
  <2>1. sum(p) \in Int /\ sum(p) \div Len(images) \in Int  BY <1>2, <1>4
  <2> DEFINE x == IF clean.joined = "channels" THEN sum(p) \div Len(images) ELSE sum(p)
  <2>2. x \in Int  BY <2>1
  <2> HIDE DEF x
  <2>3. SignedSquare(x) \in Int  BY <2>2 DEF SignedSquare, Magnitude
  <2> QED BY <2>3 DEF x
<1> HIDE DEF value
<1> QED BY <1>3, <1>5

LEMMA MaxComponentIsPosition ==
  ASSUME clean \in CleanSetups, subMinor.positions \in SUBSET CleanPixels, subMinor.positions # {},
         subMinor.residual \in [Images -> [subMinor.positions -> Int]]
  PROVE  GetMaxComponent \in subMinor.positions
<1> DEFINE P == subMinor.positions
           sum == LinearIntegrated(subMinor.residual)
<1>1. sum \in [P -> Int]  BY PositionsAreImages
<1>2. SubMinorValues = [p \in P |-> sum[p] * clean.rmsFactor[p] * clean.rmsFactor[p]]  BY DEF SubMinorValues
<1>3. P \in SUBSET CleanPixels /\ P # {}  OBVIOUS
<1> HIDE DEF P, sum
<1>4. ASSUME NEW p \in P PROVE HeightOf(SubMinorValues[p]) \in Int
  <2>1. clean.rmsFactor[p] \in Nat  BY <1>3, OneSetup
  <2>2. SubMinorValues[p] \in Int  BY <1>1, <1>2, <2>1
  <2> QED BY <2>2, HeightIsInteger
<1>5. HasHeights(SubMinorValues, P) /\ IsFiniteSet(P)  BY <1>3, <1>4, FinitePixels, FS_Subset DEF HasHeights
<1>6. HighestOf(SubMinorValues, P) \in P  BY <1>3, <1>5, HighestExists
<1> QED BY <1>6 DEF GetMaxComponent, P

----
\* The convolution of the sub-minor loop.  The kernel is the psf, repeated
\* with the size of the padded image as its period: a component sees it
\* where it should, and nowhere else when its repetitions are blank there.
Margin(n) == (ConvolutionSize(n) - n) \div 2

LEMMA ConvolutionRoom ==
  ASSUME NEW n \in Nat \ {0}, n % 2 = 0
  PROVE  /\ ConvolutionSize(n) \in Nat \ {0} /\ ConvolutionSize(n) % 2 = 0 /\ n <= ConvolutionSize(n)
         /\ Margin(n) \in Nat /\ 2 * Margin(n) = ConvolutionSize(n) - n
         /\ ConvolutionSize(n) \div 2 = Margin(n) + n \div 2 /\ n = 2 * (n \div 2) /\ n \div 2 \in Nat
<1> DEFINE padded == (11 * n + 9) \div 10
           C == padded + (padded % 2)
<1>1. padded \in Nat /\ n <= padded  OBVIOUS
<1>2. ConvolutionSize(n) = C  BY DEF ConvolutionSize
<1> HIDE DEF padded
<1>3. C \in Nat \ {0} /\ C % 2 = 0 /\ n <= C  BY <1>1
<1> HIDE DEF C
<1>4. (C - n) \div 2 \in Nat /\ 2 * ((C - n) \div 2) = C - n /\ n = 2 * (n \div 2) /\ n \div 2 \in Nat /\ C = 2 * (C \div 2)
      /\ C \div 2 \in Nat  BY <1>3
<1>5. C \div 2 = (C - n) \div 2 + n \div 2  BY <1>3, <1>4
<1> QED BY <1>2, <1>3, <1>4, <1>5 DEF Margin

LEMMA ModOnce ==
  ASSUME NEW C \in Nat \ {0}, NEW a \in Int
  PROVE  /\ a \in 0 .. C - 1 => a % C = a
         /\ a \in C .. 2 * C - 1 => a % C = a - C
         /\ a \in -C .. -1 => a % C = a + C  OBVIOUS

\* Where in the padded psf the convolution looks for the pixel at a distance of x.
LookedAt(n, x) == ((x % ConvolutionSize(n)) + ConvolutionSize(n) \div 2) % ConvolutionSize(n)

LEMMA LookedAtOffset ==
  ASSUME NEW n \in Nat \ {0}, n % 2 = 0, NEW x \in Int, -n < x, x < n
  PROVE  /\ x % ConvolutionSize(n) \in 0 .. ConvolutionSize(n) - 1
         /\ LookedAt(n, x) \in 0 .. ConvolutionSize(n) - 1
         /\ LookedAt(n, x) - Margin(n) - (x + n \div 2) \in Periods(n)
<1> DEFINE C == ConvolutionSize(n)
           S == Margin(n)
           H == C \div 2
           a == n \div 2
           r == x % C
           t == (r + H) % C
<1>1. C \in Nat \ {0} /\ C % 2 = 0 /\ n <= C /\ S \in Nat /\ 2 * S = C - n /\ H = S + a /\ n = 2 * a /\ a \in Nat
  BY ConvolutionRoom
<1>2. C = 2 * H /\ H \in Nat  BY <1>1
<1> HIDE DEF C, S, H, a
<1>3. r = IF x >= 0 THEN x ELSE x + C
  <2>1. CASE x >= 0
    <3>1. x \in 0 .. C - 1  BY <1>1, <2>1
    <3> QED BY <1>1, <2>1, <3>1, ModOnce
  <2>2. CASE ~(x >= 0)
    <3>1. x \in -C .. -1  BY <1>1, <2>2
    <3> QED BY <1>1, <2>2, <3>1, ModOnce
  <2> QED BY <2>1, <2>2
<1>4. r \in 0 .. C - 1  BY <1>1, <1>3
<1> HIDE DEF r
<1>5. t = IF r + H < C THEN r + H ELSE r + H - C
  <2> DEFINE z == r + H
  <2>1. z \in Int /\ 0 <= z /\ z < 2 * C  BY <1>2, <1>4
  <2>2. t = z % C  OBVIOUS
  <2> HIDE DEF z, t
  <2>3. CASE z < C
    <3>1. z \in 0 .. C - 1  BY <1>1, <2>1, <2>3
    <3> QED BY <1>1, <2>2, <2>3, <3>1, ModOnce DEF z
  <2>4. CASE ~(z < C)
    <3>1. z \in C .. 2 * C - 1  BY <1>1, <2>1, <2>4
    <3>2. t = z - C  BY <1>1, <2>1, <2>2, <3>1, ModOnce
    <3> QED BY <1>1, <1>2, <1>4, <2>4, <3>2 DEF z
  <2> QED BY <2>3, <2>4
<1> HIDE DEF t
<1>6. t \in 0 .. C - 1  BY <1>1, <1>2, <1>4, <1>5
<1>7. t - S - (x + a) \in {-C, 0, C}  BY <1>1, <1>2, <1>3, <1>4, <1>5
<1>8. LookedAt(n, x) = t  BY DEF LookedAt, C, H, r, t
<1> QED BY <1>4, <1>6, <1>7, <1>8 DEF Periods, C, S, a, r

PaddedKernel(psf) == PrepareKernel(Untrim(psf))

LEMMA BlankRepetition ==
  ASSUME NothingWrapsAround, clean \in CleanSetups, clean.subMinor, NEW i \in Images,
         NEW c \in MayBeCleaned(clean), NEW p \in CleanPixels, NEW q \in CleanPixels,
         IsRepeated(clean.width, clean.height, q, p, c)
  PROVE  clean.psfs[i][q] = 0
<1>1. i \in DOMAIN clean.psfs /\ p \in PixelsOf(clean.width, clean.height) /\ q \in PixelsOf(clean.width, clean.height)
  BY OneSetup DEF CleanPixels
<1> QED BY <1>1 DEF NothingWrapsAround

\* A component sees the psf where it should.
LEMMA KernelSees ==
  ASSUME EvenSizes, NothingWrapsAround, clean \in CleanSetups, clean.subMinor, NEW i \in Images,
         NEW c \in MayBeCleaned(clean), NEW p \in CleanPixels
  PROVE  /\ Cyclic(p[1] - c[1], p[2] - c[2]) \in Padded
         /\ PaddedKernel(clean.psfs[i])[Cyclic(p[1] - c[1], p[2] - c[2])]
              = Seen(clean.width, clean.height, clean.psfs[i], p, c)
<1> DEFINE w == clean.width
           h == clean.height
           psf == clean.psfs[i]
           x == p[1] - c[1]
           y == p[2] - c[2]
           o == Offset(w, h, p, c)
           t == LookedAt(w, x)
           u == LookedAt(h, y)
           q == <<t - Margin(w), u - Margin(h)>>
           r == Cyclic(x, y)
<1>1. /\ w \in Nat \ {0} /\ w % 2 = 0 /\ h \in Nat \ {0} /\ h % 2 = 0
      /\ psf \in [CleanPixels -> Int] /\ DOMAIN clean.psfs = Images /\ clean.mask \subseteq CleanPixels
  BY OneSetup DEF EvenSizes
<1>2. CleanPixels = (0 .. w - 1) \X (0 .. h - 1) /\ PixelsOf(w, h) = CleanPixels
      /\ Padded = (0 .. ConvolutionSize(w) - 1) \X (0 .. ConvolutionSize(h) - 1)
      /\ StartX = Margin(w) /\ StartY = Margin(h)  BY DEF CleanPixels, PixelsOf, Padded, StartX, StartY, Margin
<1>3. c \in CleanPixels  BY <1>1 DEF MayBeCleaned
<1>a. r = <<x % ConvolutionSize(w), y % ConvolutionSize(h)>> /\ o = <<x + w \div 2, y + h \div 2>>
  BY DEF Cyclic, Offset
<1>b. \A z, v \in Int : Cyclic(z, v) = <<z % ConvolutionSize(w), v % ConvolutionSize(h)>>  BY DEF Cyclic
<1>c. PaddedKernel(psf) = [s \in Padded |->
        Untrim(psf)[Cyclic(s[1] + ConvolutionSize(w) \div 2, s[2] + ConvolutionSize(h) \div 2)]]
  BY DEF PaddedKernel, PrepareKernel
<1>d. \A s \in Padded : Untrim(psf)[s] =
        IF <<s[1] - Margin(w), s[2] - Margin(h)>> \in CleanPixels THEN psf[<<s[1] - Margin(w), s[2] - Margin(h)>>] ELSE 0
  BY <1>2 DEF Untrim
<1>e. q # o /\ q[1] - o[1] \in Periods(w) /\ q[2] - o[2] \in Periods(h) /\ q \in CleanPixels => psf[q] = 0
  BY BlankRepetition DEF IsRepeated
<1>f. Seen(w, h, psf, p, c) = IF o \in CleanPixels THEN psf[o] ELSE 0  BY <1>2 DEF Seen
<1> HIDE DEF w, h, psf, o, r, q
<1>4. x \in Int /\ -w < x /\ x < w /\ y \in Int /\ -h < y /\ y < h  BY <1>1, <1>2, <1>3
<1> HIDE DEF x, y
<1>5. /\ x % ConvolutionSize(w) \in 0 .. ConvolutionSize(w) - 1 /\ t \in 0 .. ConvolutionSize(w) - 1
      /\ t - Margin(w) - (x + w \div 2) \in Periods(w)  BY <1>1, <1>4, LookedAtOffset
<1>6. /\ y % ConvolutionSize(h) \in 0 .. ConvolutionSize(h) - 1 /\ u \in 0 .. ConvolutionSize(h) - 1
      /\ u - Margin(h) - (y + h \div 2) \in Periods(h)  BY <1>1, <1>4, LookedAtOffset
<1>7. r \in Padded  BY <1>2, <1>a, <1>5, <1>6
<1>8. /\ ConvolutionSize(w) \in Nat \ {0} /\ w <= ConvolutionSize(w) /\ Margin(w) \in Nat
      /\ 2 * Margin(w) = ConvolutionSize(w) - w /\ ConvolutionSize(w) \div 2 \in Nat
      /\ ConvolutionSize(h) \in Nat \ {0} /\ h <= ConvolutionSize(h) /\ Margin(h) \in Nat
      /\ 2 * Margin(h) = ConvolutionSize(h) - h /\ ConvolutionSize(h) \div 2 \in Nat  BY <1>1, ConvolutionRoom
<1>9. PaddedKernel(psf)[r] = Untrim(psf)[<<t, u>>]
  <2>1. PaddedKernel(psf)[r] = Untrim(psf)[Cyclic(r[1] + ConvolutionSize(w) \div 2, r[2] + ConvolutionSize(h) \div 2)]
    BY <1>7, <1>c
  <2>2. r[1] + ConvolutionSize(w) \div 2 \in Int /\ r[2] + ConvolutionSize(h) \div 2 \in Int  BY <1>2, <1>7, <1>8
  <2>3. Cyclic(r[1] + ConvolutionSize(w) \div 2, r[2] + ConvolutionSize(h) \div 2) = <<t, u>>
    BY <1>a, <1>b, <2>2 DEF LookedAt
  <2> QED BY <2>1, <2>3
<1> HIDE DEF t, u
<1>10. <<t, u>> \in Padded  BY <1>2, <1>5, <1>6
<1>11. PaddedKernel(psf)[r] = IF q \in CleanPixels THEN psf[q] ELSE 0  BY <1>9, <1>10, <1>d DEF q
<1>12. q[1] - o[1] \in Periods(w) /\ q[2] - o[2] \in Periods(h) /\ q = <<q[1], q[2]>> /\ o = <<o[1], o[2]>>
  BY <1>5, <1>6, <1>a DEF q
<1>13. /\ q[1] \in Int /\ -Margin(w) <= q[1] /\ q[1] < ConvolutionSize(w) - Margin(w)
       /\ q[2] \in Int /\ -Margin(h) <= q[2] /\ q[2] < ConvolutionSize(h) - Margin(h)  BY <1>5, <1>6, <1>8 DEF q
<1>14. o \in CleanPixels => q = o
  <2> SUFFICES ASSUME o \in CleanPixels PROVE q = o  OBVIOUS
  <2>1. o[1] \in 0 .. w - 1 /\ o[2] \in 0 .. h - 1  BY <1>2
  <2>2. q[1] = o[1]
    <3>1. q[1] - o[1] = -ConvolutionSize(w) \/ q[1] - o[1] = 0 \/ q[1] - o[1] = ConvolutionSize(w)
      BY <1>12 DEF Periods
    <3> QED BY <1>1, <1>8, <1>13, <2>1, <3>1
  <2>3. q[2] = o[2]
    <3>1. q[2] - o[2] = -ConvolutionSize(h) \/ q[2] - o[2] = 0 \/ q[2] - o[2] = ConvolutionSize(h)
      BY <1>12 DEF Periods
    <3> QED BY <1>1, <1>8, <1>13, <2>1, <3>1
  <2> QED BY <1>12, <2>2, <2>3
<1>15. PaddedKernel(psf)[r] = Seen(w, h, psf, p, c)  BY <1>11, <1>12, <1>14, <1>e, <1>f
<1> QED BY <1>7, <1>15 DEF w, h, psf, r, x, y

\* The convolved model is what the model explains.
LEMMA ConvolvedIsSpread ==
  ASSUME EvenSizes, NothingWrapsAround, clean \in CleanSetups, clean.subMinor, NEW i \in Images,
         NEW image \in [CleanPixels -> Int], \A c \in CleanPixels : image[c] # 0 => c \in MayBeCleaned(clean),
         NEW p \in CleanPixels
  PROVE  Trim(ConvolveSameSize(Untrim(image), PaddedKernel(clean.psfs[i])))[p]
           = Spread(clean.width, clean.height, clean.psfs[i], p, image)
<1> DEFINE w == clean.width
           h == clean.height
           psf == clean.psfs[i]
           U == Untrim(image)
           K == PaddedKernel(psf)
           P == <<p[1] + StartX, p[2] + StartY>>
           S == {q \in Padded : U[q] # 0}
           R == {c \in CleanPixels : image[c] # 0}
           b == [c \in R |-> <<c[1] + StartX, c[2] + StartY>>]
           f == Shares(w, h, psf, p, image)
           g == [q \in S |-> (U[q] * K[Cyclic(P[1] - q[1], P[2] - q[2])]) \div 2]
           IsSum(F) == F = [s \in SUBSET S |-> IF s = {} THEN 0
                              ELSE (U[OneOf(s)] * K[Cyclic(P[1] - OneOf(s)[1], P[2] - OneOf(s)[2])]) \div 2
                                     + F[s \ {OneOf(s)}]]
           F == CHOOSE F : IsSum(F)
<1>1. /\ w \in Nat \ {0} /\ w % 2 = 0 /\ h \in Nat \ {0} /\ h % 2 = 0 /\ psf \in [PixelsOf(w, h) -> Int]
  BY OneSetup DEF EvenSizes, CleanPixels
<1>2. CleanPixels = (0 .. w - 1) \X (0 .. h - 1)
      /\ Padded = (0 .. ConvolutionSize(w) - 1) \X (0 .. ConvolutionSize(h) - 1)
      /\ StartX = Margin(w) /\ StartY = Margin(h)  BY DEF CleanPixels, PixelsOf, Padded, StartX, StartY, Margin
<1>3. /\ ConvolutionSize(w) \in Nat \ {0} /\ w <= ConvolutionSize(w) /\ Margin(w) \in Nat
      /\ 2 * Margin(w) = ConvolutionSize(w) - w
      /\ ConvolutionSize(h) \in Nat \ {0} /\ h <= ConvolutionSize(h) /\ Margin(h) \in Nat
      /\ 2 * Margin(h) = ConvolutionSize(h) - h  BY <1>1, ConvolutionRoom
<1>4. \A q \in Padded : U[q] = IF <<q[1] - StartX, q[2] - StartY>> \in CleanPixels
                                 THEN image[<<q[1] - StartX, q[2] - StartY>>] ELSE 0  BY DEF Untrim
<1>a. Trim(ConvolveSameSize(U, K))[p] = ConvolveSameSize(U, K)[P]  BY DEF Trim
<1>b. P \in Padded => ConvolveSameSize(U, K)[P] = F[S]  BY DEF ConvolveSameSize, MapThenSumSet, MapThenFoldSet, OneOf
<1>c. S \subseteq Padded /\ R \subseteq CleanPixels  OBVIOUS
<1> HIDE DEF U, w, h, psf, K
<1>5. ASSUME NEW c \in CleanPixels
      PROVE  /\ <<c[1] + StartX, c[2] + StartY>> \in Padded
             /\ <<(c[1] + StartX) - StartX, (c[2] + StartY) - StartY>> = c  BY <1>1, <1>2, <1>3
<1>6. ASSUME NEW c \in R
      PROVE  /\ b[c] = <<c[1] + StartX, c[2] + StartY>> /\ b[c] \in S /\ U[b[c]] = image[c] /\ c \in CleanPixels
             /\ image[c] # 0 /\ image[c] \in Int
  <2>1. b[c] = <<c[1] + StartX, c[2] + StartY>> /\ c \in CleanPixels /\ image[c] # 0 /\ image[c] \in Int  OBVIOUS
  <2>2. b[c] \in Padded /\ <<b[c][1] - StartX, b[c][2] - StartY>> = c  BY <1>5, <2>1
  <2>3. U[b[c]] = image[c]  BY <1>4, <2>1, <2>2
  <2> QED BY <2>1, <2>2, <2>3
<1>7. S = Elsewhere(b, R)
  <2>1. ASSUME NEW q \in S PROVE q \in Elsewhere(b, R)
    <3> DEFINE c == <<q[1] - StartX, q[2] - StartY>>
    <3>1. q \in Padded /\ U[q] # 0  OBVIOUS
    <3>2. c \in CleanPixels /\ image[c] # 0  BY <1>4, <3>1
    <3>3. c \in R  BY <3>2
    <3>4. <<c[1] + StartX, c[2] + StartY>> = q
      <4>1. q[1] \in Int /\ q[2] \in Int /\ q = <<q[1], q[2]>> /\ StartX \in Int /\ StartY \in Int
        BY <1>2, <1>3, <3>1
      <4> QED BY <4>1
    <3> HIDE DEF c
    <3>5. b[c] = q  BY <1>6, <3>3, <3>4
    <3> QED BY <3>3, <3>5 DEF Elsewhere
  <2>2. ASSUME NEW c \in R PROVE b[c] \in S  BY <1>6
  <2> HIDE DEF S, b, R
  <2> QED BY <2>1, <2>2 DEF Elsewhere
<1>8. P \in Padded  BY <1>5
<1>9. ASSUME NEW G PROVE IsSum(G) <=> Sums(G, S, g)
  <2> DEFINE A(s) == IF s = {} THEN 0
                     ELSE (U[OneOf(s)] * K[Cyclic(P[1] - OneOf(s)[1], P[2] - OneOf(s)[2])]) \div 2 + G[s \ {OneOf(s)}]
             B(s) == IF s = {} THEN 0 ELSE g[OneOf(s)] + G[s \ {OneOf(s)}]
  <2>1. \A s \in SUBSET S : A(s) = B(s)
    <3> SUFFICES ASSUME NEW s \in SUBSET S, s # {} PROVE A(s) = B(s)  OBVIOUS
    <3>1. OneOf(s) \in S  BY OneOfSet
    <3>2. g[OneOf(s)] = (U[OneOf(s)] * K[Cyclic(P[1] - OneOf(s)[1], P[2] - OneOf(s)[2])]) \div 2
      <4> HIDE DEF S, P
      <4> QED BY <3>1
    <3> HIDE DEF g, S, P
    <3> QED BY <3>2
  <2>2. [s \in SUBSET S |-> A(s)] = [s \in SUBSET S |-> B(s)]
    <3> HIDE DEF A, B, S
    <3> QED BY <2>1
  <2> QED BY <2>2 DEF Sums
<1>10. ASSUME NEW c \in R PROVE g[b[c]] = f[c] /\ f[c] \in Int
  <2>1. c \in MayBeCleaned(clean) /\ b[c] \in S /\ U[b[c]] = image[c] /\ image[c] \in Int /\ c \in CleanPixels
    BY <1>6
  <2>2. g[b[c]] = (image[c] * K[Cyclic(P[1] - b[c][1], P[2] - b[c][2])]) \div 2
    <3> HIDE DEF S, P, b
    <3> QED BY <2>1
  <2>3. P[1] - b[c][1] = p[1] - c[1] /\ P[2] - b[c][2] = p[2] - c[2]
    <3>1. b[c] = <<c[1] + StartX, c[2] + StartY>>  BY <1>6
    <3>2. /\ p[1] \in Int /\ p[2] \in Int /\ c[1] \in Int /\ c[2] \in Int /\ StartX \in Int /\ StartY \in Int
      BY <1>2, <1>3, <2>1
    <3> HIDE DEF b
    <3> QED BY <3>1, <3>2
  <2>4. K[Cyclic(p[1] - c[1], p[2] - c[2])] = Seen(w, h, psf, p, c)  BY <2>1, KernelSees DEF K, w, h, psf
  <2>5. f[c] = (Seen(w, h, psf, p, c) * image[c]) \div 2  BY <2>1 DEF Shares, Share
  <2> DEFINE s == Seen(w, h, psf, p, c)
  <2>6. s \in Int  BY <1>1, SeenIsInteger
  <2>7. g[b[c]] = (image[c] * s) \div 2  BY <2>2, <2>3, <2>4
  <2> HIDE DEF s, g, f, b
  <2>8. image[c] * s = s * image[c] /\ (s * image[c]) \div 2 \in Int  BY <2>1, <2>6
  <2> QED BY <2>5, <2>7, <2>8 DEF s
<1>11. \A c \in CleanPixels : c \notin R => f[c] = 0  BY <1>1, ShareTypes DEF Shares
<1>12. \A c, d \in R : b[c] = b[d] => c = d
  <2> SUFFICES ASSUME NEW c \in R, NEW d \in R, b[c] = b[d] PROVE c = d  OBVIOUS
  <2>1. b[c] = <<c[1] + StartX, c[2] + StartY>> /\ b[d] = <<d[1] + StartX, d[2] + StartY>>  BY <1>6
  <2>2. /\ c = <<c[1], c[2]>> /\ d = <<d[1], d[2]>> /\ c[1] \in Int /\ c[2] \in Int /\ d[1] \in Int /\ d[2] \in Int
        /\ StartX \in Int /\ StartY \in Int  BY <1>2, <1>3, <1>6
  <2> HIDE DEF b
  <2> DEFINE x == c[1] + StartX
             y == c[2] + StartY
             z == d[1] + StartX
             v == d[2] + StartY
  <2>5. <<x, y>> = <<z, v>>  BY <2>1
  <2> HIDE DEF x, y, z, v
  <2>6. x = z /\ y = v  BY <2>5
  <2>3. c[1] + StartX = d[1] + StartX /\ c[2] + StartY = d[2] + StartY  BY <2>6 DEF x, y, z, v
  <2>4. c[1] = d[1] /\ c[2] = d[2]  BY <2>2, <2>3
  <2> QED BY <2>2, <2>4
<1>13. IsFiniteSet(R) /\ IsFiniteSet(CleanPixels) /\ AreIntegers(f, CleanPixels) /\ DOMAIN image = CleanPixels
       /\ AreIntegers(f, R) /\ R \in SUBSET CleanPixels
  <2>1. CleanPixels = PixelsOf(w, h)  BY DEF CleanPixels, w, h
  <2>2. AreIntegers(f, CleanPixels)  BY <1>1, <2>1, SharesAreIntegers
  <2> QED BY <2>2, FinitePixels, FS_Subset DEF AreIntegers
<1> HIDE DEF S, R, b, f, g, P
<1>14. IsFiniteSet(S) /\ Total(g, S) = Total(f, R)  BY <1>7, <1>10, <1>12, <1>13, TotalElsewhere
<1>15. IsSum(F)
  <2>1. \E G : Sums(G, S, g)  BY <1>14, SumsExist
  <2>2. \E G : IsSum(G)  BY <1>9, <2>1
  <2> HIDE DEF IsSum
  <2> QED BY <2>2
<1> HIDE DEF F, IsSum
<1>16. F[S] = Total(g, S)  BY <1>9, <1>14, <1>15, TotalIsSum
<1>17. Total(f, CleanPixels) = Total(f, R)  BY <1>11, <1>13, TotalOfNonZero
<1>18. Spread(w, h, psf, p, image) = Total(f, CleanPixels)  BY <1>13 DEF Spread, f
<1> QED BY <1>a, <1>b, <1>8, <1>14, <1>16, <1>17, <1>18 DEF U, K, w, h, psf

----
Explained(i, p, image) == Spread(clean.width, clean.height, clean.psfs[i], p, image)

\* What threads still have to subtract.
YetToSubtract(i, p) ==
  IF IsPending(i, p) THEN ShareAt(clean.psfs[i], p, peakAt, subtraction.factors[i]) ELSE 0

ResidualTypes ==
  /\ clean \in CleanSetups
  /\ integrated \in [CleanPixels -> Int] /\ (peakAt = NoPeak \/ peakAt \in CleanPixels)
  /\ loop # "done" => AreImages(residual)
  /\ model \in [Images -> [CleanPixels -> EvenIntegers]]
  /\ loop = "subtract" =>
       /\ subtraction \in [image : Images, threads : SUBSET (0 .. clean.threads - 1), factors : [Images -> EvenIntegers]]
       /\ peakAt \in CleanPixels
SubMinorTypes ==
  /\ loop \in {"start", "find positions", "sub-minor"} => \A i \in Images : \A p \in CleanPixels : model[i][p] = 0
  /\ loop \in {"find positions", "sub-minor"} => clean.subMinor
  /\ DOMAIN subMinor = {"positions", "residual", "model"}
  /\ subMinor.positions \subseteq CleanPixels \cap MayBeCleaned(clean)
  /\ loop = "sub-minor" => subMinor.positions # {}
  /\ subMinor.positions # {} =>
       /\ subMinor.residual \in [Images -> [subMinor.positions -> Int]]
       /\ subMinor.model \in [Images -> [subMinor.positions -> EvenIntegers]]
IsExplained ==
  \A i \in Images : \A p \in CleanPixels :
    residual[i][p] = (clean.dirty[i][p] - Explained(i, p, model[i])) + YetToSubtract(i, p)
PositionsAreExplained ==
  \A i \in Images : \A p \in subMinor.positions :
    subMinor.residual[i][p] = clean.dirty[i][p] - Explained(i, p, subMinor.model[i])
ResidualInv == ResidualTypes /\ SubMinorTypes /\ IsExplained /\ PositionsAreExplained

LEMMA PsfTypes ==
  ASSUME clean \in CleanSetups, NEW i \in Images
  PROVE  /\ clean.psfs[i] \in [PixelsOf(clean.width, clean.height) -> Int]
         /\ clean.psfs[i] \in [CleanPixels -> Int] /\ clean.dirty[i] \in [CleanPixels -> Int]
BY OneSetup DEF CleanPixels

LEMMA ExplainedByNone ==
  ASSUME clean \in CleanSetups, NEW i \in Images, NEW p, NEW T \in SUBSET CleanPixels, NEW image \in [T -> Int],
         \A c \in T : image[c] = 0
  PROVE  Explained(i, p, image) = 0
<1>1. clean.psfs[i] \in [PixelsOf(clean.width, clean.height) -> Int]  BY PsfTypes
<1>2. IsFiniteSet(T)  BY FinitePixels, FS_Subset
<1>3. Spread(clean.width, clean.height, clean.psfs[i], p, image) = 0  BY <1>1, <1>2, SpreadOfBlank
<1> QED BY <1>3 DEF Explained

LEMMA InitResidual == MinorLoopInit => ResidualInv
<1> SUFFICES ASSUME MinorLoopInit PROVE ResidualInv  OBVIOUS
<1> USE DEF MinorLoopInit
<1>1. clean \in CleanSetups /\ AreImages(residual)  BY OneSetup DEF AreImages
<1>2. integrated \in [CleanPixels -> Int]  BY <1>1, LinearTypes
<1>3. peakAt = NoPeak \/ peakAt \in CleanPixels  BY <1>1, <1>2, WeightedTypes, PeakIsPixel
<1>4. model \in [Images -> [CleanPixels -> EvenIntegers]] /\ \A i \in Images : \A p \in CleanPixels : model[i][p] = 0
  <2>1. 0 \in EvenIntegers  BY DEF EvenIntegers
  <2> QED BY <2>1 DEF Blank
<1>5. ResidualTypes  BY <1>1, <1>2, <1>3, <1>4 DEF ResidualTypes
<1>6. SubMinorTypes  BY <1>4 DEF SubMinorTypes
<1>7. IsExplained
  <2> SUFFICES ASSUME NEW i \in Images, NEW p \in CleanPixels
               PROVE  residual[i][p] = (clean.dirty[i][p] - Explained(i, p, model[i])) + YetToSubtract(i, p)
    BY DEF IsExplained
  <2>1. Explained(i, p, model[i]) = 0
    <3>1. model[i] \in [CleanPixels -> Int]  BY <1>4 DEF EvenIntegers
    <3>2. \A c \in CleanPixels : model[i][c] = 0  BY <1>4
    <3> QED BY <1>1, <3>1, <3>2, ExplainedByNone
  <2>2. YetToSubtract(i, p) = 0  BY DEF YetToSubtract, IsPending
  <2>3. residual[i][p] = clean.dirty[i][p] /\ clean.dirty[i][p] \in Int  BY <1>1, PsfTypes
  <2> QED BY <2>1, <2>2, <2>3
<1>8. PositionsAreExplained  BY DEF PositionsAreExplained
<1> QED BY <1>5, <1>6, <1>7, <1>8 DEF ResidualInv

\* The images have the values that are subtracted from.
LEMMA ValueTypes ==
  ASSUME ResidualInv, NEW i \in Images, NEW p \in CleanPixels
  PROVE  /\ clean.dirty[i][p] \in Int /\ Explained(i, p, model[i]) \in Int /\ model[i] \in [CleanPixels -> Int]
         /\ loop # "done" => residual[i] \in [CleanPixels -> Int] /\ residual[i][p] \in Int
<1>1. clean \in CleanSetups /\ model[i] \in [CleanPixels -> EvenIntegers] /\ (loop # "done" => AreImages(residual))
  BY DEF ResidualInv, ResidualTypes
<1>2. model[i] \in [CleanPixels -> Int]  BY <1>1 DEF EvenIntegers
<1>3. Explained(i, p, model[i]) \in Int  BY <1>1, <1>2, FinitePixels, PsfTypes, SpreadIsInteger DEF Explained
<1>4. clean.dirty[i][p] \in Int  BY <1>1, PsfTypes
<1>5. loop # "done" => residual[i] \in [CleanPixels -> Int]  BY <1>1, ImageTypes
<1> QED BY <1>2, <1>3, <1>4, <1>5

\* What depends on the settings stays when they do.
LEMMA SettingsStay ==
  ASSUME clean' = clean
  PROVE  /\ CleanPixels' = CleanPixels /\ Images' = Images /\ AreImages(residual)' = AreImages(residual')
         /\ MayBeCleaned(clean)' = MayBeCleaned(clean)
         /\ \A i, p, image : Explained(i, p, image)' = Explained(i, p, image)
BY DEF CleanPixels, PixelsOf, Images, AreImages, MayBeCleaned, Explained

\* Steps outside the subtraction that leave the images and the positions alone.
LEMMA OtherStep ==
  ASSUME ResidualInv, clean' = clean, residual' = residual, model' = model, subMinor' = subMinor,
         integrated' \in [CleanPixels -> Int], peakAt' = NoPeak \/ peakAt' \in CleanPixels,
         \A i \in Images : \A p \in CleanPixels : ~IsPending(i, p),
         loop' \in {"find positions", "iterate", "aborted", "done"},
         loop \in {"done", "aborted"} => loop' = loop,
         loop' = "find positions" => loop = "start" /\ clean.subMinor
  PROVE  ResidualInv'
<1>1. CleanPixels' = CleanPixels /\ Images' = Images /\ AreImages(residual)' = AreImages(residual)
      /\ MayBeCleaned(clean)' = MayBeCleaned(clean)
      /\ \A i, p, image : Explained(i, p, image)' = Explained(i, p, image)  BY SettingsStay
<1>2. ResidualTypes'
  <2>1. loop' # "done" => AreImages(residual)  BY DEF ResidualInv, ResidualTypes
  <2> QED BY <1>1, <2>1 DEF ResidualInv, ResidualTypes
<1>3. SubMinorTypes'  BY <1>1 DEF ResidualInv, SubMinorTypes
<1>4. IsExplained'
  <2> SUFFICES ASSUME NEW i \in Images, NEW p \in CleanPixels
               PROVE  residual'[i][p] = (clean'.dirty[i][p] - Explained(i, p, model[i])') + YetToSubtract(i, p)'
    BY <1>1 DEF IsExplained
  <2>1. YetToSubtract(i, p) = 0 /\ YetToSubtract(i, p)' = 0  BY DEF YetToSubtract, IsPending
  <2>2. Explained(i, p, model[i])' = Explained(i, p, model[i])  BY DEF Explained
  <2>3. residual[i][p] = (clean.dirty[i][p] - Explained(i, p, model[i])) + YetToSubtract(i, p)
    BY DEF ResidualInv, IsExplained
  <2> QED BY <2>1, <2>2, <2>3
<1>5. PositionsAreExplained'  BY <1>1 DEF ResidualInv, PositionsAreExplained, Explained
<1> QED BY <1>2, <1>3, <1>4, <1>5 DEF ResidualInv

\* A component is added to the models; its psf has yet to be subtracted everywhere.
LEMMA ComponentStep == ASSUME ResidualInv, AddComponent PROVE ResidualInv'
<1>1. /\ loop = "iterate" /\ loop' = "subtract" /\ peakAt # NoPeak
      /\ model' = [i \in Images |-> [model[i] EXCEPT ![peakAt] = @ + Gain(residual[i][peakAt])]]
      /\ subtraction' = [image |-> 1, threads |-> 0 .. clean.threads - 1,
                         factors |-> [i \in Images |-> Gain(residual[i][peakAt])]]
      /\ UNCHANGED <<clean, residual, integrated, peakAt, subMinor>>  BY DEF AddComponent
<1>2. /\ clean \in CleanSetups /\ peakAt \in CleanPixels /\ AreImages(residual)
      /\ model \in [Images -> [CleanPixels -> EvenIntegers]]  BY <1>1 DEF ResidualInv, ResidualTypes
<1>3. CleanPixels' = CleanPixels /\ Images' = Images /\ AreImages(residual)' = AreImages(residual)
      /\ MayBeCleaned(clean)' = MayBeCleaned(clean)
      /\ \A i, p, image : Explained(i, p, image)' = Explained(i, p, image)  BY <1>1, SettingsStay
<1>4. \A i \in Images : Gain(residual[i][peakAt]) \in EvenIntegers  BY <1>1, <1>2, ValueTypes, GainIsEven
<1>5. ASSUME NEW i \in Images
      PROVE  /\ model'[i] \in [CleanPixels -> EvenIntegers]
             /\ \A p \in CleanPixels : model'[i][p] = IF p = peakAt THEN model[i][p] + Gain(residual[i][peakAt]) ELSE model[i][p]
  <2>1. model'[i] = [model[i] EXCEPT ![peakAt] = @ + Gain(residual[i][peakAt])] /\ model[i] \in [CleanPixels -> EvenIntegers]
    BY <1>1, <1>2
  <2>2. model[i][peakAt] + Gain(residual[i][peakAt]) \in EvenIntegers  BY <1>2, <1>4, <2>1, EvenSum
  <2> QED BY <1>2, <2>1, <2>2
<1>6. ResidualTypes'
  <2>1. subtraction' \in [image : Images, threads : SUBSET (0 .. clean.threads - 1), factors : [Images -> EvenIntegers]]
    <3>1. 1 \in Images  BY <1>2, LinkedImages
    <3>2. [i \in Images |-> Gain(residual[i][peakAt])] \in [Images -> EvenIntegers]  BY <1>4
    <3> QED BY <1>1, <3>1, <3>2
  <2>2. model' \in [Images -> [CleanPixels -> EvenIntegers]]
    <3>1. DOMAIN model' = Images /\ model' = [i \in Images |-> model'[i]]  BY <1>1
    <3> QED BY <1>5, <3>1
  <2> QED BY <1>1, <1>2, <1>3, <2>1, <2>2 DEF ResidualInv, ResidualTypes
<1>7. SubMinorTypes'  BY <1>1, <1>3 DEF ResidualInv, SubMinorTypes
<1>8. IsExplained'
  <2> SUFFICES ASSUME NEW i \in Images, NEW p \in CleanPixels
               PROVE  residual'[i][p] = (clean'.dirty[i][p] - Explained(i, p, model[i])') + YetToSubtract(i, p)'
    BY <1>3 DEF IsExplained
  <2> DEFINE factor == Gain(residual[i][peakAt])
             push == ShareAt(clean.psfs[i], p, peakAt, factor)
  <2>1. Explained(i, p, model[i])' = Explained(i, p, model'[i])  BY <1>1 DEF Explained
  <2>2. Explained(i, p, model'[i]) = Explained(i, p, model[i]) + push
    <3>1. model[i] \in [CleanPixels -> EvenIntegers] /\ factor \in EvenIntegers
          /\ clean.psfs[i] \in [PixelsOf(clean.width, clean.height) -> Int] /\ IsFiniteSet(CleanPixels)
      BY <1>2, <1>4, PsfTypes, FinitePixels
    <3> HIDE DEF factor
    <3>2. /\ model'[i] \in [CleanPixels -> EvenIntegers]
          /\ \A c \in CleanPixels : model'[i][c] = IF c = peakAt THEN model[i][c] + factor ELSE model[i][c]
      BY <1>5 DEF factor
    <3> DEFINE image == model[i]
               other == model'[i]
    <3> HIDE DEF image, other
    <3>3. Spread(clean.width, clean.height, clean.psfs[i], p, other) =
            Spread(clean.width, clean.height, clean.psfs[i], p, image)
              + Share(clean.width, clean.height, clean.psfs[i], p, peakAt, factor)
      BY <1>2, <3>1, <3>2, SpreadChanges DEF image, other
    <3> QED BY <3>3 DEF Explained, ShareAt, image, other
  <2>3. IsPending(i, p)'
    <3>1. PICK t \in 0 .. clean.threads - 1 : IsRowOf(p[2], t)
      <4>1. p[2] \in 0 .. clean.height - 1  BY DEF CleanPixels, PixelsOf
      <4> QED BY <1>2, <4>1, RowHasThread
    <3>2. p[2] \in SliceStart(t)' .. SliceEnd(t)' - 1  BY <1>1, <3>1 DEF IsRowOf, SliceStart, SliceEnd
    <3>3. t \in subtraction'.threads /\ subtraction'.image = 1  BY <1>1, <3>1
    <3>4. i \in Nat /\ i >= 1  BY <1>2, OneSetup
    <3>5. i > 1 \/ i = 1  BY <3>4
    <3> QED BY <1>1, <3>2, <3>3, <3>5 DEF IsPending
  <2>4. YetToSubtract(i, p)' = push
    <3>1. subtraction'.factors[i] = factor  BY <1>1
    <3> HIDE DEF factor
    <3> QED BY <1>1, <2>3, <3>1 DEF YetToSubtract, ShareAt
  <2>5. YetToSubtract(i, p) = 0  BY <1>1 DEF YetToSubtract, IsPending
  <2>6. residual[i][p] = (clean.dirty[i][p] - Explained(i, p, model[i])) + YetToSubtract(i, p)
    BY DEF ResidualInv, IsExplained
  <2>7. push \in Int /\ clean.dirty[i][p] \in Int /\ Explained(i, p, model[i]) \in Int
    <3>1. factor \in Int  BY <1>4 DEF EvenIntegers
    <3> HIDE DEF factor
    <3> QED BY <1>2, <3>1, PsfTypes, ValueTypes, ShareTypes DEF ShareAt
  <2> HIDE DEF push
  <2> QED BY <1>1, <2>1, <2>2, <2>4, <2>5, <2>6, <2>7
<1>9. PositionsAreExplained'  BY <1>1, <1>3 DEF ResidualInv, PositionsAreExplained, Explained
<1> QED BY <1>6, <1>7, <1>8, <1>9 DEF ResidualInv

\* A thread subtracts from its rows, that have then nothing pending.
LEMMA RowsStep ==
  ASSUME EvenSizes, ResidualInv, NEW thread \in subtraction.threads, SubtractRows(thread)
  PROVE  ResidualInv'
<1> DEFINE k == subtraction.image
           psf == clean.psfs[k]
           factor == subtraction.factors[k]
           subtracted == PartialSubtractImage(residual[k], psf, peakAt, factor, SliceStart(thread), SliceEnd(thread))
<1>1. /\ loop = "subtract" /\ residual' = [residual EXCEPT ![k] = subtracted]
      /\ subtraction' = [subtraction EXCEPT !.threads = @ \ {thread}]
      /\ UNCHANGED <<clean, loop, model, integrated, peakAt, subMinor>>  BY DEF SubtractRows
<1>2. /\ clean \in CleanSetups /\ peakAt \in CleanPixels /\ AreImages(residual)
      /\ subtraction \in [image : Images, threads : SUBSET (0 .. clean.threads - 1), factors : [Images -> EvenIntegers]]
  BY <1>1 DEF ResidualInv, ResidualTypes
<1>3. CleanPixels' = CleanPixels /\ Images' = Images /\ AreImages(residual)' = AreImages(residual')
      /\ MayBeCleaned(clean)' = MayBeCleaned(clean)
      /\ \A i, p, image : Explained(i, p, image)' = Explained(i, p, image)  BY <1>1, SettingsStay
<1>4. /\ k \in Images /\ factor \in Int /\ thread \in 0 .. clean.threads - 1 /\ thread \in Nat
      /\ \A t \in subtraction.threads : t \in Nat  BY <1>2, OneSetup DEF EvenIntegers
<1>5. residual[k] \in [CleanPixels -> Int] /\ psf \in [CleanPixels -> Int]  BY <1>2, <1>4, ImageTypes, PsfTypes
<1>6. SliceStart(thread) \in Int /\ SliceEnd(thread) \in Int  BY <1>2, <1>4, SliceTypes
<1>7. subtracted \in [CleanPixels -> Int]  BY <1>2, <1>4, <1>5, <1>6, SubtractionTypes
<1>8. \A p \in CleanPixels :
        subtracted[p] = IF IsRowOf(p[2], thread) THEN residual[k][p] - ShareAt(psf, p, peakAt, factor) ELSE residual[k][p]
  <2> TAKE p \in CleanPixels
  <2>1. subtracted[p] = IF p[2] \in SliceStart(thread) .. SliceEnd(thread) - 1
                          THEN residual[k][p] - ShareAt(psf, p, peakAt, factor) ELSE residual[k][p]
    BY <1>2, <1>4, <1>5, <1>6, RowsAreSubtracted
  <2> QED BY <2>1 DEF IsRowOf
<1> HIDE DEF subtracted
<1>9. AreImages(residual')
  <2> DEFINE S == [CleanPixels -> Int]
  <2>1. residual \in Seq(S) /\ subtracted \in S /\ k \in 1 .. Len(residual)
    BY <1>2, <1>4, <1>7, OneSetup DEF AreImages
  <2> HIDE DEF S, k
  <2>2. [residual EXCEPT ![k] = subtracted] \in Seq(S) /\ Len([residual EXCEPT ![k] = subtracted]) = Len(residual)
    BY <2>1, ExceptSeq
  <2> QED BY <1>1, <1>2, <2>2 DEF AreImages, S
<1>10. /\ subtraction'.image = k /\ subtraction'.factors = subtraction.factors
       /\ subtraction'.threads = subtraction.threads \ {thread}
       /\ subtraction' \in [image : Images, threads : SUBSET (0 .. clean.threads - 1), factors : [Images -> EvenIntegers]]
  BY <1>1, <1>2
<1>11. ResidualTypes'  BY <1>1, <1>2, <1>3, <1>9, <1>10 DEF ResidualInv, ResidualTypes
<1>12. SubMinorTypes'  BY <1>1, <1>3 DEF ResidualInv, SubMinorTypes
<1>13. IsExplained'
  <2> SUFFICES ASSUME NEW i \in Images, NEW p \in CleanPixels
               PROVE  residual'[i][p] = (clean'.dirty[i][p] - Explained(i, p, model[i])') + YetToSubtract(i, p)'
    BY <1>3 DEF IsExplained
  <2>1. Explained(i, p, model[i])' = Explained(i, p, model[i])  BY <1>1 DEF Explained
  <2>2. residual[i][p] = (clean.dirty[i][p] - Explained(i, p, model[i])) + YetToSubtract(i, p)
    BY DEF ResidualInv, IsExplained
  <2>3. clean.dirty[i][p] \in Int /\ Explained(i, p, model[i]) \in Int  BY ValueTypes
  <2>a. i \in DOMAIN residual  BY <1>2, OneSetup DEF AreImages
  <2>b. p[2] \in Int
    <3> HIDE DEF k, psf, factor
    <3>1. p \in CleanPixels /\ CleanPixels \subseteq Int \X Int  BY <1>2, FinitePixels
    <3> QED BY <3>1
  <2>c. \A t : (p[2] \in SliceStart(t)' .. SliceEnd(t)' - 1) = IsRowOf(p[2], t)
    BY <1>1 DEF IsRowOf, SliceStart, SliceEnd
  <2>d. IsPending(i, p) <=> (i > k \/ (i = k /\ \E t \in subtraction.threads : IsRowOf(p[2], t)))
    BY <1>1 DEF IsPending, IsRowOf
  <2>e. IsPending(i, p)' <=> (i > k \/ (i = k /\ \E t \in subtraction.threads \ {thread} : IsRowOf(p[2], t)))
    BY <1>1, <1>10, <2>c DEF IsPending
  <2>f. k \in Int /\ ~(k > k)  BY <1>2, <1>4, OneSetup
  <2>g. YetToSubtract(i, p)' = IF IsPending(i, p)' THEN ShareAt(clean.psfs[i], p, peakAt, subtraction.factors[i]) ELSE 0
    BY <1>1, <1>10 DEF YetToSubtract, ShareAt
  <2>4. CASE i = k /\ IsRowOf(p[2], thread)
    <3>1. IsPending(i, p)  BY <2>4, <2>d
    <3>2. ~IsPending(i, p)'
      <4>1. \A t \in subtraction.threads \ {thread} : ~IsRowOf(p[2], t)  BY <1>2, <1>4, <2>4, <2>b, RowHasOneThread
      <4> QED BY <2>4, <2>e, <2>f, <4>1
    <3> DEFINE push == ShareAt(psf, p, peakAt, factor)
    <3>3. push \in Int  BY <1>2, <1>4, PsfTypes, ShareTypes DEF ShareAt
    <3>4. YetToSubtract(i, p) = push /\ YetToSubtract(i, p)' = 0  BY <2>4, <2>g, <3>1, <3>2 DEF YetToSubtract
    <3>5. residual'[i][p] = residual[i][p] - push  BY <1>1, <1>8, <2>4, <2>a
    <3> HIDE DEF push
    <3> QED BY <1>1, <2>1, <2>2, <2>3, <3>3, <3>4, <3>5
  <2>5. CASE ~(i = k /\ IsRowOf(p[2], thread))
    <3>1. IsPending(i, p)' <=> IsPending(i, p)  BY <2>5, <2>d, <2>e
    <3>2. YetToSubtract(i, p)' = YetToSubtract(i, p)  BY <2>g, <3>1 DEF YetToSubtract
    <3>3. residual'[i][p] = residual[i][p]  BY <1>1, <1>8, <2>5, <2>a
    <3> QED BY <1>1, <2>1, <2>2, <3>2, <3>3
  <2> QED BY <2>4, <2>5
<1>14. PositionsAreExplained'  BY <1>1, <1>3 DEF ResidualInv, PositionsAreExplained, Explained
<1> QED BY <1>11, <1>12, <1>13, <1>14 DEF ResidualInv

\* When all threads are done, the next image is pending in all its rows.
LEMMA NextImageStep == ASSUME ResidualInv, NextImage PROVE ResidualInv'
<1> DEFINE k == subtraction.image
           threads == 0 .. clean.threads - 1
<1>1. /\ loop = "subtract" /\ subtraction.threads = {} /\ k < Len(residual)
      /\ subtraction' = [subtraction EXCEPT !.image = @ + 1, !.threads = threads]
      /\ UNCHANGED <<clean, loop, residual, model, integrated, peakAt, subMinor>>  BY DEF NextImage
<1>2. /\ clean \in CleanSetups /\ peakAt \in CleanPixels /\ AreImages(residual)
      /\ subtraction \in [image : Images, threads : SUBSET threads, factors : [Images -> EvenIntegers]]
  BY <1>1 DEF ResidualInv, ResidualTypes
<1>3. CleanPixels' = CleanPixels /\ Images' = Images /\ AreImages(residual)' = AreImages(residual')
      /\ MayBeCleaned(clean)' = MayBeCleaned(clean)
      /\ \A i, p, image : Explained(i, p, image)' = Explained(i, p, image)  BY <1>1, SettingsStay
<1>4. k \in Images /\ k + 1 \in Images /\ Images \subseteq Int
  <2>1. Images = 1 .. Len(clean.dirty) /\ Len(residual) = Len(clean.dirty) /\ Len(clean.dirty) \in Nat
    BY <1>2, OneSetup DEF AreImages
  <2>2. k \in Images  BY <1>2
  <2> QED BY <1>1, <2>1, <2>2
<1>5. /\ subtraction'.image = k + 1 /\ subtraction'.threads = threads /\ subtraction'.factors = subtraction.factors
      /\ subtraction' \in [image : Images, threads : SUBSET threads, factors : [Images -> EvenIntegers]]
  <2> HIDE DEF threads
  <2>1. subtraction' = [image |-> k + 1, threads |-> threads, factors |-> subtraction.factors]
        /\ subtraction.factors \in [Images -> EvenIntegers]  BY <1>1, <1>2
  <2> HIDE DEF k
  <2> QED BY <1>4, <2>1
<1>6. ResidualTypes'  BY <1>1, <1>2, <1>3, <1>5 DEF ResidualInv, ResidualTypes
<1>7. SubMinorTypes'  BY <1>1, <1>3 DEF ResidualInv, SubMinorTypes
<1>8. ASSUME NEW i \in Images, NEW p \in CleanPixels PROVE YetToSubtract(i, p)' = YetToSubtract(i, p)
  <2>1. PICK t \in threads : IsRowOf(p[2], t)
    <3>1. p[2] \in 0 .. clean.height - 1  BY DEF CleanPixels, PixelsOf
    <3> QED BY <1>2, <3>1, RowHasThread
  <2>2. p[2] \in SliceStart(t)' .. SliceEnd(t)' - 1  BY <1>1, <2>1 DEF IsRowOf, SliceStart, SliceEnd
  <2>3. IsPending(i, p) <=> i > k  BY <1>1 DEF IsPending
  <2>4. IsPending(i, p)' <=> i > k + 1 \/ i = k + 1  BY <1>1, <1>5, <2>1, <2>2 DEF IsPending
  <2>5. i \in Int /\ k \in Int  BY <1>4
  <2> HIDE DEF k
  <2>6. i > k <=> i > k + 1 \/ i = k + 1  BY <2>5
  <2>7. IsPending(i, p)' <=> IsPending(i, p)  BY <2>3, <2>4, <2>6
  <2> QED BY <1>1, <1>5, <2>7 DEF YetToSubtract, ShareAt
<1>9. IsExplained'
  <2> SUFFICES ASSUME NEW i \in Images, NEW p \in CleanPixels
               PROVE  residual'[i][p] = (clean'.dirty[i][p] - Explained(i, p, model[i])') + YetToSubtract(i, p)'
    BY <1>3 DEF IsExplained
  <2>1. Explained(i, p, model[i])' = Explained(i, p, model[i])  BY <1>1 DEF Explained
  <2>2. residual[i][p] = (clean.dirty[i][p] - Explained(i, p, model[i])) + YetToSubtract(i, p)
    BY DEF ResidualInv, IsExplained
  <2> QED BY <1>1, <1>8, <2>1, <2>2
<1>10. PositionsAreExplained'  BY <1>1, <1>3 DEF ResidualInv, PositionsAreExplained, Explained
<1> QED BY <1>6, <1>7, <1>9, <1>10 DEF ResidualInv

\* The other steps leave the images alone.
LEMMA NextPeakStep == ASSUME ResidualInv, NextPeak PROVE ResidualInv'
<1>1. /\ loop = "subtract" /\ subtraction.threads = {} /\ subtraction.image = Len(residual) /\ loop' = "iterate"
      /\ integrated' = SquareIntegrated(residual) /\ peakAt' = FindPeak(Weighted(SquareIntegrated(residual)))
      /\ UNCHANGED <<clean, residual, model, subMinor>>  BY DEF NextPeak
<1>2. clean \in CleanSetups /\ AreImages(residual) /\ integrated \in [CleanPixels -> Int]
  BY <1>1 DEF ResidualInv, ResidualTypes
<1>3. SquareIntegrated(residual) \in [CleanPixels -> Int]  BY <1>2, BufferTypes
<1>4. integrated' \in [CleanPixels -> Int] /\ (peakAt' = NoPeak \/ peakAt' \in CleanPixels)
  BY <1>1, <1>2, <1>3, WeightedTypes, PeakIsPixel
<1>5. ASSUME NEW i \in Images, NEW p \in CleanPixels PROVE ~IsPending(i, p)
  <2>1. i \in 1 .. Len(residual)  BY <1>2, OneSetup DEF AreImages
  <2>2. ~(i > subtraction.image)
    <3>1. Len(residual) \in Int  BY <1>2, OneSetup DEF AreImages
    <3> QED BY <1>1, <2>1, <3>1
  <2> QED BY <1>1, <2>2 DEF IsPending
<1> QED BY <1>1, <1>4, <1>5, OtherStep

LEMMA StartStep == ASSUME ResidualInv, Start PROVE ResidualInv'
<1>1. /\ loop = "start" /\ loop' \in {"aborted", "find positions", "iterate"}
      /\ loop' = "find positions" => clean.subMinor
      /\ UNCHANGED <<clean, residual, model, integrated, peakAt, subMinor>>  BY DEF Start
<1>2. integrated' \in [CleanPixels -> Int] /\ (peakAt' = NoPeak \/ peakAt' \in CleanPixels)
  BY <1>1 DEF ResidualInv, ResidualTypes
<1>3. \A i \in Images : \A p \in CleanPixels : ~IsPending(i, p)  BY <1>1 DEF IsPending
<1> QED BY <1>1, <1>2, <1>3, OtherStep

LEMMA FinishStep == ASSUME ResidualInv, Finish PROVE ResidualInv'
<1>1. /\ loop = "iterate" /\ loop' \in {"aborted", "done"}
      /\ UNCHANGED <<clean, residual, model, integrated, peakAt, subMinor>>  BY DEF Finish, Stop
<1>2. integrated' \in [CleanPixels -> Int] /\ (peakAt' = NoPeak \/ peakAt' \in CleanPixels)
  BY <1>1 DEF ResidualInv, ResidualTypes
<1>3. \A i \in Images : \A p \in CleanPixels : ~IsPending(i, p)  BY <1>1 DEF IsPending
<1> QED BY <1>1, <1>2, <1>3, OtherStep

\* The loop starts with the values of its positions, and blank models.
LEMMA PositionsStep == ASSUME ResidualInv, FindPeakPositions PROVE ResidualInv'
<1> DEFINE found == {p \in InsideBorder \cap clean.mask : HeightOf(Weighted(integrated)[p]) >= FirstThreshold}
<1>1. /\ loop = "find positions" /\ loop' = (IF found = {} THEN "aborted" ELSE "sub-minor")
      /\ subMinor' = [positions |-> found,
                      residual |-> [i \in Images |-> [p \in found |-> residual[i][p]]],
                      model |-> [i \in Images |-> [p \in found |-> 0]]]
      /\ UNCHANGED <<clean, residual, model, integrated, peakAt, subtraction>>  BY DEF FindPeakPositions
<1>2. /\ clean \in CleanSetups /\ AreImages(residual) /\ clean.subMinor
      /\ \A i \in Images : \A p \in CleanPixels : model[i][p] = 0
  BY <1>1 DEF ResidualInv, ResidualTypes, SubMinorTypes
<1>3. CleanPixels' = CleanPixels /\ Images' = Images /\ AreImages(residual)' = AreImages(residual)
      /\ MayBeCleaned(clean)' = MayBeCleaned(clean)
      /\ \A i, p, image : Explained(i, p, image)' = Explained(i, p, image)  BY <1>1, SettingsStay
<1>4. found \subseteq CleanPixels \cap MayBeCleaned(clean)
  <2>1. /\ clean.mask \subseteq CleanPixels /\ CleanPixels \subseteq Int \X Int
        /\ clean.border \in Nat /\ clean.width \in Nat /\ clean.height \in Nat  BY <1>2, OneSetup, FinitePixels
  <2> SUFFICES ASSUME NEW p \in InsideBorder \cap clean.mask PROVE p \in MayBeCleaned(clean)  BY <2>1
  <2> DEFINE w == clean.width - clean.border
             h == clean.height - clean.border
  <2>2. /\ p[1] \in clean.border .. GreatestOf(clean.border, w) - 1
        /\ p[2] \in clean.border .. GreatestOf(clean.border, h) - 1  BY DEF InsideBorder
  <2>3. w \in Int /\ h \in Int  BY <2>1
  <2> HIDE DEF w, h
  <2>4. clean.border <= p[1] /\ p[1] < w /\ clean.border <= p[2] /\ p[2] < h  BY <2>1, <2>2, <2>3 DEF GreatestOf
  <2> QED BY <2>4 DEF MayBeCleaned, w, h
<1> HIDE DEF found
<1>5. ResidualTypes'  BY <1>1, <1>2, <1>3 DEF ResidualInv, ResidualTypes
<1>6. SubMinorTypes'
  <2>1. subMinor'.positions = found /\ DOMAIN subMinor' = {"positions", "residual", "model"}  BY <1>1
  <2>2. subMinor'.residual \in [Images -> [found -> Int]]
    <3>1. \A i \in Images : \A p \in found : residual[i][p] \in Int  BY <1>2, <1>4, ImageTypes
    <3> QED BY <1>1, <3>1
  <2>3. subMinor'.model \in [Images -> [found -> EvenIntegers]]
    <3>1. 0 \in EvenIntegers  BY DEF EvenIntegers
    <3> QED BY <1>1, <3>1
  <2>4. loop' \in {"aborted", "sub-minor"} /\ (loop' = "sub-minor" => found # {})  BY <1>1
  <2> QED BY <1>1, <1>2, <1>3, <1>4, <2>1, <2>2, <2>3, <2>4 DEF SubMinorTypes
<1>a. ASSUME NEW i \in Images, NEW p \in CleanPixels
      PROVE  residual[i][p] = (clean.dirty[i][p] - Explained(i, p, model[i])) + 0 /\ YetToSubtract(i, p)' = 0
  <2>1. YetToSubtract(i, p) = 0 /\ YetToSubtract(i, p)' = 0  BY <1>1 DEF YetToSubtract, IsPending
  <2> QED BY <2>1 DEF ResidualInv, IsExplained
<1>7. IsExplained'
  <2> SUFFICES ASSUME NEW i \in Images, NEW p \in CleanPixels
               PROVE  residual'[i][p] = (clean'.dirty[i][p] - Explained(i, p, model[i])') + YetToSubtract(i, p)'
    BY <1>3 DEF IsExplained
  <2>1. Explained(i, p, model[i])' = Explained(i, p, model[i])  BY <1>1 DEF Explained
  <2> QED BY <1>1, <1>a, <2>1
<1>8. PositionsAreExplained'
  <2> SUFFICES ASSUME NEW i \in Images, NEW p \in found
               PROVE  subMinor'.residual[i][p] = clean.dirty[i][p] - Explained(i, p, subMinor'.model[i])
    BY <1>1, <1>3 DEF PositionsAreExplained, Explained
  <2> DEFINE image == subMinor'.model[i]
  <2>1. image \in [found -> Int] /\ \A c \in found : image[c] = 0
    <3>1. subMinor'.model = [j \in Images |-> [c \in found |-> 0]]  BY <1>1
    <3> QED BY <3>1
  <2> HIDE DEF image
  <2>2. Explained(i, p, image) = 0  BY <1>2, <1>4, <2>1, ExplainedByNone
  <2>3. Explained(i, p, model[i]) = 0
    <3>1. model[i] \in [CleanPixels -> Int] /\ \A c \in CleanPixels : model[i][c] = 0  BY <1>2, <1>4, ValueTypes
    <3> QED BY <1>2, <3>1, ExplainedByNone
  <2>4. subMinor'.residual[i][p] = residual[i][p]  BY <1>1
  <2>5. residual[i][p] = (clean.dirty[i][p] - 0) + 0 /\ clean.dirty[i][p] \in Int  BY <1>4, <1>a, <2>3, ValueTypes
  <2> QED BY <2>2, <2>4, <2>5 DEF image
<1> QED BY <1>5, <1>6, <1>7, <1>8 DEF ResidualInv

\* Every component is subtracted from all positions.
LEMMA SubMinorComponentStep == ASSUME ResidualInv, SubMinorComponent PROVE ResidualInv'
<1> DEFINE at == GetMaxComponent
           P == subMinor.positions
           factors == [i \in Images |-> Gain(subMinor.residual[i][at])]
           models == [i \in Images |-> [subMinor.model[i] EXCEPT ![at] = @ + factors[i]]]
           residuals == [i \in Images |-> [p \in P |->
                           subMinor.residual[i][p] - (PsfAt(clean.psfs[i], p, at) * factors[i]) \div 2]]
<1>1. /\ loop = "sub-minor" /\ UNCHANGED <<clean, loop, residual, model, integrated, peakAt, subtraction>>
      /\ subMinor' = [positions |-> P, model |-> models, residual |-> residuals]  BY DEF SubMinorComponent
<1>2. /\ clean \in CleanSetups /\ P # {}
      /\ P \in SUBSET CleanPixels
      /\ subMinor.residual \in [Images -> [P -> Int]] /\ subMinor.model \in [Images -> [P -> EvenIntegers]]
  BY <1>1 DEF ResidualInv, ResidualTypes, SubMinorTypes
<1>3. CleanPixels' = CleanPixels /\ Images' = Images /\ AreImages(residual)' = AreImages(residual)
      /\ MayBeCleaned(clean)' = MayBeCleaned(clean)
      /\ \A i, p, image : Explained(i, p, image)' = Explained(i, p, image)  BY <1>1, SettingsStay
<1>4. at \in P  BY <1>2, MaxComponentIsPosition
<1>5. subMinor'.positions = P /\ subMinor'.model = models /\ subMinor'.residual = residuals
      /\ DOMAIN subMinor' = {"positions", "residual", "model"}
  <2> HIDE DEF models, residuals
  <2> QED BY <1>1, <1>2
<1> HIDE DEF at, P
<1>6. ASSUME NEW i \in Images
      PROVE  /\ factors[i] \in EvenIntegers
             /\ models[i] \in [P -> EvenIntegers]
             /\ \A p \in P : models[i][p] = IF p = at THEN subMinor.model[i][p] + factors[i] ELSE subMinor.model[i][p]
             /\ \A p \in P : residuals[i][p] = subMinor.residual[i][p] - ShareAt(clean.psfs[i], p, at, factors[i])
             /\ residuals[i] \in [P -> Int]
             /\ \A p : ShareAt(clean.psfs[i], p, at, factors[i]) \in Int
  <2>1. subMinor.residual[i][at] \in Int /\ subMinor.model[i] \in [P -> EvenIntegers] /\ subMinor.residual[i] \in [P -> Int]
    BY <1>2, <1>4
  <2>2. factors[i] \in EvenIntegers  BY <2>1, GainIsEven
  <2> DEFINE factor == factors[i]
  <2>3. models[i] = [subMinor.model[i] EXCEPT ![at] = @ + factor]
        /\ residuals[i] = [p \in P |-> subMinor.residual[i][p] - (PsfAt(clean.psfs[i], p, at) * factor) \div 2]
    OBVIOUS
  <2> HIDE DEF factors, factor, models, residuals
  <2>4. factor \in EvenIntegers /\ factor \in Int  BY <2>2 DEF factor, EvenIntegers
  <2>5. subMinor.model[i][at] + factor \in EvenIntegers  BY <1>4, <2>1, <2>4, EvenSum
  <2>6. models[i] \in [P -> EvenIntegers]
        /\ \A p \in P : models[i][p] = IF p = at THEN subMinor.model[i][p] + factor ELSE subMinor.model[i][p]
    BY <1>4, <2>1, <2>3, <2>5
  <2>7. \A p : PsfAt(clean.psfs[i], p, at) = Seen(clean.width, clean.height, clean.psfs[i], p, at)
    BY DEF PsfAt, Seen, Offset, CleanPixels
  <2>8. \A p : ShareAt(clean.psfs[i], p, at, factor) \in Int  BY <1>2, <2>4, PsfTypes, ShareTypes DEF ShareAt
  <2>9. \A p \in P : residuals[i][p] = subMinor.residual[i][p] - ShareAt(clean.psfs[i], p, at, factor)
    BY <2>3, <2>7 DEF ShareAt, Share
  <2>10. residuals[i] \in [P -> Int]
    <3>1. \A p \in P : residuals[i][p] \in Int  BY <2>1, <2>8, <2>9
    <3>2. residuals[i] = [p \in P |-> residuals[i][p]]  BY <2>3
    <3> QED BY <3>1, <3>2
  <2> QED BY <2>2, <2>6, <2>8, <2>9, <2>10 DEF factor
<1>7. models = [i \in Images |-> models[i]] /\ residuals = [i \in Images |-> residuals[i]]  OBVIOUS
<1> HIDE DEF factors, models, residuals
<1>8. ResidualTypes'  BY <1>1, <1>3 DEF ResidualInv, ResidualTypes
<1>9. SubMinorTypes'
  <2>1. models \in [Images -> [P -> EvenIntegers]] /\ residuals \in [Images -> [P -> Int]]  BY <1>6, <1>7
  <2>2. P \subseteq CleanPixels \cap MayBeCleaned(clean) /\ clean.subMinor
        /\ \A i \in Images : \A p \in CleanPixels : model[i][p] = 0  BY <1>1 DEF ResidualInv, SubMinorTypes, P
  <2> QED BY <1>1, <1>2, <1>3, <1>5, <2>1, <2>2 DEF SubMinorTypes
<1>10. IsExplained'
  <2> SUFFICES ASSUME NEW i \in Images, NEW p \in CleanPixels
               PROVE  residual'[i][p] = (clean'.dirty[i][p] - Explained(i, p, model[i])') + YetToSubtract(i, p)'
    BY <1>3 DEF IsExplained
  <2>1. Explained(i, p, model[i])' = Explained(i, p, model[i])  BY <1>1 DEF Explained
  <2>2. YetToSubtract(i, p)' = YetToSubtract(i, p)  BY <1>1 DEF YetToSubtract, IsPending
  <2>3. residual[i][p] = (clean.dirty[i][p] - Explained(i, p, model[i])) + YetToSubtract(i, p)
    BY DEF ResidualInv, IsExplained
  <2> QED BY <1>1, <2>1, <2>2, <2>3
<1>11. PositionsAreExplained'
  <2> SUFFICES ASSUME NEW i \in Images, NEW p \in P
               PROVE  residuals[i][p] = clean.dirty[i][p] - Explained(i, p, models[i])
    BY <1>1, <1>3, <1>5 DEF PositionsAreExplained, Explained
  <2> DEFINE image == subMinor.model[i]
             other == models[i]
             factor == factors[i]
             push == ShareAt(clean.psfs[i], p, at, factor)
  <2>1. /\ clean.psfs[i] \in [PixelsOf(clean.width, clean.height) -> Int] /\ IsFiniteSet(P)
        /\ image \in [P -> EvenIntegers] /\ other \in [P -> EvenIntegers] /\ factor \in EvenIntegers /\ push \in Int
        /\ \A c \in P : other[c] = IF c = at THEN image[c] + factor ELSE image[c]
    BY <1>2, <1>6, PsfTypes, FinitePixels, FS_Subset
  <2>2. residuals[i][p] = subMinor.residual[i][p] - push  BY <1>6
  <2> HIDE DEF image, other, factor
  <2>3. Spread(clean.width, clean.height, clean.psfs[i], p, other) =
          Spread(clean.width, clean.height, clean.psfs[i], p, image)
            + Share(clean.width, clean.height, clean.psfs[i], p, at, factor)  BY <1>4, <2>1, SpreadChanges
  <2>4. Explained(i, p, other) = Explained(i, p, image) + push  BY <2>3 DEF Explained, ShareAt
  <2>5. Explained(i, p, image) \in Int
    <3>1. image \in [P -> Int]  BY <2>1 DEF EvenIntegers
    <3> QED BY <2>1, <3>1, SpreadIsInteger DEF Explained
  <2>6. clean.dirty[i][p] \in Int  BY <1>2, PsfTypes
  <2>7. subMinor.residual[i][p] = clean.dirty[i][p] - Explained(i, p, image)
    BY DEF ResidualInv, PositionsAreExplained, P, image
  <2>8. push \in Int  BY <2>1
  <2> HIDE DEF push
  <2> QED BY <2>2, <2>4, <2>5, <2>6, <2>7, <2>8 DEF other
<1> QED BY <1>8, <1>9, <1>10, <1>11 DEF ResidualInv

\* The full images get what the models of the positions leave.
LEMMA SubMinorDoneStep ==
  ASSUME EvenSizes, NothingWrapsAround, ResidualInv, SubMinorDone
  PROVE  ResidualInv'
<1> DEFINE P == subMinor.positions
<1>1. /\ loop = "sub-minor" /\ loop' = "done" /\ residual' = [i \in Images |-> CorrectedResidual(i)]
      /\ model' = [i \in Images |-> [p \in CleanPixels |-> model[i][p] + GetFullIndividualModel(i)[p]]]
      /\ UNCHANGED <<clean, integrated, peakAt, subtraction, subMinor>>  BY DEF SubMinorDone, Stop
<1>2. /\ clean \in CleanSetups /\ clean.subMinor /\ P # {} /\ P \in SUBSET CleanPixels /\ P \subseteq MayBeCleaned(clean)
      /\ subMinor.model \in [Images -> [P -> EvenIntegers]] /\ model \in [Images -> [CleanPixels -> EvenIntegers]]
      /\ \A i \in Images : \A p \in CleanPixels : model[i][p] = 0
  BY <1>1 DEF ResidualInv, ResidualTypes, SubMinorTypes
<1>3. CleanPixels' = CleanPixels /\ Images' = Images /\ AreImages(residual)' = AreImages(residual')
      /\ MayBeCleaned(clean)' = MayBeCleaned(clean)
      /\ \A i, p, image : Explained(i, p, image)' = Explained(i, p, image)  BY <1>1, SettingsStay
<1>a. \A i : GetFullIndividualModel(i) = [p \in CleanPixels |-> IF p \in P THEN subMinor.model[i][p] ELSE 0]
  BY DEF GetFullIndividualModel
<1> HIDE DEF P
<1>4. ASSUME NEW i \in Images
      PROVE  /\ GetFullIndividualModel(i) \in [CleanPixels -> EvenIntegers]
             /\ \A c \in CleanPixels : GetFullIndividualModel(i)[c] # 0 => c \in MayBeCleaned(clean)
             /\ model'[i] = GetFullIndividualModel(i)
  <2> DEFINE full == GetFullIndividualModel(i)
  <2>1. subMinor.model[i] \in [P -> EvenIntegers] /\ 0 \in EvenIntegers  BY <1>2 DEF EvenIntegers
  <2>2. full = [p \in CleanPixels |-> IF p \in P THEN subMinor.model[i][p] ELSE 0]  BY <1>a
  <2> HIDE DEF full
  <2>3. full \in [CleanPixels -> EvenIntegers] /\ \A c \in CleanPixels : full[c] # 0 => c \in P  BY <2>1, <2>2
  <2>4. model'[i] = [p \in CleanPixels |-> model[i][p] + full[p]]  BY <1>1 DEF full
  <2>5. \A p \in CleanPixels : model[i][p] + full[p] = full[p]
    <3>1. \A p \in CleanPixels : full[p] \in Int /\ model[i][p] = 0  BY <1>2, <2>3 DEF EvenIntegers
    <3> QED BY <3>1
  <2>6. full = [p \in CleanPixels |-> full[p]]  BY <2>2
  <2>7. model'[i] = full  BY <2>4, <2>5, <2>6
  <2> QED BY <1>2, <2>3, <2>7 DEF full
<1>5. ResidualTypes'
  <2>1. model' \in [Images -> [CleanPixels -> EvenIntegers]]
    <3>1. model' = [i \in Images |-> model'[i]]  BY <1>1
    <3>2. \A i \in Images : model'[i] \in [CleanPixels -> EvenIntegers]  BY <1>4
    <3> QED BY <3>1, <3>2
  <2> QED BY <1>1, <1>3, <2>1 DEF ResidualInv, ResidualTypes
<1>6. SubMinorTypes'  BY <1>1, <1>3 DEF ResidualInv, SubMinorTypes
<1>7. IsExplained'
  <2> SUFFICES ASSUME NEW i \in Images, NEW p \in CleanPixels
               PROVE  residual'[i][p] = (clean'.dirty[i][p] - Explained(i, p, model[i])') + YetToSubtract(i, p)'
    BY <1>3 DEF IsExplained
  <2> DEFINE full == GetFullIndividualModel(i)
  <2>1. Explained(i, p, model[i])' = Explained(i, p, model'[i])  BY <1>1 DEF Explained
  <2>2. model'[i] = full /\ full \in [CleanPixels -> Int] /\ \A c \in CleanPixels : full[c] # 0 => c \in MayBeCleaned(clean)
    BY <1>4 DEF EvenIntegers
  <2>3. residual'[i] = CorrectedResidual(i)  BY <1>1
  <2>4. residual'[i][p] = residual[i][p]
          - Trim(ConvolveSameSize(Untrim(full), PaddedKernel(clean.psfs[i])))[p]
    BY <2>3 DEF CorrectedResidual, PaddedKernel
  <2> HIDE DEF full
  <2>5. Trim(ConvolveSameSize(Untrim(full), PaddedKernel(clean.psfs[i])))[p] = Explained(i, p, full)
    BY <1>2, <2>2, ConvolvedIsSpread DEF Explained
  <2>6. residual[i][p] = (clean.dirty[i][p] - Explained(i, p, model[i])) + YetToSubtract(i, p)
    BY DEF ResidualInv, IsExplained
  <2>7. YetToSubtract(i, p) = 0 /\ YetToSubtract(i, p)' = 0  BY <1>1 DEF YetToSubtract, IsPending
  <2>8. Explained(i, p, model[i]) = 0
    <3>1. model[i] \in [CleanPixels -> Int] /\ \A c \in CleanPixels : model[i][c] = 0  BY <1>2, ValueTypes
    <3> QED BY <1>2, <3>1, ExplainedByNone
  <2>9. Explained(i, p, full) \in Int /\ clean.dirty[i][p] \in Int
    <3>1. IsFiniteSet(CleanPixels) /\ clean.psfs[i] \in [PixelsOf(clean.width, clean.height) -> Int]
      BY <1>2, FinitePixels, PsfTypes
    <3> QED BY <2>2, <3>1, SpreadIsInteger, ValueTypes DEF Explained
  <2> QED BY <1>1, <2>1, <2>2, <2>4, <2>5, <2>6, <2>7, <2>8, <2>9
<1>8. PositionsAreExplained'  BY <1>1, <1>3 DEF ResidualInv, PositionsAreExplained, Explained
<1> QED BY <1>5, <1>6, <1>7, <1>8 DEF ResidualInv

LEMMA ResidualStep ==
  ASSUME EvenSizes, NothingWrapsAround
  PROVE  ResidualInv /\ [MinorLoopNext]_minorLoopVars => ResidualInv'
<1> SUFFICES ASSUME ResidualInv, [MinorLoopNext]_minorLoopVars PROVE ResidualInv'  OBVIOUS
<1>1. CASE UNCHANGED minorLoopVars
  <2>1. UNCHANGED <<clean, loop, residual, model, integrated, peakAt, subtraction, subMinor>>
    BY <1>1 DEF minorLoopVars
  <2>2. CleanPixels' = CleanPixels /\ Images' = Images /\ AreImages(residual)' = AreImages(residual)
        /\ MayBeCleaned(clean)' = MayBeCleaned(clean)
        /\ \A i, p, image : Explained(i, p, image)' = Explained(i, p, image)  BY <2>1, SettingsStay
  <2>3. ResidualTypes'  BY <2>1, <2>2 DEF ResidualInv, ResidualTypes
  <2>4. SubMinorTypes'  BY <2>1, <2>2 DEF ResidualInv, SubMinorTypes
  <2>5. IsExplained'
    <3> SUFFICES ASSUME NEW i \in Images, NEW p \in CleanPixels
                 PROVE  residual'[i][p] = (clean'.dirty[i][p] - Explained(i, p, model[i])') + YetToSubtract(i, p)'
      BY <2>2 DEF IsExplained
    <3>1. Explained(i, p, model[i])' = Explained(i, p, model[i])  BY <2>1 DEF Explained
    <3>2. YetToSubtract(i, p)' = YetToSubtract(i, p)
      BY <2>1 DEF YetToSubtract, IsPending, ShareAt, SliceStart, SliceEnd
    <3>3. residual[i][p] = (clean.dirty[i][p] - Explained(i, p, model[i])) + YetToSubtract(i, p)
      BY DEF ResidualInv, IsExplained
    <3> QED BY <2>1, <3>1, <3>2, <3>3
  <2>6. PositionsAreExplained'  BY <2>1, <2>2 DEF ResidualInv, PositionsAreExplained, Explained
  <2> QED BY <2>3, <2>4, <2>5, <2>6 DEF ResidualInv
<1> QED BY <1>1, StartStep, ComponentStep, NextImageStep, NextPeakStep, FinishStep, RowsStep, PositionsStep,
           SubMinorComponentStep, SubMinorDoneStep DEF MinorLoopNext

\* Residuals are what the models leave, for any images, psfs and settings, any number of
\* threads and any order in which they work: each pixel is the dirty image without the psf
\* around each component, as soon as no thread has it left to subtract from, and the result
\* of the sub-minor loop agrees with it everywhere (genericclean.cpp, subminorloop.cpp,
\* simpleclean.cpp).  Left out are images with an odd size, and psfs of which the
\* convolution of the sub-minor loop wraps something around.
THEOREM ResidualsAreWhatModelsLeave ==
  ASSUME EvenSizes, NothingWrapsAround
  PROVE  MinorLoopSpec => []ResidualIsDirtyMinusModel
<1>1. ResidualInv => ResidualIsDirtyMinusModel
  <2> SUFFICES ASSUME ResidualInv PROVE ResidualIsDirtyMinusModel  OBVIOUS
  <2>a. clean \in CleanSetups  BY DEF ResidualInv, ResidualTypes
  <2>1. ASSUME NEW i \in Images, NEW p \in CleanPixels, ~IsPending(i, p)
        PROVE  residual[i][p] = clean.dirty[i][p] - Response(model[i], clean.psfs[i], p)
    <3>1. model[i] \in [CleanPixels -> Int] /\ clean.dirty[i][p] \in Int /\ Explained(i, p, model[i]) \in Int
      BY ValueTypes
    <3>2. IsFiniteSet(CleanPixels) /\ clean.psfs[i] \in [CleanPixels -> Int]  BY <2>a, FinitePixels, PsfTypes
    <3>3. Response(model[i], clean.psfs[i], p) = Explained(i, p, model[i])
      BY <3>1, <3>2, ResponseIsSpread DEF Explained
    <3>4. residual[i][p] = (clean.dirty[i][p] - Explained(i, p, model[i])) + 0
      BY <2>1 DEF ResidualInv, IsExplained, YetToSubtract
    <3> QED BY <3>1, <3>3, <3>4
  <2>2. ASSUME NEW i \in Images, NEW p \in subMinor.positions
        PROVE  subMinor.residual[i][p] = clean.dirty[i][p] - Response(subMinor.model[i], clean.psfs[i], p)
    <3>1. subMinor.model[i] \in [subMinor.positions -> Int] /\ IsFiniteSet(subMinor.positions)
      <4>1. subMinor.model \in [Images -> [subMinor.positions -> EvenIntegers]] /\ subMinor.positions \subseteq CleanPixels
        BY <2>2 DEF ResidualInv, SubMinorTypes
      <4> QED BY <2>a, <4>1, FinitePixels, FS_Subset DEF EvenIntegers
    <3>2. Response(subMinor.model[i], clean.psfs[i], p) = Explained(i, p, subMinor.model[i])
      BY <2>a, <3>1, PsfTypes, ResponseIsSpread DEF Explained
    <3> QED BY <3>2 DEF ResidualInv, PositionsAreExplained
  <2> QED BY <2>1, <2>2 DEF ResidualIsDirtyMinusModel
<1> QED BY <1>1, InitResidual, ResidualStep, PTL DEF MinorLoopSpec

----
(* The division of an image: its lines *)

LEMMA Quotients ==
  ASSUME NEW a \in Nat, NEW b \in Nat \ {0}
  PROVE  /\ a \div b \in Nat
         /\ b * (a \div b) <= a /\ a < b * (a \div b) + b  OBVIOUS

Part(size, parts) == size \div parts
Mid(size, parts, c) == (size * c) \div parts
Quarter(size, parts) == Part(size, parts) \div 4
IsDivision(size, parts) == size \in Nat \ {0} /\ parts \in 1 .. size \div 4

LEMMA ProductsInOrder ==
  ASSUME NEW size \in Nat, NEW a \in Nat, NEW b \in Nat, a <= b
  PROVE  size * a \in Nat /\ size * b \in Nat /\ size * a <= size * b
<1>1. b - a \in Nat /\ size * (b - a) \in Nat /\ size * b = size * a + size * (b - a)  OBVIOUS
<1> QED BY <1>1

LEMMA AtLeastQuotient ==
  ASSUME NEW a \in Nat, NEW b \in Nat \ {0}, NEW k \in Nat, b * k <= a
  PROVE  k <= a \div b
<1> DEFINE q == a \div b
<1>1. q \in Nat /\ a < b * q + b  BY Quotients
<1> HIDE DEF q
<1>2. ASSUME q < k PROVE FALSE
  <2>1. q + 1 <= k /\ q + 1 \in Nat  BY <1>1, <1>2
  <2>2. b * (q + 1) <= b * k  BY <2>1, ProductsInOrder
  <2>3. b * (q + 1) = b * q + b /\ b * q \in Nat  BY <1>1
  <2> QED BY <1>1, <2>2, <2>3
<1> QED BY <1>1, <1>2 DEF q

\* A part is at least four pixels wide, and so are the places of two lines apart.
LEMMA PartsAreWide ==
  ASSUME NEW size, NEW parts, IsDivision(size, parts)
  PROVE  /\ parts \in Nat \ {0} /\ size \in Nat
         /\ Part(size, parts) \in Nat /\ Part(size, parts) >= 4
         /\ Quarter(size, parts) \in Nat \ {0} /\ 4 * Quarter(size, parts) <= Part(size, parts)
         /\ Mid(size, parts, 0) = 0 /\ Mid(size, parts, parts) = size
         /\ \A c \in Nat : Mid(size, parts, c) \in Nat
         /\ \A c \in Nat, d \in Nat : c < d => Mid(size, parts, c) + Part(size, parts) <= Mid(size, parts, d)
<1>1. size \in Nat /\ parts \in Nat \ {0} /\ size \div 4 \in Nat  BY DEF IsDivision
<1>2. 4 * (size \div 4) <= size /\ parts <= size \div 4  BY <1>1, Quotients DEF IsDivision
<1>3. parts * 4 <= size  BY <1>1, <1>2
<1>4. Part(size, parts) \in Nat /\ parts * Part(size, parts) <= size  BY <1>1, Quotients DEF Part
<1>5. Part(size, parts) >= 4  BY <1>1, <1>3, <1>4, AtLeastQuotient DEF Part
<1>6. Quarter(size, parts) \in Nat \ {0} /\ 4 * Quarter(size, parts) <= Part(size, parts)  BY <1>4, <1>5 DEF Quarter
<1>7. ASSUME NEW c \in Nat PROVE Mid(size, parts, c) \in Nat /\ parts * Mid(size, parts, c) <= size * c
  <2>1. size * c \in Nat  BY <1>1
  <2> QED BY <1>1, <2>1, Quotients DEF Mid
<1>8. ASSUME NEW c \in Nat, NEW d \in Nat, c < d PROVE Mid(size, parts, c) + Part(size, parts) <= Mid(size, parts, d)
  <2>1. size * (c + 1) <= size * d /\ size * d \in Nat  BY <1>1, <1>8, ProductsInOrder
  <2>2. size * (c + 1) = size * c + size /\ size * c \in Nat  BY <1>1
  <2>3. parts * (Mid(size, parts, c) + Part(size, parts)) = parts * Mid(size, parts, c) + parts * Part(size, parts)
    BY <1>1, <1>4, <1>7
  <2>4. /\ Mid(size, parts, c) + Part(size, parts) \in Nat
        /\ parts * Mid(size, parts, c) \in Nat /\ parts * Part(size, parts) \in Nat  BY <1>1, <1>4, <1>7
  <2>5. parts * Mid(size, parts, c) + parts * Part(size, parts) <= size * c + size  BY <1>1, <1>4, <1>7, <2>2, <2>4
  <2>6. parts * (Mid(size, parts, c) + Part(size, parts)) <= size * d  BY <1>1, <2>1, <2>2, <2>3, <2>4, <2>5
  <2> QED BY <1>1, <2>1, <2>4, <2>6, AtLeastQuotient DEF Mid
<1>9. Mid(size, parts, 0) = 0  BY <1>1 DEF Mid
<1>10. Mid(size, parts, parts) = size
  <2> DEFINE m == Mid(size, parts, parts)
  <2>1. size * parts = parts * size /\ size * parts \in Nat  BY <1>1
  <2>2. size <= m  BY <1>1, <2>1, AtLeastQuotient DEF Mid
  <2>3. m \in Nat /\ parts * m <= size * parts  BY <1>1, <1>7
  <2> HIDE DEF m
  <2>4. ASSUME size < m PROVE FALSE
    <3>1. parts * (size + 1) <= parts * m  BY <1>1, <2>3, <2>4, ProductsInOrder
    <3>2. parts * (size + 1) = parts * size + parts /\ parts * size \in Nat  BY <1>1
    <3> QED BY <1>1, <2>1, <2>3, <3>1, <3>2
  <2>5. m = size  BY <1>1, <2>2, <2>3, <2>4
  <2> QED BY <2>5 DEF m
<1> QED BY <1>1, <1>4, <1>5, <1>6, <1>7, <1>8, <1>9, <1>10

\* Where a line is, with the sides of the image as lines.
At(lines, size, parts, c, n) == IF c = 0 THEN -1 ELSE IF c = parts THEN size ELSE lines[c][n]
LinesAreDrawn(lines, size, parts, length) ==
  \A d \in 1 .. parts - 1 :
    /\ lines[d] \in [0 .. length - 1 -> SplitRange(size, parts, d)]
    /\ \A i \in 1 .. length - 1 : lines[d][i] - lines[d][i - 1] \in {-1, 0, 1}

LEMMA LinesInTheirRange ==
  ASSUME NEW size, NEW parts, NEW length \in Nat, NEW lines, IsDivision(size, parts),
         LinesAreDrawn(lines, size, parts, length), NEW c \in 0 .. parts, NEW n \in 0 .. length - 1
  PROVE  /\ At(lines, size, parts, c, n) \in Int
         /\ Mid(size, parts, c) - Quarter(size, parts) <= At(lines, size, parts, c, n)
         /\ At(lines, size, parts, c, n) <= Mid(size, parts, c) + Quarter(size, parts) - 1
         /\ c = 0 => At(lines, size, parts, c, n) = -1
         /\ c = parts => At(lines, size, parts, c, n) = size
<1>1. /\ parts \in Nat \ {0} /\ size \in Nat /\ Quarter(size, parts) \in Nat \ {0}
      /\ Mid(size, parts, 0) = 0 /\ Mid(size, parts, parts) = size /\ Mid(size, parts, c) \in Nat  BY PartsAreWide
<1>2. CASE c = 0  BY <1>1, <1>2 DEF At
<1>3. CASE c = parts  BY <1>1, <1>3 DEF At
<1>4. CASE c # 0 /\ c # parts
  <2>1. c \in 1 .. parts - 1  BY <1>1, <1>4
  <2>2. lines[c] \in [0 .. length - 1 -> SplitRange(size, parts, c)]  BY <2>1 DEF LinesAreDrawn
  <2>3. SplitRange(size, parts, c) = Mid(size, parts, c) - Quarter(size, parts) .. Mid(size, parts, c) + Quarter(size, parts) - 1
    BY DEF SplitRange, Mid, Quarter, Part
  <2>4. lines[c][n] \in Mid(size, parts, c) - Quarter(size, parts) .. Mid(size, parts, c) + Quarter(size, parts) - 1
    BY <2>2, <2>3
  <2> QED BY <1>1, <1>4, <2>4 DEF At
<1> QED BY <1>2, <1>3, <1>4

LEMMA LinesMoveByOne ==
  ASSUME NEW size, NEW parts, NEW length \in Nat, NEW lines, IsDivision(size, parts),
         LinesAreDrawn(lines, size, parts, length), NEW c \in 0 .. parts, NEW n \in 0 .. length - 1,
         NEW m \in 0 .. length - 1, m - n \in {-1, 0, 1}
  PROVE  At(lines, size, parts, c, m) - At(lines, size, parts, c, n) \in {-1, 0, 1}
<1>1. parts \in Nat \ {0} /\ size \in Nat  BY PartsAreWide
<1>2. At(lines, size, parts, c, m) \in Int /\ At(lines, size, parts, c, n) \in Int  BY LinesInTheirRange
<1>3. CASE c = 0 \/ c = parts  BY <1>1, <1>3 DEF At
<1>4. CASE c # 0 /\ c # parts
  <2>1. c \in 1 .. parts - 1  BY <1>1, <1>4
  <2>2. \A i \in 1 .. length - 1 : lines[c][i] - lines[c][i - 1] \in {-1, 0, 1}  BY <2>1 DEF LinesAreDrawn
  <2>3. lines[c][m] \in Int /\ lines[c][n] \in Int  BY <1>2, <1>4 DEF At
  <2>4. CASE m = n  BY <2>3, <2>4, <1>4 DEF At
  <2>5. CASE m = n + 1
    <3>1. m \in 1 .. length - 1 /\ m - 1 = n  BY <2>5
    <3> QED BY <2>2, <3>1, <1>4 DEF At
  <2>6. CASE n = m + 1
    <3>1. n \in 1 .. length - 1 /\ n - 1 = m  BY <2>6
    <3>2. lines[c][n] - lines[c][m] \in {-1, 0, 1}  BY <2>2, <3>1
    <3> QED BY <2>3, <3>2, <1>4 DEF At
  <2> QED BY <2>4, <2>5, <2>6
<1> QED BY <1>3, <1>4

LEMMA LinesInOrder ==
  ASSUME NEW size, NEW parts, NEW length \in Nat, NEW lines, IsDivision(size, parts),
         LinesAreDrawn(lines, size, parts, length), NEW c \in 0 .. parts, NEW d \in 0 .. parts, c < d,
         NEW n \in 0 .. length - 1, NEW m \in 0 .. length - 1
  PROVE  At(lines, size, parts, c, n) < At(lines, size, parts, d, m)
<1>1. /\ parts \in Nat \ {0} /\ Quarter(size, parts) \in Nat \ {0} /\ Part(size, parts) \in Nat
      /\ 4 * Quarter(size, parts) <= Part(size, parts)
      /\ Mid(size, parts, c) \in Nat /\ Mid(size, parts, d) \in Nat
      /\ Mid(size, parts, c) + Part(size, parts) <= Mid(size, parts, d)  BY PartsAreWide
<1>2. /\ At(lines, size, parts, c, n) \in Int /\ At(lines, size, parts, d, m) \in Int
      /\ Mid(size, parts, d) - Quarter(size, parts) <= At(lines, size, parts, d, m)
      /\ At(lines, size, parts, c, n) <= Mid(size, parts, c) + Quarter(size, parts) - 1  BY LinesInTheirRange
<1> QED BY <1>1, <1>2

\* Each place lies between two lines, or on one.
LEMMA BetweenLines ==
  ASSUME NEW size, NEW parts, NEW length \in Nat, NEW lines, IsDivision(size, parts),
         LinesAreDrawn(lines, size, parts, length), NEW n \in 0 .. length - 1, NEW x \in 0 .. size - 1
  PROVE  \E c \in 0 .. parts - 1 : At(lines, size, parts, c, n) <= x /\ x < At(lines, size, parts, c + 1, n)
<1> DEFINE Right == {c \in 0 .. parts : At(lines, size, parts, c, n) > x}
<1>1. parts \in Nat \ {0} /\ size \in Nat  BY PartsAreWide
<1>2. parts \in 0 .. parts /\ 0 \in 0 .. parts  BY <1>1
<1>3. parts \in Right /\ 0 \notin Right /\ Right \subseteq Nat  BY <1>1, <1>2, LinesInTheirRange
<1>4. PICK c \in Right : \A d \in Right : c <= d
  <2> HIDE DEF Right
  <2> QED BY <1>3, LeastElement
<1>5. c \in 1 .. parts  BY <1>1, <1>3, <1>4
<1>6. c - 1 \in 0 .. parts - 1 /\ (c - 1) + 1 = c /\ c - 1 \in 0 .. parts /\ c - 1 \notin Right  BY <1>1, <1>4, <1>5
<1>7. At(lines, size, parts, c - 1, n) \in Int  BY <1>6, LinesInTheirRange
<1>8. At(lines, size, parts, c - 1, n) <= x /\ x < At(lines, size, parts, c, n)
  BY <1>4, <1>5, <1>6, <1>7, LinesInTheirRange
<1> QED BY <1>6, <1>8
----
(* The division of an image: its cells *)

ColumnLine(c, y) == At(vertical, Width, HorImages, c, y)
RowLine(r, x) == At(horizontal, Height, VerImages, r, x)
LinesAreFixed ==
  /\ DOMAIN vertical = 1 .. HorImages - 1 /\ LinesAreDrawn(vertical, Width, HorImages, Height)
  /\ DOMAIN horizontal = 1 .. VerImages - 1 /\ LinesAreDrawn(horizontal, Height, VerImages, Width)

\* Between the lines, in the part that no line reaches, and its middle.
Low(size, parts, c) == Mid(size, parts, c) + Quarter(size, parts)
High(size, parts, c) == Mid(size, parts, c + 1) - Quarter(size, parts) - 1
Centre(size, parts, c) == Mid(size, parts, c) + Part(size, parts) \div 2
Core(size, parts, c) == Low(size, parts, c) .. High(size, parts, c)

LEMMA CoreBetweenLines ==
  ASSUME NEW size, NEW parts, NEW length \in Nat, NEW lines, IsDivision(size, parts),
         LinesAreDrawn(lines, size, parts, length), NEW c \in 0 .. parts - 1
  PROVE  /\ Low(size, parts, c) \in Int /\ High(size, parts, c) \in Int
         /\ Centre(size, parts, c) \in Core(size, parts, c)
         /\ 0 <= Low(size, parts, c) /\ High(size, parts, c) <= size - 1
         /\ \A n \in 0 .. length - 1 :
              /\ At(lines, size, parts, c, n) \in Int /\ At(lines, size, parts, c + 1, n) \in Int
              /\ At(lines, size, parts, c, n) < Low(size, parts, c)
              /\ High(size, parts, c) < At(lines, size, parts, c + 1, n)
<1>1. /\ parts \in Nat \ {0} /\ size \in Nat /\ Part(size, parts) \in Nat /\ Part(size, parts) >= 4
      /\ Quarter(size, parts) \in Nat \ {0} /\ 4 * Quarter(size, parts) <= Part(size, parts)
      /\ Mid(size, parts, parts) = size  BY PartsAreWide
<1>2. c \in Nat /\ c + 1 \in Nat /\ c \in 0 .. parts /\ c + 1 \in 0 .. parts  BY <1>1
<1>3. /\ Mid(size, parts, c) \in Nat /\ Mid(size, parts, c + 1) \in Nat
      /\ Mid(size, parts, c) + Part(size, parts) <= Mid(size, parts, c + 1)  BY <1>2, PartsAreWide
<1>4. Mid(size, parts, c + 1) <= size
  <2>1. CASE c + 1 = parts  BY <1>1, <2>1
  <2>2. CASE c + 1 # parts
    <3>1. c + 1 < parts  BY <1>1, <2>2
    <3>2. Mid(size, parts, c + 1) + Part(size, parts) <= Mid(size, parts, parts)  BY <1>1, <1>2, <3>1, PartsAreWide
    <3> QED BY <1>1, <1>3, <3>2
  <2> QED BY <2>1, <2>2
<1>5. /\ Part(size, parts) \div 2 \in Nat /\ 2 * (Part(size, parts) \div 2) <= Part(size, parts)
      /\ Part(size, parts) < 2 * (Part(size, parts) \div 2) + 2  BY <1>1
<1>6. Low(size, parts, c) \in Int /\ High(size, parts, c) \in Int /\ 0 <= Low(size, parts, c) /\ High(size, parts, c) <= size - 1
  BY <1>1, <1>3, <1>4 DEF Low, High
<1>7. Centre(size, parts, c) \in Core(size, parts, c)  BY <1>1, <1>3, <1>5 DEF Low, High, Centre, Core
<1>8. ASSUME NEW n \in 0 .. length - 1
      PROVE  /\ At(lines, size, parts, c, n) \in Int /\ At(lines, size, parts, c + 1, n) \in Int
             /\ At(lines, size, parts, c, n) < Low(size, parts, c)
             /\ High(size, parts, c) < At(lines, size, parts, c + 1, n)
  <2>1. /\ At(lines, size, parts, c, n) \in Int
        /\ At(lines, size, parts, c, n) <= Mid(size, parts, c) + Quarter(size, parts) - 1  BY <1>2, LinesInTheirRange
  <2>2. /\ At(lines, size, parts, c + 1, n) \in Int
        /\ Mid(size, parts, c + 1) - Quarter(size, parts) <= At(lines, size, parts, c + 1, n)
    BY <1>2, LinesInTheirRange
  <2> QED BY <1>1, <1>3, <2>1, <2>2 DEF Low, High
<1> QED BY <1>6, <1>7, <1>8

Columns == 0 .. HorImages - 1
RowsOfCells == 0 .. VerImages - 1
MiddleX(c) == Centre(Width, HorImages, c)
MiddleY(r) == Centre(Height, VerImages, r)
CoreX(c) == Core(Width, HorImages, c)
CoreY(r) == Core(Height, VerImages, r)

LEMMA SizesOfDivision ==
  /\ Width \in Nat \ {0} /\ Height \in Nat \ {0} /\ HorImages \in Nat \ {0} /\ VerImages \in Nat \ {0}
  /\ IsDivision(Width, HorImages) /\ IsDivision(Height, VerImages)
<1>1. /\ Width \in Nat \ {0} /\ Height \in Nat \ {0}
      /\ HorImages \in 1 .. Width \div 4 /\ VerImages \in 1 .. Height \div 4
  BY DivisionAssumption DEF DivisionAssumption
<1>2. IsDivision(Width, HorImages) /\ IsDivision(Height, VerImages)  BY <1>1 DEF IsDivision
<1> QED BY <1>1, <1>2, PartsAreWide

LEMMA ColumnBounds ==
  ASSUME LinesAreFixed, NEW c \in Columns
  PROVE  /\ Low(Width, HorImages, c) \in Int /\ High(Width, HorImages, c) \in Int
         /\ MiddleX(c) \in CoreX(c) /\ MiddleX(c) \in Int
         /\ 0 <= Low(Width, HorImages, c) /\ High(Width, HorImages, c) <= Width - 1
         /\ \A y \in 0 .. Height - 1 :
              /\ ColumnLine(c, y) \in Int /\ ColumnLine(c + 1, y) \in Int
              /\ ColumnLine(c, y) < Low(Width, HorImages, c)
              /\ High(Width, HorImages, c) < ColumnLine(c + 1, y)
<1>1. /\ Width \in Nat /\ Height \in Nat /\ IsDivision(Width, HorImages)
      /\ LinesAreDrawn(vertical, Width, HorImages, Height) /\ c \in 0 .. HorImages - 1
  BY SizesOfDivision DEF LinesAreFixed, Columns
<1> QED BY <1>1, CoreBetweenLines DEF MiddleX, CoreX, ColumnLine, Core
LEMMA RowBounds ==
  ASSUME LinesAreFixed, NEW r \in RowsOfCells
  PROVE  /\ Low(Height, VerImages, r) \in Int /\ High(Height, VerImages, r) \in Int
         /\ MiddleY(r) \in CoreY(r) /\ MiddleY(r) \in Int
         /\ 0 <= Low(Height, VerImages, r) /\ High(Height, VerImages, r) <= Height - 1
         /\ \A x \in 0 .. Width - 1 :
              /\ RowLine(r, x) \in Int /\ RowLine(r + 1, x) \in Int
              /\ RowLine(r, x) < Low(Height, VerImages, r)
              /\ High(Height, VerImages, r) < RowLine(r + 1, x)
<1>1. /\ Width \in Nat /\ Height \in Nat /\ IsDivision(Height, VerImages)
      /\ LinesAreDrawn(horizontal, Height, VerImages, Width) /\ r \in 0 .. VerImages - 1
  BY SizesOfDivision DEF LinesAreFixed, RowsOfCells
<1> QED BY <1>1, CoreBetweenLines DEF MiddleY, CoreY, RowLine, Core

LEMMA ColumnMoves ==
  ASSUME LinesAreFixed, NEW c \in 0 .. HorImages, NEW y \in 0 .. Height - 1, NEW z \in 0 .. Height - 1,
         z - y \in {-1, 0, 1}
  PROVE  ColumnLine(c, z) - ColumnLine(c, y) \in {-1, 0, 1} /\ ColumnLine(c, z) \in Int /\ ColumnLine(c, y) \in Int
<1>1. /\ Width \in Nat /\ Height \in Nat /\ IsDivision(Width, HorImages)
      /\ LinesAreDrawn(vertical, Width, HorImages, Height)  BY SizesOfDivision DEF LinesAreFixed
<1> QED BY <1>1, LinesMoveByOne, LinesInTheirRange DEF ColumnLine
LEMMA RowMoves ==
  ASSUME LinesAreFixed, NEW r \in 0 .. VerImages, NEW x \in 0 .. Width - 1, NEW z \in 0 .. Width - 1,
         z - x \in {-1, 0, 1}
  PROVE  RowLine(r, z) - RowLine(r, x) \in {-1, 0, 1} /\ RowLine(r, z) \in Int /\ RowLine(r, x) \in Int
<1>1. /\ Width \in Nat /\ Height \in Nat /\ IsDivision(Height, VerImages)
      /\ LinesAreDrawn(horizontal, Height, VerImages, Width)  BY SizesOfDivision DEF LinesAreFixed
<1> QED BY <1>1, LinesMoveByOne, LinesInTheirRange DEF RowLine

InCell(c, r, x, y) ==
  /\ x \in 0 .. Width - 1 /\ y \in 0 .. Height - 1
  /\ ColumnLine(c, y) < x /\ x < ColumnLine(c + 1, y)
  /\ RowLine(r, x) < y /\ y < RowLine(r + 1, x)
Toward(n, m) == IF n < m THEN n + 1 ELSE IF n > m THEN n - 1 ELSE n

\* A pixel of a cell from which a step towards the middle stays in the cell.
Leads(c, r, x, y) ==
  /\ InCell(c, r, x, y)
  /\ \/ x = MiddleX(c) /\ y = MiddleY(r)
     \/ x # MiddleX(c) /\ InCell(c, r, Toward(x, MiddleX(c)), y)
     \/ y # MiddleY(r) /\ InCell(c, r, x, Toward(y, MiddleY(r)))

LEMMA CoreLeads ==
  ASSUME LinesAreFixed, NEW c \in Columns, NEW r \in RowsOfCells, NEW x, NEW y, InCell(c, r, x, y),
         x \in CoreX(c) \/ y \in CoreY(r)
  PROVE  Leads(c, r, x, y)
<1>1. x \in 0 .. Width - 1 /\ y \in 0 .. Height - 1 /\ Width \in Nat /\ Height \in Nat  BY SizesOfDivision DEF InCell
<1> DEFINE tx == Toward(x, MiddleX(c))
           ty == Toward(y, MiddleY(r))
<1>2. x = MiddleX(c) \/ (x # MiddleX(c) /\ y \in CoreY(r)) \/ (x # MiddleX(c) /\ y \notin CoreY(r))  OBVIOUS
<1>3. CASE x # MiddleX(c) /\ y \in CoreY(r)
  <2>1. tx \in 0 .. Width - 1 /\ ColumnLine(c, y) < tx /\ tx < ColumnLine(c + 1, y)
    BY <1>1, <1>3, ColumnBounds DEF InCell, Toward, CoreX, Core
  <2> HIDE DEF tx
  <2>2. RowLine(r, tx) < y /\ y < RowLine(r + 1, tx)  BY <1>1, <1>3, <2>1, RowBounds DEF CoreY, Core
  <2>3. InCell(c, r, tx, y)  BY <1>1, <2>1, <2>2 DEF InCell
  <2> QED BY <1>3, <2>3 DEF Leads, tx
<1>4. CASE x \in CoreX(c) /\ y # MiddleY(r)
  <2>1. ty \in 0 .. Height - 1 /\ RowLine(r, x) < ty /\ ty < RowLine(r + 1, x)
    BY <1>1, <1>4, RowBounds DEF InCell, Toward, CoreY, Core
  <2> HIDE DEF ty
  <2>2. ColumnLine(c, ty) < x /\ x < ColumnLine(c + 1, ty)  BY <1>1, <1>4, <2>1, ColumnBounds DEF CoreX, Core
  <2>3. InCell(c, r, x, ty)  BY <1>1, <2>1, <2>2 DEF InCell
  <2> QED BY <1>4, <2>3 DEF Leads, ty
<1>5. MiddleX(c) \in CoreX(c) /\ MiddleY(r) \in CoreY(r)  BY ColumnBounds, RowBounds
<1>6. CASE x = MiddleX(c) /\ y = MiddleY(r)  BY <1>6 DEF Leads
<1> QED BY <1>3, <1>4, <1>5, <1>6

\* In a corner: the next pixel on the diagonal is in the cell, when one of those before it is.
LEMMA CornerSteps ==
  ASSUME LinesAreFixed, NEW c \in Columns, NEW r \in RowsOfCells, NEW x, NEW y, InCell(c, r, x, y),
         x \notin CoreX(c), y \notin CoreY(r),
         NEW tx, tx = Toward(x, MiddleX(c)), NEW ty, ty = Toward(y, MiddleY(r)),
         InCell(c, r, tx, y) \/ InCell(c, r, x, ty)
  PROVE  InCell(c, r, tx, ty)
<1>1. x \in 0 .. Width - 1 /\ y \in 0 .. Height - 1 /\ Width \in Nat /\ Height \in Nat  BY SizesOfDivision DEF InCell
<1>2. /\ Low(Width, HorImages, c) \in Int /\ High(Width, HorImages, c) \in Int
      /\ MiddleX(c) \in Int /\ Low(Width, HorImages, c) <= MiddleX(c) /\ MiddleX(c) <= High(Width, HorImages, c)
      /\ 0 <= Low(Width, HorImages, c) /\ High(Width, HorImages, c) <= Width - 1
      /\ x < Low(Width, HorImages, c) \/ x > High(Width, HorImages, c)  BY <1>1, ColumnBounds DEF CoreX, Core
<1>3. /\ Low(Height, VerImages, r) \in Int /\ High(Height, VerImages, r) \in Int
      /\ MiddleY(r) \in Int /\ Low(Height, VerImages, r) <= MiddleY(r) /\ MiddleY(r) <= High(Height, VerImages, r)
      /\ 0 <= Low(Height, VerImages, r) /\ High(Height, VerImages, r) <= Height - 1
      /\ y < Low(Height, VerImages, r) \/ y > High(Height, VerImages, r)  BY <1>1, RowBounds DEF CoreY, Core
<1>4. /\ tx \in 0 .. Width - 1 /\ tx - x \in {-1, 0, 1} /\ x - tx \in {-1, 0, 1}
      /\ x < Low(Width, HorImages, c) => tx = x + 1 /\ tx <= Low(Width, HorImages, c)
      /\ x > High(Width, HorImages, c) => tx = x - 1 /\ tx >= High(Width, HorImages, c)  BY <1>1, <1>2 DEF Toward
<1>5. /\ ty \in 0 .. Height - 1 /\ ty - y \in {-1, 0, 1} /\ y - ty \in {-1, 0, 1}
      /\ y < Low(Height, VerImages, r) => ty = y + 1 /\ ty <= Low(Height, VerImages, r)
      /\ y > High(Height, VerImages, r) => ty = y - 1 /\ ty >= High(Height, VerImages, r)  BY <1>1, <1>3 DEF Toward
<1>6. /\ ColumnLine(c, ty) \in Int /\ ColumnLine(c, ty) < Low(Width, HorImages, c)
      /\ ColumnLine(c + 1, ty) \in Int /\ High(Width, HorImages, c) < ColumnLine(c + 1, ty)  BY <1>5, ColumnBounds
<1>7. /\ RowLine(r, tx) \in Int /\ RowLine(r, tx) < Low(Height, VerImages, r)
      /\ RowLine(r + 1, tx) \in Int /\ High(Height, VerImages, r) < RowLine(r + 1, tx)  BY <1>4, RowBounds
<1>8. c \in 0 .. HorImages /\ c + 1 \in 0 .. HorImages /\ r \in 0 .. VerImages /\ r + 1 \in 0 .. VerImages
  BY SizesOfDivision DEF Columns, RowsOfCells
<1>9. /\ ColumnLine(c, ty) - ColumnLine(c, y) \in {-1, 0, 1} /\ ColumnLine(c, y) \in Int
      /\ ColumnLine(c + 1, ty) - ColumnLine(c + 1, y) \in {-1, 0, 1} /\ ColumnLine(c + 1, y) \in Int
  BY <1>1, <1>5, <1>8, ColumnMoves
<1>10. /\ RowLine(r, tx) - RowLine(r, x) \in {-1, 0, 1} /\ RowLine(r, x) \in Int
       /\ RowLine(r + 1, tx) - RowLine(r + 1, x) \in {-1, 0, 1} /\ RowLine(r + 1, x) \in Int
  BY <1>1, <1>4, <1>8, RowMoves
<1>11. ColumnLine(c, y) < x /\ x < ColumnLine(c + 1, y) /\ RowLine(r, x) < y /\ y < RowLine(r + 1, x)  BY DEF InCell
<1>12. (RowLine(r, tx) < y /\ y < RowLine(r + 1, tx)) \/ (ColumnLine(c, ty) < x /\ x < ColumnLine(c + 1, ty))
  BY DEF InCell
<1>13. ColumnLine(c, ty) < tx  BY <1>1, <1>2, <1>4, <1>6, <1>9, <1>11
<1>14. tx < ColumnLine(c + 1, ty)  BY <1>1, <1>2, <1>4, <1>6, <1>9, <1>11
<1>15. RowLine(r, tx) < ty  BY <1>1, <1>3, <1>5, <1>7, <1>10, <1>11
<1>16. ty < RowLine(r + 1, tx)  BY <1>1, <1>3, <1>5, <1>7, <1>10, <1>11
<1> QED BY <1>4, <1>5, <1>13, <1>14, <1>15, <1>16 DEF InCell
\* So does the pixel after it.
LEMMA LeadsOn ==
  ASSUME LinesAreFixed, NEW c \in Columns, NEW r \in RowsOfCells, NEW x, NEW y, Leads(c, r, x, y),
         x # MiddleX(c) \/ y # MiddleY(r)
  PROVE  \/ x # MiddleX(c) /\ Leads(c, r, Toward(x, MiddleX(c)), y)
         \/ y # MiddleY(r) /\ Leads(c, r, x, Toward(y, MiddleY(r)))
<1> DEFINE tx == Toward(x, MiddleX(c))
           ty == Toward(y, MiddleY(r))
<1>1. InCell(c, r, x, y) /\ x \in Int /\ y \in Int  BY SizesOfDivision DEF Leads, InCell
<1>2. (x # MiddleX(c) /\ InCell(c, r, tx, y)) \/ (y # MiddleY(r) /\ InCell(c, r, x, ty))  BY DEF Leads
<1>3. /\ MiddleX(c) \in CoreX(c) /\ MiddleX(c) \in Int /\ MiddleY(r) \in CoreY(r) /\ MiddleY(r) \in Int
      /\ Low(Width, HorImages, c) \in Int /\ High(Width, HorImages, c) \in Int
      /\ Low(Height, VerImages, r) \in Int /\ High(Height, VerImages, r) \in Int  BY ColumnBounds, RowBounds
<1>4. (x \in CoreX(c) => tx \in CoreX(c)) /\ (y \in CoreY(r) => ty \in CoreY(r))
  BY <1>1, <1>3 DEF CoreX, CoreY, Core, Toward
<1> HIDE DEF tx, ty
<1>5. CASE x \in CoreX(c) \/ y \in CoreY(r)  BY <1>2, <1>4, <1>5, CoreLeads DEF tx, ty
<1>6. CASE x \notin CoreX(c) /\ y \notin CoreY(r)
  <2>1. InCell(c, r, tx, ty)  BY <1>1, <1>2, <1>6, CornerSteps DEF tx, ty
  <2>2. x # MiddleX(c) /\ y # MiddleY(r)  BY <1>3, <1>6
  <2> QED BY <1>2, <2>1, <2>2 DEF Leads, tx, ty
<1> QED BY <1>5, <1>6

LEMMA OnColumnLine ==
  ASSUME LinesAreFixed, NEW k \in 0 .. HorImages, NEW u \in 0 .. Width - 1, NEW y \in 0 .. Height - 1,
         ColumnLine(k, y) = u
  PROVE  <<u, y>> \in OnVertical
<1>1. Width \in Nat \ {0} /\ HorImages \in Nat \ {0}  BY SizesOfDivision
<1>2. k # 0 /\ k # HorImages  BY <1>1 DEF ColumnLine, At
<1>3. k \in DOMAIN vertical /\ vertical[k][y] = u  BY <1>1, <1>2 DEF LinesAreFixed, ColumnLine, At
<1>4. <<u, y>> \in ImagePixels  BY DEF ImagePixels
<1> QED BY <1>3, <1>4 DEF OnVertical
LEMMA OnRowLine ==
  ASSUME LinesAreFixed, NEW k \in 0 .. VerImages, NEW x \in 0 .. Width - 1, NEW u \in 0 .. Height - 1,
         RowLine(k, x) = u
  PROVE  <<x, u>> \in OnHorizontal
<1>1. Height \in Nat \ {0} /\ VerImages \in Nat \ {0}  BY SizesOfDivision
<1>2. k # 0 /\ k # VerImages  BY <1>1 DEF RowLine, At
<1>3. k \in DOMAIN horizontal /\ horizontal[k][x] = u  BY <1>1, <1>2 DEF LinesAreFixed, RowLine, At
<1>4. <<x, u>> \in ImagePixels  BY DEF ImagePixels
<1> QED BY <1>3, <1>4 DEF OnHorizontal
LEMMA ColumnLineOf ==
  ASSUME LinesAreFixed, NEW x, NEW y, <<x, y>> \in OnVertical
  PROVE  /\ x \in 0 .. Width - 1 /\ y \in 0 .. Height - 1
         /\ \E k \in 1 .. HorImages - 1 : ColumnLine(k, y) = x
<1>1. <<x, y>> \in ImagePixels /\ \E d \in DOMAIN vertical : vertical[d][y] = x  BY DEF OnVertical
<1>2. PICK d \in 1 .. HorImages - 1 : vertical[d][y] = x  BY <1>1 DEF LinesAreFixed
<1>3. d # 0 /\ d # HorImages  BY SizesOfDivision
<1> QED BY <1>1, <1>2, <1>3 DEF ImagePixels, ColumnLine, At
LEMMA RowLineOf ==
  ASSUME LinesAreFixed, NEW x, NEW y, <<x, y>> \in OnHorizontal
  PROVE  /\ x \in 0 .. Width - 1 /\ y \in 0 .. Height - 1
         /\ \E k \in 1 .. VerImages - 1 : RowLine(k, x) = y
<1>1. <<x, y>> \in ImagePixels /\ \E d \in DOMAIN horizontal : horizontal[d][x] = y  BY DEF OnHorizontal
<1>2. PICK d \in 1 .. VerImages - 1 : horizontal[d][x] = y  BY <1>1 DEF LinesAreFixed
<1>3. d # 0 /\ d # VerImages  BY SizesOfDivision
<1> QED BY <1>1, <1>2, <1>3 DEF ImagePixels, RowLine, At

\* A pixel of a cell that no step leads from is next to the lines that meet at its corner.
NearBoth(x, y) ==
  /\ \E u \in Int : u - x \in {-1, 0, 1} /\ <<u, y>> \in OnVertical
  /\ \E v \in Int : v - y \in {-1, 0, 1} /\ <<x, v>> \in OnHorizontal
LEMMA ClosedIn ==
  ASSUME LinesAreFixed, NEW c \in Columns, NEW r \in RowsOfCells, NEW x, NEW y, InCell(c, r, x, y),
         ~Leads(c, r, x, y)
  PROVE  NearBoth(x, y)
<1> DEFINE tx == Toward(x, MiddleX(c))
           ty == Toward(y, MiddleY(r))
<1>1. x \in 0 .. Width - 1 /\ y \in 0 .. Height - 1 /\ Width \in Nat /\ Height \in Nat  BY SizesOfDivision DEF InCell
<1>2. x \notin CoreX(c) /\ y \notin CoreY(r)  BY CoreLeads
<1>3. /\ Low(Width, HorImages, c) \in Int /\ High(Width, HorImages, c) \in Int
      /\ MiddleX(c) \in Int /\ Low(Width, HorImages, c) <= MiddleX(c) /\ MiddleX(c) <= High(Width, HorImages, c)
      /\ 0 <= Low(Width, HorImages, c) /\ High(Width, HorImages, c) <= Width - 1
      /\ x < Low(Width, HorImages, c) \/ x > High(Width, HorImages, c)  BY <1>1, <1>2, ColumnBounds DEF CoreX, Core
<1>4. /\ Low(Height, VerImages, r) \in Int /\ High(Height, VerImages, r) \in Int
      /\ MiddleY(r) \in Int /\ Low(Height, VerImages, r) <= MiddleY(r) /\ MiddleY(r) <= High(Height, VerImages, r)
      /\ 0 <= Low(Height, VerImages, r) /\ High(Height, VerImages, r) <= Height - 1
      /\ y < Low(Height, VerImages, r) \/ y > High(Height, VerImages, r)  BY <1>1, <1>2, RowBounds DEF CoreY, Core
<1>5. /\ tx \in 0 .. Width - 1 /\ tx - x \in {-1, 0, 1} /\ x - tx \in {-1, 0, 1}
      /\ x < Low(Width, HorImages, c) => tx = x + 1 /\ tx <= Low(Width, HorImages, c)
      /\ x > High(Width, HorImages, c) => tx = x - 1 /\ tx >= High(Width, HorImages, c)  BY <1>1, <1>3 DEF Toward
<1>6. /\ ty \in 0 .. Height - 1 /\ ty - y \in {-1, 0, 1} /\ y - ty \in {-1, 0, 1}
      /\ y < Low(Height, VerImages, r) => ty = y + 1 /\ ty <= Low(Height, VerImages, r)
      /\ y > High(Height, VerImages, r) => ty = y - 1 /\ ty >= High(Height, VerImages, r)  BY <1>1, <1>4 DEF Toward
<1>7. ~InCell(c, r, tx, y) /\ ~InCell(c, r, x, ty)  BY <1>3, <1>4, <1>5, <1>6 DEF Leads
<1> HIDE DEF tx, ty
<1>8. c \in 0 .. HorImages /\ c + 1 \in 0 .. HorImages /\ r \in 0 .. VerImages /\ r + 1 \in 0 .. VerImages
  BY SizesOfDivision DEF Columns, RowsOfCells
<1>9. /\ \A z \in {y, ty} : /\ ColumnLine(c, z) \in Int /\ ColumnLine(c, z) < Low(Width, HorImages, c)
                            /\ ColumnLine(c + 1, z) \in Int /\ High(Width, HorImages, c) < ColumnLine(c + 1, z)
      /\ \A z \in {x, tx} : /\ RowLine(r, z) \in Int /\ RowLine(r, z) < Low(Height, VerImages, r)
                            /\ RowLine(r + 1, z) \in Int /\ High(Height, VerImages, r) < RowLine(r + 1, z)
  BY <1>1, <1>5, <1>6, ColumnBounds, RowBounds
<1>10. /\ ColumnLine(c, ty) - ColumnLine(c, y) \in {-1, 0, 1}
       /\ ColumnLine(c + 1, ty) - ColumnLine(c + 1, y) \in {-1, 0, 1}  BY <1>1, <1>6, <1>8, ColumnMoves
<1>11. /\ RowLine(r, tx) - RowLine(r, x) \in {-1, 0, 1}
       /\ RowLine(r + 1, tx) - RowLine(r + 1, x) \in {-1, 0, 1}  BY <1>1, <1>5, <1>8, RowMoves
<1>12. ColumnLine(c, y) < x /\ x < ColumnLine(c + 1, y) /\ RowLine(r, x) < y /\ y < RowLine(r + 1, x)  BY DEF InCell
<1>13. \/ y < Low(Height, VerImages, r) /\ RowLine(r, tx) >= y
       \/ y > High(Height, VerImages, r) /\ RowLine(r + 1, tx) <= y
  <2>1. ColumnLine(c, y) < tx /\ tx < ColumnLine(c + 1, y)  BY <1>1, <1>3, <1>5, <1>9, <1>12
  <2>2. ~(RowLine(r, tx) < y /\ y < RowLine(r + 1, tx))  BY <1>1, <1>5, <1>7, <2>1 DEF InCell
  <2> QED BY <1>1, <1>4, <1>9, <2>2
<1>14. \/ x < Low(Width, HorImages, c) /\ ColumnLine(c, ty) >= x
       \/ x > High(Width, HorImages, c) /\ ColumnLine(c + 1, ty) <= x
  <2>1. RowLine(r, x) < ty /\ ty < RowLine(r + 1, x)  BY <1>1, <1>4, <1>6, <1>9, <1>12
  <2>2. ~(ColumnLine(c, ty) < x /\ x < ColumnLine(c + 1, ty))  BY <1>1, <1>6, <1>7, <2>1 DEF InCell
  <2> QED BY <1>1, <1>3, <1>9, <2>2
<1>15. \E u \in Int : u - x \in {-1, 0, 1} /\ <<u, y>> \in OnVertical
  <2>1. CASE x < Low(Width, HorImages, c) /\ ColumnLine(c, ty) >= x
    <3>1. ColumnLine(c, y) = x - 1  BY <1>1, <1>9, <1>10, <1>12, <2>1
    <3>2. x - 1 \in Int /\ ((x - 1) - x) \in {-1, 0, 1}  BY <1>1
    <3>3. x - 1 >= 0
      <4>1. c # 0
        <5>1. ASSUME c = 0 PROVE FALSE
          <6>1. ColumnLine(c, ty) = -1  BY <5>1 DEF ColumnLine, At
          <6> QED BY <1>1, <2>1, <6>1
        <5> QED BY <5>1
      <4>2. x > ColumnLine(c, y) /\ ColumnLine(c, y) >= 0
        <5>1. 0 \in 0 .. HorImages /\ 0 < c  BY <1>8, <4>1, SizesOfDivision DEF Columns
        <5>2. /\ Width \in Nat /\ Height \in Nat /\ IsDivision(Width, HorImages)
              /\ LinesAreDrawn(vertical, Width, HorImages, Height)  BY SizesOfDivision DEF LinesAreFixed
        <5>3. At(vertical, Width, HorImages, 0, y) < At(vertical, Width, HorImages, c, y)
          BY <1>1, <1>8, <5>1, <5>2, LinesInOrder
        <5>4. At(vertical, Width, HorImages, 0, y) = -1  BY DEF At
        <5> QED BY <1>9, <1>12, <5>3, <5>4 DEF ColumnLine
      <4> QED BY <1>1, <1>9, <4>2
    <3>4. x - 1 \in 0 .. Width - 1  BY <1>1, <3>3
    <3>5. <<x - 1, y>> \in OnVertical  BY <1>1, <1>8, <3>1, <3>4, OnColumnLine
    <3> QED BY <3>2, <3>5
  <2>2. CASE x > High(Width, HorImages, c) /\ ColumnLine(c + 1, ty) <= x
    <3>1. ColumnLine(c + 1, y) = x + 1  BY <1>1, <1>9, <1>10, <1>12, <2>2
    <3>2. x + 1 \in Int /\ ((x + 1) - x) \in {-1, 0, 1}  BY <1>1
    <3>3. c + 1 # HorImages
      <4>1. ASSUME c + 1 = HorImages PROVE FALSE
        <5>1. ColumnLine(c + 1, ty) = Width  BY <4>1, SizesOfDivision DEF ColumnLine, At
        <5> QED BY <1>1, <2>2, <5>1
      <4> QED BY <4>1
    <3>4. x + 1 <= Width - 1
      <4>1. HorImages \in 0 .. HorImages /\ c + 1 < HorImages  BY <1>8, <3>3, SizesOfDivision
      <4>2. /\ Width \in Nat /\ Height \in Nat /\ IsDivision(Width, HorImages)
            /\ LinesAreDrawn(vertical, Width, HorImages, Height)  BY SizesOfDivision DEF LinesAreFixed
      <4>3. At(vertical, Width, HorImages, c + 1, y) < At(vertical, Width, HorImages, HorImages, y)
        BY <1>1, <1>8, <4>1, <4>2, LinesInOrder
      <4>4. At(vertical, Width, HorImages, HorImages, y) = Width  BY SizesOfDivision DEF At
      <4> QED BY <1>1, <3>1, <4>3, <4>4 DEF ColumnLine
    <3>5. x + 1 \in 0 .. Width - 1  BY <1>1, <3>4
    <3>6. <<x + 1, y>> \in OnVertical  BY <1>1, <1>8, <3>1, <3>5, OnColumnLine
    <3> QED BY <3>2, <3>6
  <2> QED BY <1>14, <2>1, <2>2
<1>16. \E v \in Int : v - y \in {-1, 0, 1} /\ <<x, v>> \in OnHorizontal
  <2>1. CASE y < Low(Height, VerImages, r) /\ RowLine(r, tx) >= y
    <3>1. RowLine(r, x) = y - 1  BY <1>1, <1>9, <1>11, <1>12, <2>1
    <3>2. y - 1 \in Int /\ ((y - 1) - y) \in {-1, 0, 1}  BY <1>1
    <3>3. r # 0
      <4>1. ASSUME r = 0 PROVE FALSE
        <5>1. RowLine(r, tx) = -1  BY <4>1 DEF RowLine, At
        <5> QED BY <1>1, <2>1, <5>1
      <4> QED BY <4>1
    <3>4. y - 1 >= 0
      <4>1. 0 \in 0 .. VerImages /\ 0 < r  BY <1>8, <3>3, SizesOfDivision DEF RowsOfCells
      <4>2. /\ Width \in Nat /\ Height \in Nat /\ IsDivision(Height, VerImages)
            /\ LinesAreDrawn(horizontal, Height, VerImages, Width)  BY SizesOfDivision DEF LinesAreFixed
      <4>3. At(horizontal, Height, VerImages, 0, x) < At(horizontal, Height, VerImages, r, x)
        BY <1>1, <1>8, <4>1, <4>2, LinesInOrder
      <4>4. At(horizontal, Height, VerImages, 0, x) = -1  BY DEF At
      <4> QED BY <1>1, <3>1, <4>3, <4>4 DEF RowLine
    <3>5. y - 1 \in 0 .. Height - 1  BY <1>1, <3>4
    <3>6. <<x, y - 1>> \in OnHorizontal  BY <1>1, <1>8, <3>1, <3>5, OnRowLine
    <3> QED BY <3>2, <3>6
  <2>2. CASE y > High(Height, VerImages, r) /\ RowLine(r + 1, tx) <= y
    <3>1. RowLine(r + 1, x) = y + 1  BY <1>1, <1>9, <1>11, <1>12, <2>2
    <3>2. y + 1 \in Int /\ ((y + 1) - y) \in {-1, 0, 1}  BY <1>1
    <3>3. r + 1 # VerImages
      <4>1. ASSUME r + 1 = VerImages PROVE FALSE
        <5>1. RowLine(r + 1, tx) = Height  BY <4>1, SizesOfDivision DEF RowLine, At
        <5> QED BY <1>1, <2>2, <5>1
      <4> QED BY <4>1
    <3>4. y + 1 <= Height - 1
      <4>1. VerImages \in 0 .. VerImages /\ r + 1 < VerImages  BY <1>8, <3>3, SizesOfDivision
      <4>2. /\ Width \in Nat /\ Height \in Nat /\ IsDivision(Height, VerImages)
            /\ LinesAreDrawn(horizontal, Height, VerImages, Width)  BY SizesOfDivision DEF LinesAreFixed
      <4>3. At(horizontal, Height, VerImages, r + 1, x) < At(horizontal, Height, VerImages, VerImages, x)
        BY <1>1, <1>8, <4>1, <4>2, LinesInOrder
      <4>4. At(horizontal, Height, VerImages, VerImages, x) = Height  BY SizesOfDivision DEF At
      <4> QED BY <1>1, <3>1, <4>3, <4>4 DEF RowLine
    <3>5. y + 1 \in 0 .. Height - 1  BY <1>1, <3>4
    <3>6. <<x, y + 1>> \in OnHorizontal  BY <1>1, <1>8, <3>1, <3>5, OnRowLine
    <3> QED BY <3>2, <3>6
  <2> QED BY <1>13, <2>1, <2>2
<1> QED BY <1>15, <1>16 DEF NearBoth
\* Each pixel that is on no line is in one cell, and lines are in none.
LEMMA InSomeCell ==
  ASSUME LinesAreFixed, NEW x, NEW y, <<x, y>> \in ImagePixels \ DividingLines
  PROVE  \E c \in Columns, r \in RowsOfCells : InCell(c, r, x, y)
<1>1. x \in 0 .. Width - 1 /\ y \in 0 .. Height - 1 /\ Width \in Nat /\ Height \in Nat
  BY SizesOfDivision DEF ImagePixels
<1>2. /\ IsDivision(Width, HorImages) /\ LinesAreDrawn(vertical, Width, HorImages, Height)
      /\ IsDivision(Height, VerImages) /\ LinesAreDrawn(horizontal, Height, VerImages, Width)
  BY SizesOfDivision DEF LinesAreFixed
<1>3. PICK c \in Columns : ColumnLine(c, y) <= x /\ x < ColumnLine(c + 1, y)
  BY <1>1, <1>2, BetweenLines DEF Columns, ColumnLine
<1>4. PICK r \in RowsOfCells : RowLine(r, x) <= y /\ y < RowLine(r + 1, x)
  BY <1>1, <1>2, BetweenLines DEF RowsOfCells, RowLine
<1>5. c \in 0 .. HorImages /\ r \in 0 .. VerImages  BY SizesOfDivision DEF Columns, RowsOfCells
<1>6. ColumnLine(c, y) # x /\ RowLine(r, x) # y  BY <1>1, <1>5, OnColumnLine, OnRowLine DEF DividingLines
<1>7. ColumnLine(c, y) \in Int /\ RowLine(r, x) \in Int  BY <1>1, ColumnBounds, RowBounds
<1> QED BY <1>1, <1>3, <1>4, <1>6, <1>7 DEF InCell

LEMMA ColumnOrder ==
  ASSUME LinesAreFixed, NEW c \in 0 .. HorImages, NEW d \in 0 .. HorImages, c < d, NEW y \in 0 .. Height - 1
  PROVE  ColumnLine(c, y) < ColumnLine(d, y) /\ ColumnLine(c, y) \in Int /\ ColumnLine(d, y) \in Int
<1>1. /\ Width \in Nat /\ Height \in Nat
      /\ IsDivision(Width, HorImages) /\ LinesAreDrawn(vertical, Width, HorImages, Height)
  BY SizesOfDivision DEF LinesAreFixed
<1> QED BY <1>1, LinesInOrder, LinesInTheirRange DEF ColumnLine
LEMMA RowOrder ==
  ASSUME LinesAreFixed, NEW c \in 0 .. VerImages, NEW d \in 0 .. VerImages, c < d, NEW x \in 0 .. Width - 1
  PROVE  RowLine(c, x) < RowLine(d, x) /\ RowLine(c, x) \in Int /\ RowLine(d, x) \in Int
<1>1. /\ Width \in Nat /\ Height \in Nat
      /\ IsDivision(Height, VerImages) /\ LinesAreDrawn(horizontal, Height, VerImages, Width)
  BY SizesOfDivision DEF LinesAreFixed
<1> QED BY <1>1, LinesInOrder, LinesInTheirRange DEF RowLine

\* What lies between two lines is on neither these nor any other, nor between others.
LEMMA OneColumn ==
  ASSUME LinesAreFixed, NEW c \in Columns, NEW k \in 0 .. HorImages, NEW y \in 0 .. Height - 1, NEW x \in Int,
         ColumnLine(c, y) < x, x < ColumnLine(c + 1, y)
  PROVE  /\ ColumnLine(k, y) \in Int /\ ColumnLine(k, y) # x
         /\ ColumnLine(k, y) < x => k <= c
         /\ x < ColumnLine(k, y) => c < k
<1>1. c \in 0 .. HorImages /\ c + 1 \in 0 .. HorImages /\ c < c + 1  BY SizesOfDivision DEF Columns
<1>2. ColumnLine(c, y) \in Int /\ ColumnLine(c + 1, y) \in Int  BY <1>1, ColumnOrder
<1>3. k < c \/ k = c \/ k = c + 1 \/ c + 1 < k  BY <1>1
<1>4. CASE k < c
  <2>1. ColumnLine(k, y) < ColumnLine(c, y) /\ ColumnLine(k, y) \in Int  BY <1>1, <1>4, ColumnOrder
  <2> QED BY <1>1, <1>2, <1>4, <2>1
<1>5. CASE c + 1 < k
  <2>1. ColumnLine(c + 1, y) < ColumnLine(k, y) /\ ColumnLine(k, y) \in Int  BY <1>1, <1>5, ColumnOrder
  <2> QED BY <1>1, <1>2, <1>5, <2>1
<1>6. CASE k = c \/ k = c + 1  BY <1>1, <1>2, <1>6
<1> QED BY <1>3, <1>4, <1>5, <1>6
LEMMA OneRow ==
  ASSUME LinesAreFixed, NEW c \in RowsOfCells, NEW k \in 0 .. VerImages, NEW x \in 0 .. Width - 1, NEW y \in Int,
         RowLine(c, x) < y, y < RowLine(c + 1, x)
  PROVE  /\ RowLine(k, x) \in Int /\ RowLine(k, x) # y
         /\ RowLine(k, x) < y => k <= c
         /\ y < RowLine(k, x) => c < k
<1>1. c \in 0 .. VerImages /\ c + 1 \in 0 .. VerImages /\ c < c + 1  BY SizesOfDivision DEF RowsOfCells
<1>2. RowLine(c, x) \in Int /\ RowLine(c + 1, x) \in Int  BY <1>1, RowOrder
<1>3. k < c \/ k = c \/ k = c + 1 \/ c + 1 < k  BY <1>1
<1>4. CASE k < c
  <2>1. RowLine(k, x) < RowLine(c, x) /\ RowLine(k, x) \in Int  BY <1>1, <1>4, RowOrder
  <2> QED BY <1>1, <1>2, <1>4, <2>1
<1>5. CASE c + 1 < k
  <2>1. RowLine(c + 1, x) < RowLine(k, x) /\ RowLine(k, x) \in Int  BY <1>1, <1>5, RowOrder
  <2> QED BY <1>1, <1>2, <1>5, <2>1
<1>6. CASE k = c \/ k = c + 1  BY <1>1, <1>2, <1>6
<1> QED BY <1>3, <1>4, <1>5, <1>6

LEMMA CellsApart ==
  ASSUME LinesAreFixed, NEW c \in Columns, NEW r \in RowsOfCells, NEW x, NEW y, InCell(c, r, x, y)
  PROVE  /\ <<x, y>> \in ImagePixels \ DividingLines
         /\ \A d \in Columns, s \in RowsOfCells : InCell(d, s, x, y) => d = c /\ s = r
<1>1. /\ x \in 0 .. Width - 1 /\ y \in 0 .. Height - 1 /\ x \in Int /\ y \in Int
      /\ ColumnLine(c, y) < x /\ x < ColumnLine(c + 1, y) /\ RowLine(r, x) < y /\ y < RowLine(r + 1, x)
  BY SizesOfDivision DEF InCell
<1>2. <<x, y>> \notin OnVertical
  <2> SUFFICES ASSUME <<x, y>> \in OnVertical PROVE FALSE  OBVIOUS
  <2>1. PICK k \in 1 .. HorImages - 1 : ColumnLine(k, y) = x  BY ColumnLineOf
  <2>2. k \in 0 .. HorImages  BY SizesOfDivision
  <2> QED BY <1>1, <2>1, <2>2, OneColumn
<1>3. <<x, y>> \notin OnHorizontal
  <2> SUFFICES ASSUME <<x, y>> \in OnHorizontal PROVE FALSE  OBVIOUS
  <2>1. PICK k \in 1 .. VerImages - 1 : RowLine(k, x) = y  BY RowLineOf
  <2>2. k \in 0 .. VerImages  BY SizesOfDivision
  <2> QED BY <1>1, <2>1, <2>2, OneRow
<1>4. ASSUME NEW d \in Columns, NEW s \in RowsOfCells, InCell(d, s, x, y)
      PROVE  d = c /\ s = r
  <2>1. ColumnLine(d, y) < x /\ x < ColumnLine(d + 1, y) /\ RowLine(s, x) < y /\ y < RowLine(s + 1, x)
    BY <1>4 DEF InCell
  <2>2. /\ c \in 0 .. HorImages /\ d \in 0 .. HorImages /\ d + 1 \in 0 .. HorImages
        /\ r \in 0 .. VerImages /\ s \in 0 .. VerImages /\ s + 1 \in 0 .. VerImages
    BY SizesOfDivision DEF Columns, RowsOfCells
  <2>3. d <= c /\ c < d + 1  BY <1>1, <2>1, <2>2, OneColumn
  <2>4. s <= r /\ r < s + 1  BY <1>1, <2>1, <2>2, OneRow
  <2> QED BY <2>2, <2>3, <2>4
<1> QED BY <1>1, <1>2, <1>3, <1>4 DEF ImagePixels, DividingLines

----
(* The division of an image: what a fill reaches *)

Beside(x, y, u, v) == (u - x \in {-1, 0, 1} /\ v = y) \/ (u = x /\ v - y \in {-1, 0, 1})
SpreadsIn(M, c, r) ==
  \A x, y, u, v \in Int : <<x, y>> \in M /\ InCell(c, r, x, y) /\ InCell(c, r, u, v) /\ Beside(x, y, u, v) => <<u, v>> \in M

Distance(n, m) == IF n < m THEN m - n ELSE n - m
\* A set that spreads from the middle has every pixel that a step leads from: there is no
\* nearest one that it lacks.
LEMMA CellIsReached ==
  ASSUME LinesAreFixed, NEW c \in Columns, NEW r \in RowsOfCells, NEW M, SpreadsIn(M, c, r),
         <<MiddleX(c), MiddleY(r)>> \in M, NEW x, NEW y, Leads(c, r, x, y)
  PROVE  <<x, y>> \in M
<1> DEFINE Away(u, v) == Distance(u, MiddleX(c)) + Distance(v, MiddleY(r))
           Lacks(u, v) == Leads(c, r, u, v) /\ <<u, v>> \notin M
           Ns == {n \in Nat : \E u, v \in Int : Lacks(u, v) /\ Away(u, v) = n}
<1>1. MiddleX(c) \in Int /\ MiddleY(r) \in Int  BY ColumnBounds, RowBounds
<1>2. ASSUME NEW u, NEW v, Leads(c, r, u, v) PROVE u \in Int /\ v \in Int /\ InCell(c, r, u, v)
  BY <1>2, SizesOfDivision DEF Leads, InCell
<1>3. ASSUME NEW u \in Int, NEW v \in Int PROVE Away(u, v) \in Nat  BY <1>1 DEF Distance
<1>4. SUFFICES ASSUME Lacks(x, y) PROVE FALSE  OBVIOUS
<1>5. Ns # {} /\ Ns \subseteq Nat  BY <1>2, <1>3, <1>4
<1>6. PICK n \in Ns : \A m \in Ns : n <= m
  <2> HIDE DEF Ns
  <2> QED BY <1>5, LeastElement
<1>7. PICK u \in Int, v \in Int : Lacks(u, v) /\ Away(u, v) = n  BY <1>6
<1> DEFINE tu == Toward(u, MiddleX(c))
           tv == Toward(v, MiddleY(r))
<1>8. \/ u # MiddleX(c) /\ Leads(c, r, tu, v)
      \/ v # MiddleY(r) /\ Leads(c, r, u, tv)  BY <1>7, LeadsOn
<1>9. tu \in Int /\ tv \in Int  BY <1>1 DEF Toward
<1>10. /\ u # MiddleX(c) => Away(tu, v) < Away(u, v) /\ Beside(tu, v, u, v)
       /\ v # MiddleY(r) => Away(u, tv) < Away(u, v) /\ Beside(u, tv, u, v)  BY <1>1 DEF Toward, Distance, Beside
<1> HIDE DEF tu, tv
<1>11. ASSUME NEW a \in Int, NEW b \in Int, Leads(c, r, a, b), Away(a, b) < Away(u, v), Beside(a, b, u, v) PROVE FALSE
  <2>1. Away(a, b) \in Nat /\ Away(u, v) \in Nat  BY <1>3
  <2>2. Away(a, b) \notin Ns
    <3> HIDE DEF Ns
    <3> QED BY <1>6, <1>7, <1>11, <2>1
  <2>3. <<a, b>> \in M  BY <1>11, <2>1, <2>2
  <2>4. InCell(c, r, a, b) /\ InCell(c, r, u, v)  BY <1>2, <1>7, <1>11
  <2> QED BY <1>7, <1>11, <2>3, <2>4 DEF SpreadsIn
<1> QED BY <1>8, <1>9, <1>10, <1>11
\* A recursive fill finds the least set with what it starts from that does not spread: this
\* set is a solution, and no set is the largest for which a solution finds another.
Filling(P, new, f) == [S \in SUBSET P |-> IF new[S] \subseteq S THEN S ELSE f[S \cup new[S]]]
Steady(P, new, S) == {T \in SUBSET P : S \subseteq T /\ new[T] \subseteq T}
LEMMA FillIsLeast ==
  ASSUME NEW P, IsFiniteSet(P), NEW new \in [SUBSET P -> SUBSET P],
         \A S, T \in SUBSET P : S \subseteq T => new[S] \subseteq new[T],
         NEW f, f = CHOOSE g : g = Filling(P, new, g), NEW S \in SUBSET P
  PROVE  f[S] \in Steady(P, new, S) /\ \A T \in Steady(P, new, S) : f[S] \subseteq T
<1> DEFINE least == [R \in SUBSET P |-> {x \in P : \A T \in Steady(P, new, R) : x \in T}]
<1>1. least = Filling(P, new, least)
  <2>1. ASSUME NEW R \in SUBSET P PROVE least[R] = IF new[R] \subseteq R THEN R ELSE least[R \cup new[R]]
    <3>1. R \cup new[R] \in SUBSET P  OBVIOUS
    <3>2. ASSUME new[R] \subseteq R PROVE least[R] = R  BY <3>2 DEF Steady
    <3>3. Steady(P, new, R) = Steady(P, new, R \cup new[R])  BY DEF Steady
    <3>4. least[R] = least[R \cup new[R]]  BY <3>1, <3>3
    <3> HIDE DEF least
    <3> QED BY <3>2, <3>4
  <2> HIDE DEF least
  <2>2. least = [R \in SUBSET P |-> least[R]]  BY DEF least
  <2> QED BY <2>1, <2>2 DEF Filling
<1> HIDE DEF least
<1>2. f = Filling(P, new, f)  BY <1>1
<1>3. ASSUME NEW R \in SUBSET P PROVE f[R] = IF new[R] \subseteq R THEN R ELSE f[R \cup new[R]]  BY <1>2 DEF Filling
<1> DEFINE Right(R) == f[R] \in Steady(P, new, R) /\ \A T \in Steady(P, new, R) : f[R] \subseteq T
           Bounds == {n \in Nat : \E R \in SUBSET P : ~Right(R) /\ Cardinality(P \ R) = n}
<1>4. ASSUME NEW R \in SUBSET P PROVE IsFiniteSet(P \ R) /\ Cardinality(P \ R) \in Nat
  <2>1. P \ R \subseteq P  OBVIOUS
  <2> QED BY <2>1, FS_Subset, FS_CardinalityType
<1>5. SUFFICES ASSUME ~Right(S) PROVE FALSE  OBVIOUS
<1>6. Bounds \subseteq Nat /\ Bounds # {}
  <2> HIDE DEF Right
  <2> QED BY <1>4, <1>5
<1>7. PICK n \in Bounds : \A m \in Bounds : n <= m
  <2> HIDE DEF Bounds
  <2> QED BY <1>6, LeastElement
<1>8. PICK R \in SUBSET P : ~Right(R) /\ Cardinality(P \ R) = n  BY <1>7
<1>9. CASE new[R] \subseteq R
  <2>1. f[R] = R  BY <1>3, <1>9
  <2>2. Right(R)  BY <1>9, <2>1 DEF Steady
  <2> QED BY <1>8, <2>2
<1>10. CASE ~(new[R] \subseteq R)
  <2> DEFINE larger == R \cup new[R]
  <2>1. larger \in SUBSET P /\ f[R] = f[larger]  BY <1>3, <1>10
  <2>2. Steady(P, new, R) = Steady(P, new, larger)  BY DEF Steady
  <2>3. P \ larger \subseteq P \ R /\ P \ larger # P \ R  BY <1>10
  <2>4. Cardinality(P \ larger) < Cardinality(P \ R)
    <3> SUFFICES ASSUME NEW A, NEW B, A \subseteq B, A # B, IsFiniteSet(B) PROVE Cardinality(A) < Cardinality(B)
      <4> HIDE DEF larger, Right, Bounds
      <4> QED BY <1>4, <2>3
    <3> HIDE DEF larger, Right, Bounds
    <3>1. IsFiniteSet(A) /\ Cardinality(A) <= Cardinality(B) /\ (Cardinality(B) = Cardinality(A) => B = A)
      BY FS_Subset
    <3>2. Cardinality(A) \in Nat /\ Cardinality(B) \in Nat  BY <3>1, FS_CardinalityType
    <3> QED BY <3>1, <3>2
  <2>5. ~Right(larger)
    <3> HIDE DEF larger
    <3> QED BY <1>8, <2>1, <2>2
  <2>6. Cardinality(P \ larger) \in Bounds
    <3> HIDE DEF larger, Right
    <3> QED BY <1>4, <2>1, <2>5
  <2>7. Cardinality(P \ larger) \in Nat /\ n \in Nat
    <3> HIDE DEF larger
    <3> QED BY <1>4, <2>1, <1>6, <1>7
  <2> HIDE DEF larger, Bounds
  <2> QED BY <1>7, <1>8, <2>4, <2>6, <2>7
<1> QED BY <1>9, <1>10

LEMMA PixelsAreFinite == IsFiniteSet(ImagePixels)
<1>1. IsFiniteSet(0 .. Width - 1) /\ IsFiniteSet(0 .. Height - 1)  BY SizesOfDivision, FS_Interval
<1> QED BY <1>1, FS_Product DEF ImagePixels

Goes(p) == Neighbours(DividingLines)[p]
Encloses(T, seed) == seed \in T /\ \A p \in T \ DividingLines : Goes(p) \ visited \subseteq T
LEMMA WhatIsFilled ==
  ASSUME NEW seed \in ImagePixels \ visited
  PROVE  /\ FloodFill(seed) \subseteq ImagePixels /\ Encloses(FloodFill(seed), seed)
         /\ \A T \in SUBSET ImagePixels : Encloses(T, seed) => FloodFill(seed) \subseteq T
<1> DEFINE New(S) == (UNION {Neighbours(DividingLines)[p] : p \in {q \in S : StopsAtLine(q, DividingLines)}}) \ visited
           Fill == CHOOSE g : g = [S \in SUBSET ImagePixels |-> IF New(S) \subseteq S THEN S ELSE g[S \cup New(S)]]
           new == [S \in SUBSET ImagePixels |-> New(S)]
<1>1. FloodFill(seed) = Fill[{seed}]  BY DEF FloodFill
<1>2. ASSUME NEW p \in ImagePixels PROVE Goes(p) \subseteq ImagePixels  BY <1>2 DEF Goes, Neighbours
<1>3. ASSUME NEW S \in SUBSET ImagePixels
      PROVE  /\ New(S) \in SUBSET ImagePixels
             /\ \A x : x \in New(S) <=> x \notin visited /\ \E p \in S \ DividingLines : x \in Goes(p)
  <2>1. \A x : x \in New(S) <=> x \notin visited /\ \E p \in S \ DividingLines : x \in Goes(p)
    BY DEF Goes, StopsAtLine
  <2> HIDE DEF New
  <2> QED BY <1>2, <2>1
<1> HIDE DEF New
<1>4. new \in [SUBSET ImagePixels -> SUBSET ImagePixels] /\ \A S \in SUBSET ImagePixels : new[S] = New(S)  BY <1>3
<1>5. \A S, T \in SUBSET ImagePixels : S \subseteq T => new[S] \subseteq new[T]  BY <1>3, <1>4
<1>6. ASSUME NEW g
      PROVE  [S \in SUBSET ImagePixels |-> IF New(S) \subseteq S THEN S ELSE g[S \cup New(S)]] = Filling(ImagePixels, new, g)
  BY DEF Filling
<1>7. Fill = CHOOSE g : g = Filling(ImagePixels, new, g)  BY <1>6
<1> HIDE DEF new, Fill
<1>8. {seed} \in SUBSET ImagePixels  OBVIOUS
<1>9. /\ Fill[{seed}] \in Steady(ImagePixels, new, {seed})
      /\ \A T \in Steady(ImagePixels, new, {seed}) : Fill[{seed}] \subseteq T
  BY <1>4, <1>5, <1>7, <1>8, FillIsLeast, PixelsAreFinite
<1>10. ASSUME NEW T \in SUBSET ImagePixels PROVE T \in Steady(ImagePixels, new, {seed}) <=> Encloses(T, seed)
  <2>1. new[T] \subseteq T <=> \A p \in T \ DividingLines : Goes(p) \ visited \subseteq T  BY <1>3, <1>4
  <2> QED BY <2>1 DEF Steady, Encloses
<1>11. Fill[{seed}] \in SUBSET ImagePixels  BY <1>9 DEF Steady
<1> QED BY <1>1, <1>9, <1>10, <1>11
----
(* The division of an image: its masks *)

LEMMA MiddleInCell ==
  ASSUME LinesAreFixed, NEW c \in Columns, NEW r \in RowsOfCells
  PROVE  InCell(c, r, MiddleX(c), MiddleY(r)) /\ <<MiddleX(c), MiddleY(r)>> \in ImagePixels \ DividingLines
<1>1. MiddleX(c) \in 0 .. Width - 1 /\ MiddleY(r) \in 0 .. Height - 1
  BY ColumnBounds, RowBounds, SizesOfDivision DEF CoreX, CoreY, Core
<1>2. /\ ColumnLine(c, MiddleY(r)) < MiddleX(c) /\ MiddleX(c) < ColumnLine(c + 1, MiddleY(r))
  BY <1>1, ColumnBounds DEF CoreX, Core
<1>3. /\ RowLine(r, MiddleX(c)) < MiddleY(r) /\ MiddleY(r) < RowLine(r + 1, MiddleX(c))
  BY <1>1, RowBounds DEF CoreY, Core
<1>4. InCell(c, r, MiddleX(c), MiddleY(r))  BY <1>1, <1>2, <1>3 DEF InCell
<1> QED BY <1>4, CellsApart

\* What is beside a pixel of a cell, and on no line, is in the same cell.
LEMMA StaysInCell ==
  ASSUME LinesAreFixed, NEW c \in Columns, NEW r \in RowsOfCells, NEW x, NEW y, InCell(c, r, x, y),
         NEW u, NEW v, Beside(x, y, u, v), <<u, v>> \in ImagePixels \ DividingLines
  PROVE  InCell(c, r, u, v)
<1>1. /\ x \in 0 .. Width - 1 /\ y \in 0 .. Height - 1 /\ u \in 0 .. Width - 1 /\ v \in 0 .. Height - 1
      /\ ColumnLine(c, y) < x /\ x < ColumnLine(c + 1, y) /\ RowLine(r, x) < y /\ y < RowLine(r + 1, x)
      /\ x \in Int /\ y \in Int /\ u \in Int /\ v \in Int  BY SizesOfDivision DEF InCell, ImagePixels
<1>2. c \in 0 .. HorImages /\ c + 1 \in 0 .. HorImages /\ r \in 0 .. VerImages /\ r + 1 \in 0 .. VerImages
  BY SizesOfDivision DEF Columns, RowsOfCells
<1>3. <<u, v>> \notin OnVertical /\ <<u, v>> \notin OnHorizontal  BY DEF DividingLines
<1>4. ColumnLine(c, v) # u /\ ColumnLine(c + 1, v) # u  BY <1>1, <1>2, <1>3, OnColumnLine
<1>5. RowLine(r, u) # v /\ RowLine(r + 1, u) # v  BY <1>1, <1>2, <1>3, OnRowLine
<1>6. v - y \in {-1, 0, 1} /\ u - x \in {-1, 0, 1} /\ (u = x \/ v = y)  BY <1>1 DEF Beside
<1>7. /\ ColumnLine(c, v) - ColumnLine(c, y) \in {-1, 0, 1} /\ ColumnLine(c, v) \in Int /\ ColumnLine(c, y) \in Int
      /\ ColumnLine(c + 1, v) - ColumnLine(c + 1, y) \in {-1, 0, 1}
      /\ ColumnLine(c + 1, v) \in Int /\ ColumnLine(c + 1, y) \in Int  BY <1>1, <1>2, <1>6, ColumnMoves
<1>8. /\ RowLine(r, u) - RowLine(r, x) \in {-1, 0, 1} /\ RowLine(r, u) \in Int /\ RowLine(r, x) \in Int
      /\ RowLine(r + 1, u) - RowLine(r + 1, x) \in {-1, 0, 1}
      /\ RowLine(r + 1, u) \in Int /\ RowLine(r + 1, x) \in Int  BY <1>1, <1>2, <1>6, RowMoves
<1>9. ColumnLine(c, v) < u /\ u < ColumnLine(c + 1, v)  BY <1>1, <1>4, <1>6, <1>7
<1>10. RowLine(r, u) < v /\ v < RowLine(r + 1, u)  BY <1>1, <1>5, <1>6, <1>8
<1> QED BY <1>1, <1>9, <1>10 DEF InCell

\* Where a fill goes from a pixel on no line.
LEMMA WhereItGoes ==
  ASSUME NEW x \in 0 .. Width - 1, NEW y \in 0 .. Height - 1
  PROVE  /\ \A q \in Goes(<<x, y>>) : q \in ImagePixels /\ q = <<q[1], q[2]>> /\ Beside(x, y, q[1], q[2])
         /\ \A u, v : <<u, v>> \in ImagePixels /\ Beside(x, y, u, v) /\ <<u, v>> # <<x, y>>
                      /\ (<<u, v>> \notin DividingLines \/ u < x \/ v < y)
                      => <<u, v>> \in Goes(<<x, y>>)
<1>1. x \in Int /\ y \in Int /\ <<x, y>> \in ImagePixels  BY SizesOfDivision DEF ImagePixels
<1>2. Goes(<<x, y>>) = ImagePixels \cap ({<<x - 1, y>>, <<x, y - 1>>} \cup ({<<x + 1, y>>, <<x, y + 1>>} \ DividingLines))
  BY <1>1 DEF Goes, Neighbours
<1> HIDE DEF DividingLines, ImagePixels
<1>3. ASSUME NEW q \in Goes(<<x, y>>) PROVE q \in ImagePixels /\ q = <<q[1], q[2]>> /\ Beside(x, y, q[1], q[2])
  BY <1>1, <1>2, <1>3 DEF Beside
<1>4. ASSUME NEW u, NEW v, <<u, v>> \in ImagePixels, Beside(x, y, u, v), <<u, v>> # <<x, y>>,
             <<u, v>> \notin DividingLines \/ u < x \/ v < y
      PROVE  <<u, v>> \in Goes(<<x, y>>)
  <2>1. u \in Int /\ v \in Int  BY <1>4, SizesOfDivision DEF ImagePixels
  <2>2. (u = x - 1 /\ v = y) \/ (u = x + 1 /\ v = y) \/ (u = x /\ v = y - 1) \/ (u = x /\ v = y + 1)
    BY <1>1, <1>4, <2>1 DEF Beside
  <2>3. (u = x + 1 /\ v = y) \/ (u = x /\ v = y + 1) => <<u, v>> \notin DividingLines  BY <1>1, <1>4, <2>1
  <2> QED BY <1>2, <1>4, <2>2, <2>3
<1> QED BY <1>3, <1>4

MaskOf(M, c, r, taken) ==
  /\ M \subseteq ImagePixels /\ <<MiddleX(c), MiddleY(r)>> \in M
  /\ \A x, y : <<x, y>> \in M \ DividingLines => InCell(c, r, x, y) /\ Goes(<<x, y>>) \subseteq taken
LEMMA MaskIsOfCell ==
  ASSUME LinesAreFixed, NEW c \in Columns, NEW r \in RowsOfCells, visited \subseteq ImagePixels,
         NEW seed, seed = <<MiddleX(c), MiddleY(r)>>, seed \notin visited
  PROVE  MaskOf(FloodFill(seed), c, r, visited \cup FloodFill(seed)) /\ FloodFill(seed) \cap visited = {}
<1> DEFINE T == {p \in ImagePixels \ visited : p \in DividingLines \/ InCell(c, r, p[1], p[2])}
           M == FloodFill(seed)
<1>1. seed \in ImagePixels \ visited /\ seed \in T  BY MiddleInCell
<1>2. ASSUME NEW p \in T \ DividingLines, NEW q \in Goes(p) \ visited PROVE q \in T
  <2>1. p = <<p[1], p[2]>> /\ p[1] \in 0 .. Width - 1 /\ p[2] \in 0 .. Height - 1 /\ InCell(c, r, p[1], p[2])
    BY DEF ImagePixels
  <2> DEFINE x == p[1]
             y == p[2]
  <2>2. q \in ImagePixels /\ q = <<q[1], q[2]>> /\ Beside(x, y, q[1], q[2])
    <3>1. q \in Goes(<<x, y>>)  BY <2>1
    <3> HIDE DEF x, y
    <3>2. x \in 0 .. Width - 1 /\ y \in 0 .. Height - 1  BY <2>1 DEF x, y
    <3> QED BY <3>1, <3>2, WhereItGoes
  <2>3. ASSUME q \notin DividingLines PROVE InCell(c, r, q[1], q[2])  BY <2>1, <2>2, <2>3, StaysInCell
  <2> QED BY <2>2, <2>3
<1>3. T \in SUBSET ImagePixels /\ Encloses(T, seed)
  <2> HIDE DEF T
  <2>1. T \in SUBSET ImagePixels  BY DEF T
  <2> QED BY <1>1, <1>2, <2>1 DEF Encloses
<1>4. M \subseteq ImagePixels /\ Encloses(M, seed) /\ M \subseteq T
  <2> HIDE DEF T
  <2> QED BY <1>1, <1>3, WhatIsFilled
<1>5. M \cap visited = {}  BY <1>4
<1>6. ASSUME NEW x, NEW y, <<x, y>> \in M \ DividingLines
      PROVE  InCell(c, r, x, y) /\ Goes(<<x, y>>) \subseteq visited \cup M
  <2>1. InCell(c, r, x, y)  BY <1>4, <1>6
  <2>2. Goes(<<x, y>>) \ visited \subseteq M  BY <1>4, <1>6 DEF Encloses
  <2> QED BY <2>1, <2>2
<1> HIDE DEF M
<1>7. seed \in M  BY <1>4 DEF Encloses
<1> QED BY <1>4, <1>5, <1>6, <1>7 DEF MaskOf, M
\* The number of a cell, row by row.
ColumnOf(index) == index % HorImages
RowOf(index) == index \div HorImages
LEMMA CellOfIndex ==
  ASSUME NEW index \in 0 .. HorImages * VerImages - 1
  PROVE  /\ ColumnOf(index) \in Columns /\ RowOf(index) \in RowsOfCells
         /\ index = HorImages * RowOf(index) + ColumnOf(index)
         /\ Middle(index) = <<MiddleX(ColumnOf(index)), MiddleY(RowOf(index))>>
<1>1. HorImages \in Nat \ {0} /\ VerImages \in Nat \ {0} /\ Width \in Nat /\ Height \in Nat  BY SizesOfDivision
<1>2. HorImages * VerImages \in Nat /\ index \in Nat /\ index < HorImages * VerImages  BY <1>1
<1> DEFINE q == index \div HorImages
           m == index % HorImages
<1>3. /\ q \in Nat /\ HorImages * q <= index /\ index < HorImages * q + HorImages
      /\ m \in 0 .. HorImages - 1 /\ index = HorImages * q + m  BY <1>1, <1>2, Quotients
<1>4. q < VerImages
  <2> HIDE DEF q, m
  <2>1. ASSUME q >= VerImages PROVE FALSE
    <3>1. HorImages * VerImages <= HorImages * q /\ HorImages * q \in Nat  BY <1>1, <1>3, <2>1, ProductsInOrder
    <3> QED BY <1>2, <1>3, <3>1
  <2> QED BY <1>1, <1>3, <2>1
<1>5. (m * Width) \div HorImages = (Width * m) \div HorImages /\ (q * Height) \div VerImages = (Height * q) \div VerImages
  <2> HIDE DEF q, m
  <2>1. m * Width = Width * m /\ q * Height = Height * q  BY <1>1, <1>3
  <2> QED BY <2>1
<1>6. Middle(index) = <<MiddleX(m), MiddleY(q)>>
  <2>1. Middle(index) = <<(m * Width) \div HorImages + (Width \div HorImages) \div 2,
                          (q * Height) \div VerImages + (Height \div VerImages) \div 2>>  BY DEF Middle
  <2> HIDE DEF q, m
  <2> QED BY <1>5, <2>1 DEF MiddleX, MiddleY, Centre, Mid, Part
<1> HIDE DEF q, m
<1>7. ColumnOf(index) = m /\ RowOf(index) = q  BY DEF ColumnOf, RowOf, q, m
<1> QED BY <1>1, <1>3, <1>4, <1>6, <1>7 DEF Columns, RowsOfCells
LEMMA IndexOfCell ==
  ASSUME NEW c \in Columns, NEW r \in RowsOfCells
  PROVE  \E index \in 0 .. HorImages * VerImages - 1 : ColumnOf(index) = c /\ RowOf(index) = r
<1>1. HorImages \in Nat \ {0} /\ VerImages \in Nat \ {0} /\ c \in 0 .. HorImages - 1 /\ r \in 0 .. VerImages - 1
  BY SizesOfDivision DEF Columns, RowsOfCells
<1>2. HorImages * (r + 1) <= HorImages * VerImages /\ HorImages * VerImages \in Nat /\ HorImages * r \in Nat
  BY <1>1, ProductsInOrder
<1>3. HorImages * (r + 1) = HorImages * r + HorImages  BY <1>1
<1> DEFINE index == HorImages * r + c
<1>4. index \in 0 .. HorImages * VerImages - 1  BY <1>1, <1>2, <1>3
<1> HIDE DEF index
<1> DEFINE q == index \div HorImages
<1>5. q \in Nat /\ HorImages * q <= index /\ index < HorImages * q + HorImages /\ index % HorImages = index - HorImages * q
  BY <1>1, <1>4, Quotients
<1> HIDE DEF q
<1>6. ASSUME q < r PROVE FALSE
  <2>1. HorImages * (q + 1) <= HorImages * r /\ HorImages * (q + 1) = HorImages * q + HorImages /\ HorImages * q \in Nat
    BY <1>1, <1>5, <1>6, ProductsInOrder
  <2> QED BY <1>1, <1>2, <1>5, <2>1 DEF index
<1>7. ASSUME r < q PROVE FALSE
  <2>1. HorImages * (r + 1) <= HorImages * q /\ HorImages * q \in Nat  BY <1>1, <1>5, <1>7, ProductsInOrder
  <2> QED BY <1>1, <1>2, <1>3, <1>5, <2>1 DEF index
<1>8. q = r  BY <1>1, <1>5, <1>6, <1>7
<1>9. index % HorImages = c  BY <1>1, <1>2, <1>5, <1>8 DEF index
<1> QED BY <1>4, <1>8, <1>9 DEF ColumnOf, RowOf, q

\* A box around coordinates in the image is in the image.
Sides == [low : Int, extent : Int]
LEMMA SideInside ==
  ASSUME NEW size \in Nat \ {0}, NEW C \in SUBSET (0 .. size - 1)
  PROVE  Side(C, size) \in Sides /\ Inside(Side(C, size), size)
<1>1. CASE C = {}  BY <1>1 DEF Side, Sides, Inside
<1>2. CASE C # {}
  <2>1. Min(C) \in C
    <3>1. C \subseteq Nat  OBVIOUS
    <3>2. PICK n \in C : \A m \in C : n <= m  BY <1>2, <3>1, LeastElement
    <3> QED BY <3>2 DEF Min
  <2>2. Max(C) \in C
    <3> DEFINE Above == {k \in 0 .. size : \A m \in C : m <= k}
    <3>1. size \in Above /\ Above \subseteq Nat  OBVIOUS
    <3> HIDE DEF Above
    <3>2. PICK k \in Above : \A l \in Above : k <= l  BY <3>1, LeastElement
    <3>3. k \in 0 .. size /\ \A m \in C : m <= k  BY <3>2 DEF Above
    <3>4. k \in C
      <4>1. ASSUME k \notin C PROVE FALSE
        <5>1. PICK n \in C : TRUE  BY <1>2
        <5>2. \A m \in C : m <= k - 1  BY <3>3, <4>1
        <5>3. k - 1 \in Above  BY <3>3, <5>1, <5>2 DEF Above
        <5> QED BY <3>2, <3>3, <5>3
      <4> QED BY <4>1
    <3> QED BY <3>3, <3>4 DEF Max
  <2> DEFINE low == Min(C)
             extent == Max(C) - low
             side == Side(C, size)
  <2>3. /\ low \in Nat /\ extent \in Int /\ low + extent <= size - 1
        /\ extent % 2 \in {0, 1} /\ size % 2 \in {0, 1}
    <3> HIDE DEF low, extent, side
    <3>1. \A n \in C : n \in Int /\ 0 <= n /\ n <= size - 1  OBVIOUS
    <3>2. low \in Int /\ Max(C) \in Int /\ low >= 0 /\ Max(C) <= size - 1  BY <2>1, <2>2, <3>1 DEF low
    <3>3. low \in Nat /\ extent \in Int /\ low + extent <= size - 1  BY <3>2 DEF extent
    <3> QED BY <3>3
  <2>4. \/ side = [low |-> low, extent |-> extent]
        \/ extent + low >= size
        \/ side = [low |-> low, extent |-> extent + (extent % 2)]  BY <1>2 DEF Side, Even
  <2> HIDE DEF low, extent, side
  <2>5. ~(extent + low >= size)  BY <2>3
  <2>6. \/ side = [low |-> low, extent |-> extent]
        \/ side = [low |-> low, extent |-> extent + (extent % 2)]  BY <2>4, <2>5
  <2>7. side.low = low /\ side.low + side.extent <= size /\ side \in Sides  BY <2>3, <2>6 DEF Sides
  <2> QED BY <2>3, <2>7 DEF Inside, side
<1> QED BY <1>1, <1>2
Cells == [k \in Columns \X RowsOfCells |-> {p \in ImagePixels : InCell(k[1], k[2], p[1], p[2])}]
IsMask(M, c, r, cells, lines, taken) ==
  /\ M \subseteq ImagePixels /\ <<MiddleX(c), MiddleY(r)>> \in M
  /\ \A p \in M \ lines : p \in cells[<<c, r>>] /\ Neighbours(lines)[p] \subseteq taken
LEMMA MaskIsMask ==
  ASSUME NEW c \in Columns, NEW r \in RowsOfCells, NEW M, NEW taken
  PROVE  MaskOf(M, c, r, taken) <=> IsMask(M, c, r, Cells, DividingLines, taken)
<1>1. ASSUME NEW x, NEW y, <<x, y>> \in ImagePixels PROVE <<x, y>> \in Cells[<<c, r>>] <=> InCell(c, r, x, y)
  <2>1. <<c, r>> \in Columns \X RowsOfCells  OBVIOUS
  <2>2. Cells[<<c, r>>] = {p \in ImagePixels : InCell(c, r, p[1], p[2])}  BY <2>1 DEF Cells
  <2> HIDE DEF Cells
  <2> QED BY <1>1, <2>2
<1>2. \A p \in ImagePixels : p = <<p[1], p[2]>>  BY DEF ImagePixels
<1>3. M \subseteq ImagePixels => \A p \in M : p = <<p[1], p[2]>> /\ p \in ImagePixels  BY <1>2
<1>4. ASSUME MaskOf(M, c, r, taken) PROVE IsMask(M, c, r, Cells, DividingLines, taken)
  <2> SUFFICES ASSUME NEW p \in M \ DividingLines
               PROVE  p \in Cells[<<c, r>>] /\ Neighbours(DividingLines)[p] \subseteq taken
    BY <1>4 DEF MaskOf, IsMask
  <2>1. p = <<p[1], p[2]>> /\ p \in ImagePixels  BY <1>3, <1>4 DEF MaskOf
  <2> DEFINE x == p[1]
             y == p[2]
  <2>2. <<x, y>> \in M \ DividingLines /\ p = <<x, y>>  BY <2>1
  <2> HIDE DEF x, y
  <2>3. InCell(c, r, x, y) /\ Goes(<<x, y>>) \subseteq taken  BY <1>4, <2>2 DEF MaskOf
  <2> QED BY <1>1, <2>1, <2>2, <2>3 DEF Goes
<1>5. ASSUME IsMask(M, c, r, Cells, DividingLines, taken) PROVE MaskOf(M, c, r, taken)
  <2> SUFFICES ASSUME NEW x, NEW y, <<x, y>> \in M \ DividingLines
               PROVE  InCell(c, r, x, y) /\ Goes(<<x, y>>) \subseteq taken  BY <1>5 DEF MaskOf, IsMask
  <2> QED BY <1>1, <1>5 DEF IsMask, Goes
<1> QED BY <1>4, <1>5

BoundedMasks == [mask : SUBSET ImagePixels, hor : Sides, ver : Sides]
MasksHeld(subs, taken, cells, lines) ==
  /\ subs \in Seq(BoundedMasks) /\ Len(subs) <= HorImages * VerImages
  /\ \A p : p \in taken <=> \E i \in 1 .. Len(subs) : p \in subs[i].mask
  /\ \A i \in 1 .. Len(subs) :
       /\ IsMask(subs[i].mask, ColumnOf(i - 1), RowOf(i - 1), cells, lines, taken)
       /\ Inside(subs[i].hor, Width) /\ Inside(subs[i].ver, Height)
  /\ \A i, j \in 1 .. Len(subs) : i # j => subs[i].mask \cap subs[j].mask = {}

LEMMA NumberOfCells == HorImages * VerImages \in Nat  BY SizesOfDivision
LEMMA HeldIndex ==
  ASSUME MasksHeld(subImages, visited, Cells, DividingLines), NEW i \in 1 .. Len(subImages)
  PROVE  /\ i - 1 \in 0 .. HorImages * VerImages - 1
         /\ ColumnOf(i - 1) \in Columns /\ RowOf(i - 1) \in RowsOfCells
         /\ Middle(i - 1) = <<MiddleX(ColumnOf(i - 1)), MiddleY(RowOf(i - 1))>>
         /\ subImages[i] \in BoundedMasks /\ subImages[i].mask \subseteq ImagePixels
         /\ MaskOf(subImages[i].mask, ColumnOf(i - 1), RowOf(i - 1), visited)
<1>1. subImages \in Seq(BoundedMasks) /\ Len(subImages) <= HorImages * VerImages  BY DEF MasksHeld
<1>2. subImages[i] \in BoundedMasks  BY <1>1
<1>3. subImages[i].mask \subseteq ImagePixels  BY <1>2 DEF BoundedMasks
<1>4. i - 1 \in 0 .. HorImages * VerImages - 1  BY <1>1, NumberOfCells
<1>5. /\ ColumnOf(i - 1) \in Columns /\ RowOf(i - 1) \in RowsOfCells
      /\ Middle(i - 1) = <<MiddleX(ColumnOf(i - 1)), MiddleY(RowOf(i - 1))>>  BY <1>4, CellOfIndex
<1>6. IsMask(subImages[i].mask, ColumnOf(i - 1), RowOf(i - 1), Cells, DividingLines, visited)  BY DEF MasksHeld
<1> QED BY <1>2, <1>3, <1>4, <1>5, <1>6, MaskIsMask
\* A pixel of a cell is in the mask of no other one.
LEMMA InOwnMask ==
  ASSUME LinesAreFixed, MasksHeld(subImages, visited, Cells, DividingLines), NEW i \in 1 .. Len(subImages),
         NEW c \in Columns, NEW r \in RowsOfCells, NEW x, NEW y, InCell(c, r, x, y), <<x, y>> \in subImages[i].mask
  PROVE  c = ColumnOf(i - 1) /\ r = RowOf(i - 1)
<1>1. <<x, y>> \notin DividingLines  BY CellsApart
<1>2. /\ ColumnOf(i - 1) \in Columns /\ RowOf(i - 1) \in RowsOfCells
      /\ MaskOf(subImages[i].mask, ColumnOf(i - 1), RowOf(i - 1), visited)  BY HeldIndex
<1>3. InCell(ColumnOf(i - 1), RowOf(i - 1), x, y)  BY <1>1, <1>2 DEF MaskOf
<1> QED BY <1>2, <1>3, CellsApart

LEMMA NextMaskIsHeld ==
  ASSUME LinesAreFixed, MasksHeld(subImages, visited, Cells, DividingLines),
         Len(subImages) < HorImages * VerImages, NEW sub, sub = GetBoundingMask(Len(subImages))
  PROVE  MasksHeld(Append(subImages, sub), visited \cup sub.mask, Cells, DividingLines)
<1> DEFINE n == Len(subImages)
           c == ColumnOf(n)
           r == RowOf(n)
           M == FloodFill(Middle(n))
           subs == Append(subImages, sub)
           taken == visited \cup sub.mask
<1>1. subImages \in Seq(BoundedMasks) /\ n \in Nat /\ n \in 0 .. HorImages * VerImages - 1
  BY NumberOfCells DEF MasksHeld
<1> HIDE DEF n
<1>2. /\ c \in Columns /\ r \in RowsOfCells /\ Middle(n) = <<MiddleX(c), MiddleY(r)>>
      /\ n = HorImages * r + c  BY <1>1, CellOfIndex
<1>3. visited \subseteq ImagePixels /\ \A p : p \in visited <=> \E i \in 1 .. n : p \in subImages[i].mask
  <2>1. \A p : p \in visited <=> \E i \in 1 .. n : p \in subImages[i].mask  BY DEF MasksHeld, n
  <2>2. \A i \in 1 .. n : subImages[i].mask \subseteq ImagePixels  BY HeldIndex DEF n
  <2> QED BY <2>1, <2>2
<1> HIDE DEF c, r, M, subs
<1>4. Middle(n) \notin visited
  <2> SUFFICES ASSUME NEW i \in 1 .. n, Middle(n) \in subImages[i].mask PROVE FALSE  BY <1>3
  <2>1. InCell(c, r, MiddleX(c), MiddleY(r))  BY <1>2, MiddleInCell
  <2>2. c = ColumnOf(i - 1) /\ r = RowOf(i - 1)  BY <1>2, <2>1, InOwnMask DEF n
  <2>3. i - 1 \in 0 .. HorImages * VerImages - 1  BY HeldIndex DEF n
  <2>4. i - 1 = HorImages * r + c  BY <2>2, <2>3, CellOfIndex
  <2> QED BY <1>1, <1>2, <2>4
<1>5. MaskOf(M, c, r, visited \cup M) /\ M \cap visited = {}  BY <1>2, <1>3, <1>4, MaskIsOfCell DEF M
<1>6. M \subseteq ImagePixels  BY <1>5 DEF MaskOf
<1>7. sub = [mask |-> M, hor |-> Side({p[1] : p \in M}, Width), ver |-> Side({p[2] : p \in M}, Height)]
  BY DEF GetBoundingMask, M, n
<1>8. /\ {p[1] : p \in M} \in SUBSET (0 .. Width - 1)
      /\ {p[2] : p \in M} \in SUBSET (0 .. Height - 1)  BY <1>6 DEF ImagePixels
<1>9. /\ sub.mask = M /\ sub.hor \in Sides /\ sub.ver \in Sides
      /\ Inside(sub.hor, Width) /\ Inside(sub.ver, Height)
  <2> DEFINE across == {p[1] : p \in M}
             down == {p[2] : p \in M}
  <2>1. sub = [mask |-> M, hor |-> Side(across, Width), ver |-> Side(down, Height)]  BY <1>7
  <2>2. across \in SUBSET (0 .. Width - 1) /\ down \in SUBSET (0 .. Height - 1)  BY <1>8
  <2> HIDE DEF across, down
  <2>3. /\ Side(across, Width) \in Sides /\ Inside(Side(across, Width), Width)
        /\ Side(down, Height) \in Sides /\ Inside(Side(down, Height), Height)  BY <2>2, SideInside, SizesOfDivision
  <2> QED BY <2>1, <2>3
<1>10. sub \in BoundedMasks
  <2> DEFINE hor == Side({p[1] : p \in M}, Width)
             ver == Side({p[2] : p \in M}, Height)
  <2>1. sub = [mask |-> M, hor |-> hor, ver |-> ver] /\ hor \in Sides /\ ver \in Sides  BY <1>7, <1>9
  <2> HIDE DEF hor, ver
  <2> QED BY <1>6, <2>1 DEF BoundedMasks
<1>11. /\ subs \in Seq(BoundedMasks) /\ Len(subs) = n + 1
       /\ subs[n + 1] = sub /\ \A i \in 1 .. n : subs[i] = subImages[i]  BY <1>1, <1>10 DEF subs, n
<1>12. taken = visited \cup M  BY <1>9
<1> HIDE DEF taken
<1>13. ASSUME NEW i \in 1 .. n + 1 PROVE i \in 1 .. n \/ i = n + 1  BY <1>1
<1>14. 1 .. n \subseteq 1 .. n + 1 /\ n + 1 \in 1 .. n + 1 /\ n + 1 - 1 = n  BY <1>1
<1>15. ASSUME NEW p PROVE p \in taken <=> \E i \in 1 .. n + 1 : p \in subs[i].mask
  BY <1>3, <1>9, <1>11, <1>12, <1>13, <1>14
<1>16. ASSUME NEW i \in 1 .. n + 1
       PROVE  /\ IsMask(subs[i].mask, ColumnOf(i - 1), RowOf(i - 1), Cells, DividingLines, taken)
              /\ Inside(subs[i].hor, Width) /\ Inside(subs[i].ver, Height)
  <2>1. CASE i \in 1 .. n
    <3>1. /\ IsMask(subImages[i].mask, ColumnOf(i - 1), RowOf(i - 1), Cells, DividingLines, visited)
          /\ Inside(subImages[i].hor, Width) /\ Inside(subImages[i].ver, Height)  BY <2>1 DEF MasksHeld, n
    <3>2. IsMask(subImages[i].mask, ColumnOf(i - 1), RowOf(i - 1), Cells, DividingLines, taken)
      BY <1>12, <3>1 DEF IsMask
    <3> QED BY <1>11, <2>1, <3>1, <3>2
  <2>2. CASE i = n + 1
    <3>1. IsMask(M, c, r, Cells, DividingLines, taken)  BY <1>2, <1>5, <1>12, MaskIsMask
    <3>2. i - 1 = n /\ subs[i] = sub  BY <1>1, <1>11, <2>2
    <3>3. c = ColumnOf(i - 1) /\ r = RowOf(i - 1)  BY <3>2 DEF c, r
    <3>4. IsMask(subs[i].mask, ColumnOf(i - 1), RowOf(i - 1), Cells, DividingLines, taken)  BY <1>9, <3>1, <3>2, <3>3
    <3> QED BY <1>9, <3>2, <3>4
  <2> QED BY <1>13, <2>1, <2>2
<1>17. ASSUME NEW i \in 1 .. n + 1, NEW j \in 1 .. n + 1, i # j PROVE subs[i].mask \cap subs[j].mask = {}
  <2>1. CASE i \in 1 .. n /\ j \in 1 .. n
    <3>1. subImages[i].mask \cap subImages[j].mask = {}  BY <1>17, <2>1 DEF MasksHeld, n
    <3> QED BY <1>11, <2>1, <3>1
  <2>2. CASE i \in 1 .. n /\ j = n + 1  BY <1>3, <1>5, <1>9, <1>11, <2>2
  <2>3. CASE i = n + 1 /\ j \in 1 .. n  BY <1>3, <1>5, <1>9, <1>11, <2>3
  <2> QED BY <1>13, <1>17, <2>1, <2>2, <2>3
<1>18. Len(subs) <= HorImages * VerImages  BY <1>1, <1>11, NumberOfCells
<1>19. MasksHeld(subs, taken, Cells, DividingLines)  BY <1>11, <1>15, <1>16, <1>17, <1>18 DEF MasksHeld
<1> QED BY <1>19 DEF subs, taken
----
(* The division of an image: no pixel is lost but at crossings *)

DivisionInv == LinesAreFixed /\ MasksHeld(subImages, visited, Cells, DividingLines)

\* When every cell has had its turn, each pixel from which steps lead to the middle of its
\* cell is in that cell's mask, and so is what the fill goes to from there.
LEMMA PixelIsReached ==
  ASSUME DivisionInv, Divided, NEW c \in Columns, NEW r \in RowsOfCells, NEW x, NEW y, Leads(c, r, x, y)
  PROVE  <<x, y>> \in visited /\ Goes(<<x, y>>) \subseteq visited
<1>1. LinesAreFixed /\ MasksHeld(subImages, visited, Cells, DividingLines) /\ Len(subImages) = HorImages * VerImages
  BY DEF DivisionInv, Divided
<1>2. PICK index \in 0 .. HorImages * VerImages - 1 : ColumnOf(index) = c /\ RowOf(index) = r  BY IndexOfCell
<1> DEFINE i == index + 1
           M == subImages[i].mask
<1>3. i \in 1 .. Len(subImages) /\ i - 1 = index  BY <1>1, <1>2, NumberOfCells
<1> HIDE DEF i
<1>4. MaskOf(M, c, r, visited) /\ M \subseteq ImagePixels  BY <1>1, <1>2, <1>3, HeldIndex
<1>5. \A p : p \in visited <=> \E j \in 1 .. Len(subImages) : p \in subImages[j].mask  BY <1>1 DEF MasksHeld
<1>6. ASSUME NEW u \in Int, NEW v \in Int, InCell(c, r, u, v), <<u, v>> \in visited PROVE <<u, v>> \in M
  <2>1. PICK j \in 1 .. Len(subImages) : <<u, v>> \in subImages[j].mask  BY <1>5, <1>6
  <2>2. c = ColumnOf(j - 1) /\ r = RowOf(j - 1) /\ j - 1 \in 0 .. HorImages * VerImages - 1
    BY <1>1, <1>6, <2>1, InOwnMask, HeldIndex
  <2>3. j - 1 = index  BY <1>2, <2>2, CellOfIndex
  <2>4. j = i  BY <1>3, <2>3
  <2> QED BY <2>1, <2>4
<1> HIDE DEF M
<1>7. SpreadsIn(M, c, r)
  <2> SUFFICES ASSUME NEW a \in Int, NEW b \in Int, NEW u \in Int, NEW v \in Int, <<a, b>> \in M,
                      InCell(c, r, a, b), InCell(c, r, u, v), Beside(a, b, u, v)
               PROVE  <<u, v>> \in M  BY DEF SpreadsIn
  <2>1. CASE <<u, v>> = <<a, b>>  BY <2>1
  <2>2. CASE <<u, v>> # <<a, b>>
    <3>1. <<a, b>> \in ImagePixels \ DividingLines /\ <<u, v>> \in ImagePixels \ DividingLines  BY <1>1, CellsApart
    <3>2. a \in 0 .. Width - 1 /\ b \in 0 .. Height - 1  BY DEF InCell
    <3>3. <<u, v>> \in Goes(<<a, b>>)  BY <2>2, <3>1, <3>2, WhereItGoes
    <3>4. <<u, v>> \in visited  BY <1>4, <3>1, <3>3 DEF MaskOf
    <3> QED BY <1>6, <3>4
  <2> QED BY <2>1, <2>2
<1>8. <<MiddleX(c), MiddleY(r)>> \in M  BY <1>4 DEF MaskOf
<1>9. <<x, y>> \in M  BY <1>1, <1>7, <1>8, CellIsReached
<1>10. <<x, y>> \notin DividingLines  BY <1>1, CellsApart DEF Leads
<1>11. Goes(<<x, y>>) \subseteq visited  BY <1>4, <1>9, <1>10 DEF MaskOf
<1>12. <<x, y>> \in visited  BY <1>3, <1>5, <1>9 DEF M
<1> QED BY <1>11, <1>12

LEMMA NearIsNext ==
  ASSUME NEW x \in Int, NEW y \in Int, NearBoth(x, y)
  PROVE  NextTo(<<x, y>>, OnVertical) /\ NextTo(<<x, y>>, OnHorizontal)
<1>1. PICK u \in Int : u - x \in {-1, 0, 1} /\ <<u, y>> \in OnVertical  BY DEF NearBoth
<1>2. PICK v \in Int : v - y \in {-1, 0, 1} /\ <<x, v>> \in OnHorizontal  BY DEF NearBoth
<1> QED BY <1>1, <1>2 DEF NextTo

\* A line goes to the subimage behind it, but next to a line across.
LEMMA LineIsTaken ==
  ASSUME DivisionInv, Divided, NEW x, NEW y, <<x, y>> \in ImagePixels \ visited
  PROVE  /\ <<x, y>> \in OnVertical => NextTo(<<x, y>>, OnHorizontal)
         /\ <<x, y>> \in OnHorizontal => NextTo(<<x, y>>, OnVertical)
<1>1. LinesAreFixed /\ Width \in Nat \ {0} /\ Height \in Nat \ {0} /\ HorImages \in Nat \ {0} /\ VerImages \in Nat \ {0}
  BY SizesOfDivision DEF DivisionInv
<1>2. x \in 0 .. Width - 1 /\ y \in 0 .. Height - 1 /\ x \in Int /\ y \in Int  BY <1>1 DEF ImagePixels
<1>3. ASSUME <<x, y>> \in OnVertical PROVE NextTo(<<x, y>>, OnHorizontal)
  <2>1. PICK k \in 1 .. HorImages - 1 : ColumnLine(k, y) = x  BY <1>1, <1>3, ColumnLineOf
  <2>2. k \in Columns  BY <1>1 DEF Columns
  <2> DEFINE u == x + 1
  <2>3. u \in 0 .. Width - 1 /\ u \in Int /\ ColumnLine(k, y) < u /\ u < ColumnLine(k + 1, y)
    <3>1. /\ Low(Width, HorImages, k) \in Int /\ High(Width, HorImages, k) \in Int
          /\ MiddleX(k) \in CoreX(k) /\ MiddleX(k) \in Int
          /\ High(Width, HorImages, k) <= Width - 1
          /\ ColumnLine(k, y) \in Int /\ ColumnLine(k + 1, y) \in Int
          /\ ColumnLine(k, y) < Low(Width, HorImages, k)
          /\ High(Width, HorImages, k) < ColumnLine(k + 1, y)  BY <1>1, <1>2, <2>2, ColumnBounds
    <3> QED BY <1>1, <1>2, <2>1, <3>1 DEF CoreX, Core
  <2>4. <<u, y>> \in ImagePixels /\ <<u, y>> \notin OnVertical
    <3>1. ASSUME <<u, y>> \in OnVertical PROVE FALSE
      <4>1. PICK d \in 1 .. HorImages - 1 : ColumnLine(d, y) = u  BY <1>1, <3>1, ColumnLineOf
      <4>2. d \in 0 .. HorImages  BY <1>1
      <4> HIDE DEF u
      <4> QED BY <1>1, <1>2, <2>2, <2>3, <4>1, <4>2, OneColumn
    <3> QED BY <1>2, <2>3, <3>1 DEF ImagePixels
  <2>5. u - x \in {-1, 0, 1} /\ x < u /\ x - u \in {-1, 0, 1}  BY <1>2
  <2> HIDE DEF u
  <2>6. CASE <<u, y>> \in OnHorizontal  BY <1>2, <2>5, <2>6 DEF NextTo
  <2>7. CASE <<u, y>> \notin OnHorizontal
    <3>1. <<u, y>> \in ImagePixels \ DividingLines  BY <2>4, <2>7 DEF DividingLines
    <3>2. PICK c \in Columns, r \in RowsOfCells : InCell(c, r, u, y)  BY <1>1, <3>1, InSomeCell
    <3>3. ~Leads(c, r, u, y)
      <4>1. ASSUME Leads(c, r, u, y) PROVE FALSE
        <5>1. Goes(<<u, y>>) \subseteq visited  BY <4>1, PixelIsReached
        <5>2. Beside(u, y, x, y) /\ <<x, y>> # <<u, y>>  BY <1>2, <2>3, <2>5 DEF Beside
        <5>3. <<x, y>> \in Goes(<<u, y>>)  BY <1>2, <2>3, <2>5, <5>2, WhereItGoes
        <5> QED BY <5>1, <5>3
      <4> QED BY <4>1
    <3>4. NearBoth(u, y)  BY <1>1, <3>2, <3>3, ClosedIn
    <3>5. PICK v \in Int : v - y \in {-1, 0, 1} /\ <<u, v>> \in OnHorizontal  BY <3>4 DEF NearBoth
    <3> QED BY <1>2, <2>5, <3>5 DEF NextTo
  <2> QED BY <2>6, <2>7
<1>4. ASSUME <<x, y>> \in OnHorizontal PROVE NextTo(<<x, y>>, OnVertical)
  <2>1. PICK k \in 1 .. VerImages - 1 : RowLine(k, x) = y  BY <1>1, <1>4, RowLineOf
  <2>2. k \in RowsOfCells  BY <1>1 DEF RowsOfCells
  <2> DEFINE v == y + 1
  <2>3. v \in 0 .. Height - 1 /\ v \in Int /\ RowLine(k, x) < v /\ v < RowLine(k + 1, x)
    <3>1. /\ Low(Height, VerImages, k) \in Int /\ High(Height, VerImages, k) \in Int
          /\ MiddleY(k) \in CoreY(k) /\ MiddleY(k) \in Int
          /\ High(Height, VerImages, k) <= Height - 1
          /\ RowLine(k, x) \in Int /\ RowLine(k + 1, x) \in Int
          /\ RowLine(k, x) < Low(Height, VerImages, k)
          /\ High(Height, VerImages, k) < RowLine(k + 1, x)  BY <1>1, <1>2, <2>2, RowBounds
    <3> QED BY <1>1, <1>2, <2>1, <3>1 DEF CoreY, Core
  <2>4. <<x, v>> \in ImagePixels /\ <<x, v>> \notin OnHorizontal
    <3>1. ASSUME <<x, v>> \in OnHorizontal PROVE FALSE
      <4>1. PICK d \in 1 .. VerImages - 1 : RowLine(d, x) = v  BY <1>1, <3>1, RowLineOf
      <4>2. d \in 0 .. VerImages  BY <1>1
      <4> HIDE DEF v
      <4> QED BY <1>1, <1>2, <2>2, <2>3, <4>1, <4>2, OneRow
    <3> QED BY <1>2, <2>3, <3>1 DEF ImagePixels
  <2>5. v - y \in {-1, 0, 1} /\ y < v /\ y - v \in {-1, 0, 1}  BY <1>2
  <2> HIDE DEF v
  <2>6. CASE <<x, v>> \in OnVertical  BY <1>2, <2>5, <2>6 DEF NextTo
  <2>7. CASE <<x, v>> \notin OnVertical
    <3>1. <<x, v>> \in ImagePixels \ DividingLines  BY <2>4, <2>7 DEF DividingLines
    <3>2. PICK c \in Columns, r \in RowsOfCells : InCell(c, r, x, v)  BY <1>1, <3>1, InSomeCell
    <3>3. ~Leads(c, r, x, v)
      <4>1. ASSUME Leads(c, r, x, v) PROVE FALSE
        <5>1. Goes(<<x, v>>) \subseteq visited  BY <4>1, PixelIsReached
        <5>2. Beside(x, v, x, y) /\ <<x, y>> # <<x, v>>  BY <1>2, <2>3, <2>5 DEF Beside
        <5>3. <<x, y>> \in Goes(<<x, v>>)  BY <1>2, <2>3, <2>5, <5>2, WhereItGoes
        <5> QED BY <5>1, <5>3
      <4> QED BY <4>1
    <3>4. NearBoth(x, v)  BY <1>1, <3>2, <3>3, ClosedIn
    <3>5. PICK u \in Int : u - x \in {-1, 0, 1} /\ <<u, v>> \in OnVertical  BY <3>4 DEF NearBoth
    <3> QED BY <1>2, <2>5, <3>5 DEF NextTo
  <2> QED BY <2>6, <2>7
<1> QED BY <1>3, <1>4

LEMMA OnlyCrossings == ASSUME DivisionInv PROVE OnlyCrossingsLeftOut
<1> SUFFICES ASSUME Divided, NEW p \in ImagePixels \ visited
             PROVE  NextTo(p, OnVertical) /\ NextTo(p, OnHorizontal)  BY DEF OnlyCrossingsLeftOut
<1>1. LinesAreFixed  BY DEF DivisionInv
<1>2. PICK x \in Int, y \in Int : p = <<x, y>>  BY SizesOfDivision DEF ImagePixels
<1>3. CASE p \notin DividingLines
  <2>1. PICK c \in Columns, r \in RowsOfCells : InCell(c, r, x, y)  BY <1>1, <1>2, <1>3, InSomeCell
  <2>2. ~Leads(c, r, x, y)  BY <1>2, PixelIsReached
  <2> QED BY <1>1, <1>2, <2>1, <2>2, ClosedIn, NearIsNext
<1>4. p \in OnVertical => NextTo(p, OnVertical)  BY <1>2 DEF NextTo
<1>5. p \in OnHorizontal => NextTo(p, OnHorizontal)  BY <1>2 DEF NextTo
<1>6. CASE p \in DividingLines  BY <1>2, <1>4, <1>5, <1>6, LineIsTaken DEF DividingLines
<1> QED BY <1>3, <1>6

LEMMA DivisionInvDivides == ASSUME DivisionInv PROVE DivideImage
<1>1. MasksHeld(subImages, visited, Cells, DividingLines) /\ DOMAIN subImages = 1 .. Len(subImages)
  BY DEF DivisionInv, MasksHeld
<1>2. ASSUME NEW i \in 1 .. Len(subImages) PROVE Middle(i - 1) \in subImages[i].mask  BY <1>1, HeldIndex DEF MaskOf
<1>3. Separated  BY <1>1, <1>2 DEF Separated, MasksHeld
<1>4. BoxesInsideImage  BY <1>1 DEF BoxesInsideImage, MasksHeld
<1> QED BY <1>3, <1>4, OnlyCrossings DEF DivideImage

LEMMA InitDivides == ASSUME SubdivisionInit PROVE DivisionInv
<1>1. LinesAreFixed
  <2>1. ASSUME NEW lines, NEW size, NEW parts, NEW length,
               \A d \in 1 .. parts - 1 : lines[d] \in Paths(size, parts, length, d)
        PROVE  LinesAreDrawn(lines, size, parts, length)  BY <2>1 DEF Paths, LinesAreDrawn
  <2> QED BY <2>1 DEF SubdivisionInit, DivideVertically, DivideHorizontally, LinesAreFixed
<1>2. Len(subImages) = 0 /\ subImages \in Seq(BoundedMasks) /\ visited = {}  BY DEF SubdivisionInit
<1>3. MasksHeld(subImages, visited, Cells, DividingLines)  BY <1>2, NumberOfCells DEF MasksHeld
<1> QED BY <1>1, <1>3 DEF DivisionInv

\* Every subimage keeps the lines and takes its own pixels out of what is left.
LEMMA StepDivides == ASSUME DivisionInv, [Subdivide \/ SubdivisionDone]_subdivisionVars PROVE DivisionInv'
<1>1. vertical' = vertical /\ horizontal' = horizontal  BY DEF Subdivide, SubdivisionDone, subdivisionVars
<1>2. LinesAreFixed' /\ Cells' = Cells /\ DividingLines' = DividingLines
  <2>1. LinesAreFixed'  BY <1>1 DEF DivisionInv, LinesAreFixed
  <2>2. DividingLines' = DividingLines  BY <1>1 DEF DividingLines, OnVertical, OnHorizontal
  <2>3. Cells' = Cells  BY <1>1 DEF Cells, InCell, ColumnLine, RowLine
  <2> QED BY <2>1, <2>2, <2>3
<1>3. CASE Subdivide
  <2>1. PICK sub : /\ sub = GetBoundingMask(Len(subImages)) /\ Len(subImages) < HorImages * VerImages
                   /\ subImages' = Append(subImages, sub) /\ visited' = visited \cup sub.mask  BY <1>3 DEF Subdivide
  <2>2. MasksHeld(subImages', visited', Cells, DividingLines)  BY <2>1, NextMaskIsHeld DEF DivisionInv
  <2> QED BY <1>2, <2>2 DEF DivisionInv
<1>4. CASE subImages' = subImages /\ visited' = visited  BY <1>2, <1>4 DEF DivisionInv
<1> QED BY <1>3, <1>4 DEF SubdivisionDone, subdivisionVars

\* Whatever way the lines bend, in an image of any size and any number of subimages
\* (subdivision.h): the subimages have no pixel in common, have every pixel but those next
\* to a vertical and a horizontal line, and their boxes lie in the image.
THEOREM ImageIsDivided == SubdivisionSpec => []DivideImage
<1>1. SubdivisionInit => DivisionInv  BY InitDivides
<1>2. DivisionInv /\ [Subdivide \/ SubdivisionDone]_subdivisionVars => DivisionInv'  BY StepDivides
<1>3. DivisionInv => DivideImage  BY DivisionInvDivides
<1> QED BY <1>1, <1>2, <1>3, PTL DEF SubdivisionSpec
=============================================================================
