------------------------ MODULE ImageBufferAllocator ------------------------
(***************************************************************************)
(* ImageBufferAllocator (wsclean/imagebufferallocator.h) hands out the     *)
(* memory for images.  A buffer has two halves of `size' numbers: a real   *)
(* image takes one half, a complex image both.  Buffers are kept when they *)
(* are freed, for the next image of the same size.  All methods but        *)
(* FreeUnused lock the mutex for their whole duration, and FreeUnused is   *)
(* called only by the main thread between gridding tasks, so each method   *)
(* is one step.  With _direct the class has no state and is not modelled.  *)
(*                                                                         *)
(* Addresses are those posix_memalign may return; of several buffers with  *)
(* room the code takes the first of its vector, here any may be taken.     *)
(***************************************************************************)
EXTENDS Naturals, FiniteSets

CONSTANTS
  Addresses,  \* where a buffer may be allocated
  Sizes,      \* the sizes asked for
  MaxHeld     \* bound: images that are held at a time

ASSUME SizesAssumption == Sizes \subseteq Nat

VARIABLES
  buffers,       \* _buffers, by address: their size and the halves that are used
  previousSize,  \* _previousSize
  nReal, nComplex, nRealMax, nComplexMax,
  held,          \* the images that the callers hold: TPtr, CPtr and bare pointers
  destructed,
  peak           \* history: the most images held at a time

counters == <<nReal, nComplex, nRealMax, nComplexMax>>
lifeVars == <<destructed>>
allocVars == <<buffers, previousSize, counters, held, peak, lifeVars>>

Halves == {"first", "second"}
Parts == {{"first"}, {"second"}, Halves}

Rounded(size) == IF size = 0 THEN 2 ELSE size + (size % 2)

Buffer(size, used) == [size |-> size, used |-> used]
With(bufs, a, buffer) == [b \in DOMAIN bufs \cup {a} |-> IF b = a THEN buffer ELSE bufs[b]]

IsReal(h) == h.parts # Halves
Reals == {h \in held : IsReal(h)}
Complexes == {h \in held : ~ IsReal(h)}

AllocInit ==
  /\ buffers = << >>
  /\ previousSize = 0
  /\ nReal = 0 /\ nComplex = 0 /\ nRealMax = 0 /\ nComplexMax = 0
  /\ held = {} /\ peak = 0
  /\ destructed = FALSE

WithoutUnused(bufs) == [a \in {b \in DOMAIN bufs : bufs[b].used # {}} |-> bufs[a]]

\* What is left when an image of another size is asked for.
Kept(size) == IF size # previousSize THEN WithoutUnused(buffers) ELSE buffers

\* The part of a buffer that an image gets, when there is room.
HalfTaken(buffer) == IF "first" \notin buffer.used THEN {"first"} ELSE {"second"}
FitsReal(buffer, size) == buffer.size = size /\ buffer.used # Halves
OneHalfWillDo(buffer, size) == buffer.size = size /\ "first" \notin buffer.used   \* mutant
FitsComplex(buffer, size) == buffer.size = size /\ buffer.used = {}

IncreasedMax(max, n) == IF n > max THEN n ELSE max

\* The buffer at address a has size and has now given parts away.
Give(bufs, a, size, parts, asked) ==
  /\ buffers' = With(bufs, a,
       Buffer(size, parts \cup (IF a \in DOMAIN bufs THEN bufs[a].used ELSE {})))
  /\ held' = held \cup {[addr |-> a, parts |-> parts, asked |-> asked]}
  /\ peak' = IncreasedMax(peak, Cardinality(held) + 1)

Allocate(asked) ==
  LET size == Rounded(asked)
      kept == Kept(size)
      fitting == {a \in DOMAIN kept : FitsReal(kept[a], size)}
  IN  /\ ~ destructed /\ Cardinality(held) < MaxHeld
      /\ previousSize' = size
      /\ nReal' = nReal + 1
      /\ nRealMax' = IncreasedMax(nRealMax, nReal + 1)
      /\ \/ \E a \in fitting : Give(kept, a, kept[a].size, HalfTaken(kept[a]), asked)
         \/ /\ fitting = {}
            /\ \E a \in Addresses \ DOMAIN kept : Give(kept, a, size, {"first"}, asked)
      /\ UNCHANGED <<nComplex, nComplexMax, lifeVars>>

AllocateComplex(asked) ==
  LET size == Rounded(asked)
      kept == Kept(size)
      fitting == {a \in DOMAIN kept : FitsComplex(kept[a], size)}
  IN  /\ ~ destructed /\ Cardinality(held) < MaxHeld
      /\ previousSize' = size
      /\ nComplex' = nComplex + 1
      /\ nComplexMax' = IncreasedMax(nComplexMax, nComplex + 1)
      /\ \/ \E a \in fitting : Give(kept, a, kept[a].size, Halves, asked)
         \/ /\ fitting = {}
            /\ \E a \in Addresses \ DOMAIN kept : Give(kept, a, size, Halves, asked)
      /\ UNCHANGED <<nReal, nRealMax, lifeVars>>

\* Free(double* ) and Free(std::complex<double>* ), by the pointer that is given
\* up.  A pointer that is in no buffer would be an error.
Returned(h) == h.parts
FreedAsReal(h) == IsReal(h)

Free(h) ==
  /\ ~ destructed
  /\ h.addr \in DOMAIN buffers
  /\ held' = held \ {h}
  /\ buffers' = [buffers EXCEPT ![h.addr].used = @ \ Returned(h)]
  /\ IF FreedAsReal(h) THEN nReal' = nReal - 1 /\ UNCHANGED nComplex
     ELSE nComplex' = nComplex - 1 /\ UNCHANGED nReal
  /\ UNCHANGED <<previousSize, nRealMax, nComplexMax, peak, lifeVars>>

FreeUnused ==
  /\ ~ destructed
  /\ buffers' = WithoutUnused(buffers)
  /\ UNCHANGED <<previousSize, counters, held, peak, lifeVars>>

\* The destructor: clear() frees all buffers, those of images still held too.
Destruct ==
  /\ ~ destructed
  /\ destructed' = TRUE
  /\ buffers' = << >>
  /\ UNCHANGED <<previousSize, counters, held, peak>>

Done == destructed /\ UNCHANGED allocVars

AllocNext ==
  \/ \E asked \in Sizes : Allocate(asked) \/ AllocateComplex(asked)
  \/ \E h \in held : Free(h)
  \/ FreeUnused \/ Destruct \/ Done

AllocSpec == AllocInit /\ [][AllocNext]_allocVars

(***************************************************************************)
(* Properties.                                                             *)
(***************************************************************************)

\* Types of the allocator's state.
AllocTypeOK ==
  /\ DOMAIN buffers \subseteq Addresses
  /\ buffers \in [DOMAIN buffers -> [size : Nat, used : SUBSET Halves]]
  /\ previousSize \in Nat
  /\ nReal \in Nat /\ nComplex \in Nat /\ nRealMax \in Nat /\ nComplexMax \in Nat /\ peak \in Nat
  /\ held \subseteq [addr : Addresses, parts : Parts, asked : Sizes]
  /\ destructed \in BOOLEAN

\* Every image that is held has memory of its own: until the allocator is
\* destructed it lies in a buffer that was not freed, that has room for what was
\* asked, and no other image shares a half of it.
ImagesDoNotOverlap ==
  ~ destructed =>
    /\ \A h \in held : h.addr \in DOMAIN buffers /\ h.asked <= buffers[h.addr].size
    /\ \A g, h \in held : g # h /\ g.addr = h.addr => g.parts \cap h.parts = {}

\* A half is marked as used exactly when an image lies in it: a half that is not
\* would be handed out twice, one that is for ever would be lost.
UsedHalvesAreHeld ==
  \A a \in DOMAIN buffers : \A half \in Halves :
    half \in buffers[a].used <=> \E h \in held : h.addr = a /\ half \in h.parts

\* The counts of the statistics are those of the images that are held, so they
\* never wrap around.
CountersMatch ==
  /\ nReal = Cardinality(Reals) /\ nComplex = Cardinality(Complexes)
  /\ nReal <= nRealMax /\ nComplex <= nComplexMax

\* However sizes and frees alternate, the allocator keeps fewer than twice as
\* many buffers as there were images at the peak: one of the current size for
\* each, and one of an older size for all but the one that brought the new size.
BuffersBounded == DOMAIN buffers # {} => Cardinality(DOMAIN buffers) < 2 * peak
=============================================================================
