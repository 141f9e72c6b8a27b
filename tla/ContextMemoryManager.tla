------------------------ MODULE ContextMemoryManager ------------------------
(***************************************************************************)
(* src/context/context_mm.{h,cpp}: the region allocator of a Context.  A   *)
(* bump pointer moves through a list of chunks; push() notes where it is,  *)
(* pop() takes it back there, moves the chunks begun since then to a list  *)
(* of free chunks and returns the excess to malloc.                        *)
(*                                                                         *)
(* A pointer is a chunk and an offset into it.  d_endChunk is always the   *)
(* end of some chunk, and that chunk stands for it.                        *)
(***************************************************************************)
EXTENDS Naturals, Sequences

CONSTANTS
  Chunk,          \* addresses malloc(chunkSizeBytes) can return
  chunkSizeBytes,
  maxFreeChunks,
  MaxRegions,     \* bound on the number of nested push() calls
  MaxData         \* bound on the number of calls of newData()

ASSUME ContextMemoryManagerAssumption ==
  /\ chunkSizeBytes \in Nat \ {0}
  /\ maxFreeChunks \in Nat
  /\ MaxRegions \in Nat
  /\ MaxData \in Nat

VARIABLES
  chunkList, freeChunks, nextFree, endChunk, indexChunkList,
  stack,          \* d_nextFreeStack, d_endChunkStack and d_indexChunkListStack
  live,           \* the allocations whose region has not been popped
  count           \* number of calls of newData() so far

vars == <<chunkList, freeChunks, nextFree, endChunk, indexChunkList,
          stack, live, count>>

Pointer == [chunk : Chunk, off : 0..chunkSizeBytes]
Frame == [nextFree : Pointer, endChunk : Chunk, index : Nat]
Allocation == [id : 1..MaxData, region : 0..MaxRegions, chunk : Chunk,
               from : 0..chunkSizeBytes, to : 0..chunkSizeBytes]

\* The type invariant: the pointers and the saved frames name chunks and offsets
\* inside them, so no allocation ever runs over the end of its chunk.
TypeOK ==
  /\ chunkList \in Seq(Chunk)
  /\ freeChunks \in Seq(Chunk)
  /\ nextFree \in Pointer
  /\ endChunk \in Chunk
  /\ indexChunkList \in Nat
  /\ stack \in Seq(Frame)
  /\ Len(stack) <= MaxRegions
  /\ live \subseteq Allocation
  /\ count \in 0..MaxData

InUse == {chunkList[i] : i \in DOMAIN chunkList}
Free == {freeChunks[i] : i \in DOMAIN freeChunks}

\* The constructor allocates the first chunk.
Init ==
  /\ \E c \in Chunk :
       /\ chunkList = <<c>>
       /\ nextFree = [chunk |-> c, off |-> 0]
       /\ endChunk = c
  /\ freeChunks = << >>
  /\ indexChunkList = 0
  /\ stack = << >>
  /\ live = {}
  /\ count = 0

\* A variant that moves the bump pointer one byte too little.
HandOutShort(c, from, size) ==
  /\ live' = live \cup {[id |-> count + 1, region |-> Len(stack), chunk |-> c,
                         from |-> from, to |-> from + size]}
  /\ nextFree' = [chunk |-> c, off |-> from + size - 1]
  /\ count' = count + 1

\* The memory [from, from + size) of chunk c is handed out.
HandOut(c, from, size) ==
  /\ live' = live \cup {[id |-> count + 1, region |-> Len(stack), chunk |-> c,
                         from |-> from, to |-> from + size]}
  /\ nextFree' = [chunk |-> c, off |-> from + size]
  /\ count' = count + 1

\* newData() when the request fits into the current chunk.
NewDataFits(size) ==
  /\ count < MaxData
  /\ nextFree.off + size <= chunkSizeBytes
  /\ HandOut(nextFree.chunk, nextFree.off, size)
  /\ UNCHANGED <<chunkList, freeChunks, endChunk, indexChunkList, stack>>

\* A variant that reads the last free chunk and leaves it in the list.
TakeFreeKeeping(c) ==
  IF freeChunks = << >> THEN c \notin InUse /\ UNCHANGED freeChunks
  ELSE c = freeChunks[Len(freeChunks)] /\ UNCHANGED freeChunks

\* The chunk that newChunk() uses: the last free one, or one from malloc, which
\* does not return memory that has not been freed.
TakeFree(c) ==
  IF freeChunks = << >> THEN c \notin InUse /\ UNCHANGED freeChunks
  ELSE /\ c = freeChunks[Len(freeChunks)]
       /\ freeChunks' = SubSeq(freeChunks, 1, Len(freeChunks) - 1)

\* newData() when the request does not fit: newChunk(), and hand out its start.
NewDataChunk(size) ==
  /\ count < MaxData
  /\ nextFree.off + size > chunkSizeBytes
  /\ \E c \in Chunk :
       /\ TakeFree(c)
       /\ chunkList' = Append(chunkList, c)
       /\ endChunk' = c
       /\ HandOut(c, 0, size)
  /\ indexChunkList' = indexChunkList + 1
  /\ UNCHANGED stack

Push ==
  /\ Len(stack) < MaxRegions
  /\ stack' = Append(stack, [nextFree |-> nextFree, endChunk |-> endChunk,
                             index |-> indexChunkList])
  /\ UNCHANGED <<chunkList, freeChunks, nextFree, endChunk, indexChunkList,
                 live, count>>

\* The chunks of d_chunkList behind the first n, last one first.
Released(n) == [i \in 1..Len(chunkList) - n |-> chunkList[Len(chunkList) + 1 - i]]

\* The last loop of pop(): free() from the front what is too much.
Trim(s) ==
  IF Len(s) > maxFreeChunks
  THEN SubSeq(s, Len(s) + 1 - maxFreeChunks, Len(s)) ELSE s

\* pop(): everything allocated since the matching push() is gone.
Pop ==
  /\ stack # << >>
  /\ LET frame == stack[Len(stack)] IN
       /\ nextFree' = frame.nextFree
       /\ endChunk' = frame.endChunk
       /\ indexChunkList' = frame.index
       /\ chunkList' = SubSeq(chunkList, 1, frame.index + 1)
       /\ freeChunks' = Trim(freeChunks \o Released(frame.index + 1))
  /\ stack' = SubSeq(stack, 1, Len(stack) - 1)
  /\ live' = {a \in live : a.region < Len(stack)}
  /\ UNCHANGED count

Next ==
  \/ \E size \in 1..chunkSizeBytes : NewDataFits(size) \/ NewDataChunk(size)
  \/ Push
  \/ Pop

Spec == Init /\ [][Next]_vars

-----------------------------------------------------------------------------
(* Properties.                                                             *)

\* Memory handed out by newData() is the caller's until the region is popped:
\* it lies in a chunk in use and no other live allocation shares a byte of it,
\* whatever regions were pushed, filled and popped in between.
AllocationsDisjoint ==
  /\ \A a \in live : a.chunk \in InUse /\ a.to <= chunkSizeBytes
  /\ \A a, b \in live :
       a.id # b.id => \/ a.chunk # b.chunk
                      \/ a.to <= b.from
                      \/ b.to <= a.from

\* A chunk is in one place: once in the list in use or once in the free list,
\* which holds no more than maxFreeChunks.  The bump pointer and the end it is
\* compared with belong to the last chunk in use (the assertion of newChunk).
ChunksInOnePlace ==
  /\ TypeOK
  /\ \A i, j \in DOMAIN chunkList : chunkList[i] = chunkList[j] => i = j
  /\ \A i, j \in DOMAIN freeChunks : freeChunks[i] = freeChunks[j] => i = j
  /\ InUse \cap Free = {}
  /\ Len(freeChunks) <= maxFreeChunks
  /\ Len(chunkList) = indexChunkList + 1
  /\ nextFree.chunk = endChunk /\ endChunk = chunkList[Len(chunkList)]
=============================================================================
