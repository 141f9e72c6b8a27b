--------------------- MODULE ContextMemoryManagerProofs ---------------------
(***************************************************************************)
(* The region allocator hands out memory that is nobody else's, for every  *)
(* set of chunks, chunk size and bound on the free list, and however many  *)
(* regions and allocations there are.                                      *)
(***************************************************************************)
EXTENDS ContextMemoryManager, SequenceTheorems, TLAPS

(***************************************************************************)
(* The inductive invariant.                                                *)
(***************************************************************************)

\* Nothing is in a sequence twice.
Distinct(q) == \A i, j \in DOMAIN q : q[i] = q[j] => i = j

\* The two lists share no chunk, and the free list is within its bound.
Lists ==
    /\ Distinct(chunkList) /\ Distinct(freeChunks)
    /\ InUse \cap Free = {}
    /\ Len(freeChunks) <= maxFreeChunks

\* The bump pointer is in the last chunk in use.
Current ==
    /\ Len(chunkList) = indexChunkList + 1
    /\ nextFree.chunk = endChunk /\ endChunk = chunkList[Len(chunkList)]

\* A frame points into the chunk that was the last when it was saved, and that
\* chunk is in its place; later frames are not behind earlier ones.
Frames ==
    /\ \A k \in DOMAIN stack :
          /\ stack[k].index < Len(chunkList)
          /\ stack[k].nextFree.chunk = stack[k].endChunk
          /\ stack[k].endChunk = chunkList[stack[k].index + 1]
    /\ \A k, l \in DOMAIN stack : k <= l => stack[k].index <= stack[l].index

\* The allocation ends below offset off of chunk number index, or in an earlier one.
Below(list, a, index, off) ==
    \E p \in 1..index + 1 : a.chunk = list[p] /\ (p = index + 1 => a.to <= off)

\* What is handed out lies below the bump pointer, and below every pointer
\* saved after it was handed out: a pop does not move the pointer under it.
Covered ==
    \A a \in live :
       /\ a.id <= count /\ a.region <= Len(stack)
       /\ Below(chunkList, a, indexChunkList, nextFree.off)
       /\ \A k \in DOMAIN stack :
             a.region < k => Below(chunkList, a, stack[k].index, stack[k].nextFree.off)

IInv == TypeOK /\ Lists /\ Current /\ Frames /\ Covered /\ AllocationsDisjoint
-----------------------------------------------------------------------------
(* Sequences. *)

\* What Append adds to and keeps.
LEMMA Appended ==
    ASSUME NEW S, NEW q \in Seq(S), NEW e \in S
    PROVE  /\ Append(q, e) \in Seq(S) /\ Len(Append(q, e)) = Len(q) + 1
           /\ DOMAIN Append(q, e) = 1..Len(q) + 1
           /\ \A i \in 1..Len(q) : Append(q, e)[i] = q[i]
           /\ Append(q, e)[Len(q) + 1] = e
OBVIOUS

\* The first n of a sequence.
LEMMA Cut ==
    ASSUME NEW S, NEW q \in Seq(S), NEW n \in 0..Len(q)
    PROVE  /\ SubSeq(q, 1, n) \in Seq(S) /\ Len(SubSeq(q, 1, n)) = n
           /\ DOMAIN SubSeq(q, 1, n) = 1..n
           /\ \A i \in 1..n : SubSeq(q, 1, n)[i] = q[i]
OBVIOUS

\* A sequence with nothing twice keeps that when something new is appended and
\* when it is cut.
LEMMA DistinctAppended ==
    ASSUME NEW S, NEW q \in Seq(S), NEW e \in S, Distinct(q), \A i \in 1..Len(q) : q[i] # e
    PROVE  Distinct(Append(q, e))
<1>1. Len(q) \in Nat /\ DOMAIN q = 1..Len(q)
  OBVIOUS
<1> QED
  BY <1>1, Appended DEF Distinct

LEMMA DistinctCut ==
    ASSUME NEW S, NEW q \in Seq(S), NEW n \in 0..Len(q), Distinct(q)
    PROVE  Distinct(SubSeq(q, 1, n))
<1>1. Len(q) \in Nat /\ DOMAIN q = 1..Len(q)
  OBVIOUS
<1> QED
  BY <1>1, Cut DEF Distinct

\* The list a pop leaves free: the chunks it releases, behind the ones that were
\* free, and of all these the last maxFreeChunks.
LEMMA Trimming ==
    ASSUME NEW q \in Seq(Chunk), Distinct(q)
    PROVE  /\ Trim(q) \in Seq(Chunk) /\ Len(Trim(q)) <= maxFreeChunks
           /\ Distinct(Trim(q))
           /\ \A i \in DOMAIN Trim(q) : \E j \in DOMAIN q : Trim(q)[i] = q[j]
<1> DEFINE m == Len(q) + 1 - maxFreeChunks
           r == SubSeq(q, m, Len(q))
<1>1. Len(q) \in Nat /\ DOMAIN q = 1..Len(q) /\ maxFreeChunks \in Nat
  BY ContextMemoryManagerAssumption
<1>2. CASE Len(q) > maxFreeChunks
  <2>1. m \in 2..Len(q) + 1
    BY <1>1, <1>2
  <2>2. \A i \in m..Len(q) : q[i] \in Chunk
    BY <1>1, <2>1
  <2>3. /\ r \in Seq(Chunk) /\ Len(r) = maxFreeChunks
        /\ \A i \in 1..maxFreeChunks : r[i] = q[m + i - 1]
    BY <1>1, <2>1, <2>2, SubSeqProperties
  <2>4. DOMAIN r = 1..maxFreeChunks /\ Trim(q) = r
    BY SMTT(30), <1>2, <2>3 DEF Trim
  <2>5. \A i \in 1..maxFreeChunks : m + i - 1 \in DOMAIN q
    BY <1>1, <2>1
  <2> HIDE DEF r
  <2>6. Distinct(r)
    <3> SUFFICES ASSUME NEW i \in DOMAIN r, NEW j \in DOMAIN r, r[i] = r[j]
                 PROVE  i = j
      BY DEF Distinct
    <3>1. m + i - 1 = m + j - 1
      BY <2>3, <2>4, <2>5 DEF Distinct
    <3> QED
      BY SMTT(30), <1>1, <2>1, <2>4, <3>1
  <2>7. \A i \in DOMAIN r : \E j \in DOMAIN q : r[i] = q[j]
    BY <2>3, <2>4, <2>5
  <2> QED
    BY <1>1, <2>3, <2>4, <2>6, <2>7
<1>3. CASE ~(Len(q) > maxFreeChunks)
  BY <1>1, <1>3 DEF Trim
<1> QED
  BY <1>2, <1>3

\* What pop() makes of the free list, given the number of chunks it leaves in use.
LEMMA Releasing ==
    ASSUME TypeOK, Lists, NEW n \in 0..Len(chunkList)
    PROVE  /\ Trim(freeChunks \o Released(n)) \in Seq(Chunk)
           /\ Len(Trim(freeChunks \o Released(n))) <= maxFreeChunks
           /\ Distinct(Trim(freeChunks \o Released(n)))
           /\ \A i \in DOMAIN Trim(freeChunks \o Released(n)) :
                 LET c == Trim(freeChunks \o Released(n))[i]
                 IN  c \in Free \/ \E j \in n + 1..Len(chunkList) : c = chunkList[j]
<1> DEFINE len == Len(chunkList)
           f == Len(freeChunks)
           r == Released(n)
           q == freeChunks \o r
<1>1. /\ len \in Nat /\ DOMAIN chunkList = 1..len /\ \A i \in 1..len : chunkList[i] \in Chunk
      /\ f \in Nat /\ DOMAIN freeChunks = 1..f /\ freeChunks \in Seq(Chunk)
  BY DEF TypeOK
<1>2. /\ r \in Seq(Chunk) /\ Len(r) = len - n
      /\ \A i \in 1..len - n : r[i] = chunkList[len + 1 - i]
  BY <1>1 DEF Released
<1> HIDE DEF r
<1>3. /\ q \in Seq(Chunk) /\ Len(q) = f + Len(r)
      /\ \A i \in 1..f + Len(r) : q[i] = IF i <= f THEN freeChunks[i] ELSE r[i - f]
  BY <1>1, <1>2, ConcatProperties
<1>4. DOMAIN q = 1..f + Len(r)
  BY <1>3
<1> HIDE DEF q
<1>5. \A i \in DOMAIN q : IF i <= f THEN i \in DOMAIN freeChunks /\ q[i] = freeChunks[i]
                          ELSE len + 1 - (i - f) \in n + 1..len /\ q[i] = chunkList[len + 1 - (i - f)]
  <2> SUFFICES ASSUME NEW i \in DOMAIN q, ~(i <= f)
               PROVE  len + 1 - (i - f) \in n + 1..len /\ q[i] = chunkList[len + 1 - (i - f)]
    BY SMTT(30), <1>1, <1>3, <1>4
  <2>1. i - f \in 1..len - n
    BY <1>1, <1>2, <1>4
  <2>2. len + 1 - (i - f) \in n + 1..len
    BY <1>1, <2>1
  <2>3. q[i] = r[i - f]
    BY <1>3, <1>4
  <2>4. r[i - f] = chunkList[len + 1 - (i - f)]
    BY <1>2, <2>1
  <2> QED
    BY <2>2, <2>3, <2>4
<1>6. Distinct(q)
  <2> SUFFICES ASSUME NEW i \in DOMAIN q, NEW j \in DOMAIN q, q[i] = q[j] PROVE i = j
    BY DEF Distinct
  <2>1. CASE i <= f /\ j <= f
    BY <1>5, <2>1 DEF Lists, Distinct
  <2>2. CASE ~(i <= f) /\ ~(j <= f)
    <3>1. len + 1 - (i - f) = len + 1 - (j - f)
      BY <1>1, <1>5, <2>2 DEF Lists, Distinct
    <3> QED
      BY SMTT(30), <1>1, <1>4, <3>1
  <2>3. CASE i <= f <=> ~(j <= f)
    <3>1. \A k \in DOMAIN q : IF k <= f THEN q[k] \in Free ELSE q[k] \in InUse
      BY <1>1, <1>5 DEF InUse, Free
    <3> QED
      BY <2>3, <3>1 DEF Lists
  <2> QED
    BY <2>1, <2>2, <2>3
<1>7. \A i \in DOMAIN q : q[i] \in Free \/ \E j \in n + 1..len : q[i] = chunkList[j]
  BY <1>5 DEF Free
<1>8. /\ Trim(q) \in Seq(Chunk) /\ Len(Trim(q)) <= maxFreeChunks /\ Distinct(Trim(q))
      /\ \A i \in DOMAIN Trim(q) : \E j \in DOMAIN q : Trim(q)[i] = q[j]
  BY <1>3, <1>6, Trimming
<1> QED
  BY SMTT(30), <1>7, <1>8 DEF q, r

-----------------------------------------------------------------------------
(* The invariant is inductive. *)

\* It holds of the allocator the constructor leaves.
LEMMA Initially == Init => IInv
<1> SUFFICES ASSUME Init PROVE IInv
  OBVIOUS
<1>1. PICK c \in Chunk : chunkList = <<c>> /\ nextFree = [chunk |-> c, off |-> 0] /\ endChunk = c
  BY DEF Init
<1>2. /\ freeChunks = << >> /\ indexChunkList = 0 /\ stack = << >> /\ live = {} /\ count = 0
  BY DEF Init
<1>3. /\ chunkList \in Seq(Chunk) /\ Len(chunkList) = 1 /\ DOMAIN chunkList = {1} /\ chunkList[1] = c
  BY <1>1
<1>4. TypeOK
  BY <1>1, <1>2, <1>3, ContextMemoryManagerAssumption DEF TypeOK, Pointer
<1>5. Lists /\ Current
  BY <1>1, <1>2, <1>3, ContextMemoryManagerAssumption DEF Lists, Distinct, InUse, Free,
     Current
<1>6. Frames /\ Covered /\ AllocationsDisjoint
  BY <1>2 DEF Frames, Covered, AllocationsDisjoint
<1> QED
  BY <1>4, <1>5, <1>6 DEF IInv

\* What is handed out is apart from everything handed out before if that is in
\* other chunks or ends below.
LEMMA Apart ==
    ASSUME NEW old, NEW new,
           \A a, b \in old : a.id # b.id => a.chunk # b.chunk \/ a.to <= b.from \/ b.to <= a.from,
           \A a \in old : a.chunk # new.chunk \/ a.to <= new.from
    PROVE  \A a, b \in old \cup {new} :
              a.id # b.id => a.chunk # b.chunk \/ a.to <= b.from \/ b.to <= a.from
OBVIOUS

\* An allocation is below a pointer as long as the chunks up to it stay in place,
\* and below a higher one.
LEMMA StaysBelow ==
    ASSUME NEW l, NEW m, NEW a, NEW index \in Nat, NEW off, Below(l, a, index, off),
           \A p \in 1..index + 1 : m[p] = l[p]
    PROVE  Below(m, a, index, off)
BY DEF Below

LEMMA BelowMore ==
    ASSUME NEW l, NEW a, NEW index \in Nat, NEW off \in Nat, NEW more \in Nat, a.to \in Nat,
           Below(l, a, index, off), off <= more
    PROVE  Below(l, a, index, more) /\ \A to \in Nat : Below(l, a, index + 1, to)
BY DEF Below

\* The types of the saved frames.
LEMMA FrameTypes ==
    ASSUME TypeOK
    PROVE  /\ stack \in Seq(Frame) /\ Len(stack) \in Nat /\ DOMAIN stack = 1..Len(stack)
           /\ \A k \in DOMAIN stack : /\ stack[k].index \in Nat /\ stack[k].nextFree \in Pointer
                                     /\ stack[k].endChunk \in Chunk
<1>1. stack \in Seq(Frame)
  BY DEF TypeOK
<1>2. Len(stack) \in Nat /\ DOMAIN stack = 1..Len(stack) /\ \A k \in 1..Len(stack) : stack[k] \in Frame
  BY <1>1, ElementOfSeq, LenProperties
<1>3. \A f \in Frame : f.index \in Nat /\ f.nextFree \in Pointer /\ f.endChunk \in Chunk
  BY DEF Frame
<1> QED
  BY <1>1, <1>2, <1>3

\* newData() from the current chunk: a piece above the bump pointer.
LEMMA NewDataFitsKeeps ==
    ASSUME IInv, NEW size \in 1..chunkSizeBytes, NewDataFits(size)
    PROVE  IInv'
<1> DEFINE from == nextFree.off
           to == from + size
           new == [id |-> count + 1, region |-> Len(stack), chunk |-> endChunk,
                   from |-> from, to |-> to]
<1>0. TypeOK /\ Lists /\ Current /\ Frames /\ Covered /\ AllocationsDisjoint
  BY DEF IInv
<1>1. /\ UNCHANGED <<chunkList, freeChunks, endChunk, indexChunkList, stack>>
      /\ count' = count + 1 /\ live' = live \cup {new}
      /\ nextFree' = [chunk |-> endChunk, off |-> to]
  BY <1>0 DEF NewDataFits, HandOut, Current
<1>2. /\ from \in 0..chunkSizeBytes /\ to \in 0..chunkSizeBytes /\ from < to
      /\ count \in Nat /\ count + 1 \in 1..MaxData /\ Len(stack) \in 0..MaxRegions
      /\ chunkSizeBytes \in Nat
  BY <1>0, ContextMemoryManagerAssumption DEF NewDataFits, TypeOK, Pointer
<1>3. new \in Allocation
  BY <1>0, <1>2 DEF Allocation, TypeOK
<1> HIDE DEF to
<1>4. TypeOK'
  BY SMTT(30), <1>0, <1>1, <1>2, <1>3 DEF TypeOK, Pointer
<1>5. Lists' /\ Frames' /\ Current'
  BY ZenonT(60), <1>0, <1>1 DEF Lists, InUse, Free, Frames, Current
<1>6. /\ DOMAIN chunkList = 1..indexChunkList + 1 /\ indexChunkList \in Nat
      /\ endChunk = chunkList[indexChunkList + 1]
      /\ \A a \in live : a.to \in Nat /\ a.id \in Nat
  BY SMTT(30), <1>0, <1>2 DEF TypeOK, Current, Allocation
<1>7. /\ new.id <= count' /\ new.region <= Len(stack)
      /\ \A k \in DOMAIN stack : ~(new.region < k)
      /\ new.chunk = endChunk /\ new.from = from /\ new.to = to
  BY <1>0, <1>1, <1>2 DEF TypeOK
<1>8. Below(chunkList, new, indexChunkList, to)
  BY <1>2, <1>6, <1>7 DEF Below
<1> HIDE DEF new
<1>9. Covered'
  <2>1. ASSUME NEW a \in live PROVE Below(chunkList, a, indexChunkList, to)
    <3>1. Below(chunkList, a, indexChunkList, from)
      BY <1>0 DEF Covered
    <3>2. from \in Nat /\ to \in Nat /\ from <= to /\ a.to \in Nat /\ indexChunkList \in Nat
      BY <1>2, <1>6
    <3> HIDE DEF from
    <3> QED
      BY <3>1, <3>2, BelowMore
  <2>2. \A a \in live : /\ a.id <= count + 1 /\ a.region <= Len(stack)
                        /\ \A k \in DOMAIN stack : a.region < k =>
                              Below(chunkList, a, stack[k].index, stack[k].nextFree.off)
    BY SMTT(30), <1>0, <1>2, <1>6 DEF Covered
  <2>3. nextFree'.off = to
    BY <1>1
  <2> QED
    BY <1>1, <1>7, <1>8, <2>1, <2>2, <2>3 DEF Covered
<1>10. AllocationsDisjoint'
  <2>1. \A a \in live : a.chunk # endChunk \/ a.to <= from
    BY <1>0, <1>6 DEF Covered, Below, Lists, Distinct
  <2>2. \A a, b \in live' : a.id # b.id => a.chunk # b.chunk \/ a.to <= b.from \/ b.to <= a.from
    BY <1>0, <1>1, <1>7, <2>1, Apart DEF AllocationsDisjoint
  <2>3. endChunk \in InUse
    BY <1>6 DEF InUse
  <2>4. \A a \in live' : a.chunk \in InUse' /\ a.to <= chunkSizeBytes
    BY <1>0, <1>1, <1>2, <1>7, <2>3 DEF AllocationsDisjoint, InUse
  <2> QED
    BY <2>2, <2>4 DEF AllocationsDisjoint
<1> QED
  BY <1>4, <1>5, <1>9, <1>10 DEF IInv
\* newData() from a chunk that was free or comes from malloc.
LEMMA NewDataChunkKeeps ==
    ASSUME IInv, NEW size \in 1..chunkSizeBytes, NewDataChunk(size)
    PROVE  IInv'
<1>0. TypeOK /\ Lists /\ Current /\ Frames /\ Covered /\ AllocationsDisjoint
  BY DEF IInv
<1>1. PICK c \in Chunk : /\ TakeFree(c) /\ chunkList' = Append(chunkList, c) /\ endChunk' = c
                         /\ HandOut(c, 0, size)
  BY DEF NewDataChunk
<1> DEFINE new == [id |-> count + 1, region |-> Len(stack), chunk |-> c, from |-> 0, to |-> size]
           n == indexChunkList
<1>2. /\ indexChunkList' = n + 1 /\ stack' = stack
      /\ count' = count + 1 /\ live' = live \cup {new}
      /\ nextFree' = [chunk |-> c, off |-> size]
  BY <1>1 DEF NewDataChunk, HandOut
<1>3. /\ size \in 0..chunkSizeBytes /\ size \in Nat /\ size # 0 /\ chunkSizeBytes \in Nat
      /\ 0 \in 0..chunkSizeBytes
      /\ count \in Nat /\ count + 1 \in 1..MaxData /\ Len(stack) \in 0..MaxRegions
  BY <1>0, ContextMemoryManagerAssumption DEF NewDataChunk, TypeOK
<1>4. /\ new \in Allocation /\ new.id = count + 1 /\ new.region = Len(stack)
      /\ new.chunk = c /\ new.from = 0 /\ new.to = size
  BY <1>0, <1>3 DEF Allocation, TypeOK
<1>5. /\ n \in Nat /\ Len(chunkList) = n + 1 /\ DOMAIN chunkList = 1..n + 1
      /\ chunkList \in Seq(Chunk)
      /\ \A a \in live : a.to \in Nat /\ a.id \in Nat
  BY <1>0 DEF TypeOK, Current, Allocation
<1>6. /\ chunkList' \in Seq(Chunk) /\ Len(chunkList') = n + 2 /\ DOMAIN chunkList' = 1..n + 2
      /\ \A i \in 1..n + 1 : chunkList'[i] = chunkList[i]
      /\ chunkList'[n + 2] = c
  BY <1>1, <1>5, Appended
<1> HIDE DEF new
<1>7. c \notin InUse /\ freeChunks' \in Seq(Chunk) /\ Distinct(freeChunks')
      /\ Len(freeChunks') <= maxFreeChunks
      /\ \A i \in DOMAIN freeChunks' : freeChunks'[i] \in Free /\ freeChunks'[i] # c
  <2>1. CASE freeChunks = << >>
    BY <1>0, <1>1, <2>1 DEF TakeFree, Lists, TypeOK
  <2>2. CASE freeChunks # << >>
    <3> DEFINE f == Len(freeChunks)
    <3>1. f \in Nat \ {0} /\ DOMAIN freeChunks = 1..f /\ freeChunks \in Seq(Chunk)
      BY <1>0, <2>2 DEF TypeOK
    <3>2. c = freeChunks[f] /\ freeChunks' = SubSeq(freeChunks, 1, f - 1)
      BY <1>1, <2>2 DEF TakeFree
    <3>3. /\ freeChunks' \in Seq(Chunk) /\ Len(freeChunks') = f - 1 /\ DOMAIN freeChunks' = 1..f - 1
          /\ \A i \in 1..f - 1 : freeChunks'[i] = freeChunks[i]
      BY <3>1, <3>2, Cut
    <3>4. Distinct(freeChunks')
      BY <1>0, <3>1, <3>2, DistinctCut DEF Lists
    <3>5. c \in Free /\ \A i \in 1..f - 1 : freeChunks[i] \in Free /\ freeChunks[i] # c
      BY SMTT(30), <1>0, <3>1, <3>2 DEF Free, Lists, Distinct
    <3>6. f <= maxFreeChunks
      BY <1>0 DEF Lists
    <3> QED
      BY SMTT(30), <1>0, <3>1, <3>3, <3>4, <3>5, <3>6, ContextMemoryManagerAssumption
         DEF Lists
  <2> QED
    BY <2>1, <2>2
<1>8. TypeOK'
  <2>1. [chunk |-> c, off |-> size] \in Pointer
    BY <1>3 DEF Pointer
  <2> QED
    BY <1>0, <1>1, <1>2, <1>3, <1>4, <1>5, <1>6, <1>7, <2>1 DEF TypeOK
<1>9. Lists'
  <2>1. Distinct(chunkList')
    BY <1>0, <1>1, <1>5, <1>7, DistinctAppended DEF Lists, InUse
  <2>2. InUse' = InUse \cup {c}
    BY <1>5, <1>6 DEF InUse
  <2>3. Free' \subseteq Free /\ c \notin Free'
    BY <1>7 DEF Free
  <2> QED
    BY <1>0, <1>7, <2>1, <2>2, <2>3 DEF Lists
<1>10. Current'
  BY <1>1, <1>2, <1>5, <1>6 DEF Current
<1>11. Frames'
  <2>1. \A k \in DOMAIN stack : stack[k].index \in Nat
    BY <1>0, FrameTypes
  <2> QED
    BY <1>0, <1>2, <1>5, <1>6, <2>1 DEF Frames
<1>12. Covered'
  <2>1. Below(chunkList', new, n + 1, size)
    BY <1>4, <1>5, <1>6 DEF Below
  <2>2. ASSUME NEW a \in live PROVE Below(chunkList', a, n + 1, size)
    <3>1. Below(chunkList', a, n, nextFree.off)
      BY <1>0, <1>5, <1>6, StaysBelow DEF Covered
    <3>2. nextFree.off \in Nat
      BY <1>0 DEF TypeOK, Pointer
    <3> QED
      BY <1>3, <1>5, <3>1, <3>2, BelowMore
  <2>3. ASSUME NEW a \in live, NEW k \in DOMAIN stack, a.region < k
        PROVE  Below(chunkList', a, stack[k].index, stack[k].nextFree.off)
    <3>1. stack[k].index \in Nat /\ stack[k].index < n + 1
      BY <1>0, <1>5, FrameTypes DEF Frames
    <3>2. Below(chunkList, a, stack[k].index, stack[k].nextFree.off)
      BY <1>0, <2>3 DEF Covered
    <3>3. \A p \in 1..stack[k].index + 1 : chunkList'[p] = chunkList[p]
      BY <1>5, <1>6, <3>1
    <3> QED
      BY <3>1, <3>2, <3>3, StaysBelow
  <2>4. \A a \in live : a.id <= count + 1 /\ a.region <= Len(stack)
    BY <1>0, <1>3, <1>5 DEF Covered
  <2>5. nextFree'.off = size /\ \A k \in DOMAIN stack : ~(new.region < k)
    BY <1>0, <1>2, <1>3, <1>4 DEF TypeOK
  <2>6. new.id <= count + 1 /\ new.region <= Len(stack)
    BY <1>3, <1>4
  <2> QED
    BY <1>2, <2>1, <2>2, <2>3, <2>4, <2>5, <2>6 DEF Covered
<1>13. AllocationsDisjoint'
  <2>1. \A a \in live : a.chunk # c
    BY <1>0, <1>7 DEF AllocationsDisjoint
  <2>2. \A a, b \in live' : a.id # b.id => a.chunk # b.chunk \/ a.to <= b.from \/ b.to <= a.from
    BY <1>0, <1>2, <1>4, <2>1, Apart DEF AllocationsDisjoint
  <2>3. InUse \subseteq InUse' /\ c \in InUse'
    BY <1>5, <1>6 DEF InUse
  <2>4. \A a \in live' : a.chunk \in InUse' /\ a.to <= chunkSizeBytes
    BY <1>0, <1>2, <1>3, <1>4, <2>3 DEF AllocationsDisjoint
  <2> QED
    BY <2>2, <2>4 DEF AllocationsDisjoint
<1> QED
  BY <1>8, <1>9, <1>10, <1>11, <1>12, <1>13 DEF IInv

\* push(): what is handed out lies below the pointer that is saved.
LEMMA PushKeeps == IInv /\ Push => IInv'
<1> SUFFICES ASSUME IInv, Push PROVE IInv'
  OBVIOUS
<1> DEFINE frame == [nextFree |-> nextFree, endChunk |-> endChunk, index |-> indexChunkList]
           n == Len(stack)
<1>0. TypeOK /\ Lists /\ Current /\ Frames /\ Covered /\ AllocationsDisjoint
  BY DEF IInv
<1>1. /\ stack' = Append(stack, frame) /\ n < MaxRegions
      /\ UNCHANGED <<chunkList, freeChunks, nextFree, endChunk, indexChunkList, live, count>>
  BY DEF Push
<1>2. /\ frame \in Frame /\ frame.index = indexChunkList
      /\ frame.nextFree = nextFree /\ frame.endChunk = endChunk
  BY <1>0 DEF TypeOK, Frame
<1>3. /\ n \in Nat /\ DOMAIN stack = 1..n /\ stack \in Seq(Frame)
      /\ \A k \in 1..n : stack[k].index \in Nat
  BY <1>0, FrameTypes
<1> HIDE DEF frame
<1>4. /\ stack' \in Seq(Frame) /\ Len(stack') = n + 1 /\ DOMAIN stack' = 1..n + 1
      /\ \A k \in 1..n : stack'[k] = stack[k]
      /\ stack'[n + 1] = frame
  BY <1>1, <1>2, <1>3, Appended
<1>5. TypeOK'
  BY <1>0, <1>1, <1>3, <1>4, ContextMemoryManagerAssumption DEF TypeOK
<1>6. Lists' /\ Current' /\ AllocationsDisjoint'
  BY ZenonT(60), <1>0, <1>1 DEF Lists, InUse, Free, Current, AllocationsDisjoint
<1>7. Frames'
  <2>1. /\ indexChunkList \in Nat /\ Len(chunkList) = indexChunkList + 1
        /\ nextFree.chunk = endChunk /\ endChunk = chunkList[indexChunkList + 1]
    BY <1>0 DEF TypeOK, Current
  <2>2. \A k \in 1..n + 1 : /\ stack'[k].index < Len(chunkList)
                            /\ stack'[k].nextFree.chunk = stack'[k].endChunk
                            /\ stack'[k].endChunk = chunkList[stack'[k].index + 1]
    <3> TAKE k \in 1..n + 1
    <3>1. CASE k \in 1..n
      BY <1>0, <1>3, <1>4, <3>1 DEF Frames
    <3>2. CASE k = n + 1
      BY <1>2, <1>4, <2>1, <3>2
    <3> QED
      BY <1>3, <3>1, <3>2
  <2>3. \A k \in 1..n : stack[k].index <= indexChunkList
    BY <1>0, <1>3, <2>1 DEF Frames
  <2>4. \A k, l \in 1..n + 1 : k <= l => stack'[k].index <= stack'[l].index
    <3> TAKE k, l \in 1..n + 1
    <3>1. CASE k \in 1..n /\ l \in 1..n
      BY <1>0, <1>3, <1>4, <3>1 DEF Frames
    <3>2. CASE k \in 1..n /\ l = n + 1
      BY <1>2, <1>4, <2>3, <3>2
    <3>3. CASE k = n + 1 /\ l = n + 1
      BY <1>2, <1>4, <2>1, <3>3
    <3> QED
      BY <1>3, <3>1, <3>2, <3>3
  <2> QED
    BY <1>1, <1>4, <2>2, <2>4 DEF Frames
<1>8. Covered'
  <2>1. \A a \in live : a.region \in Nat
    BY <1>0 DEF TypeOK, Allocation
  <2> QED
    BY <1>0, <1>1, <1>2, <1>3, <1>4, <2>1 DEF Covered
<1> QED
  BY <1>5, <1>6, <1>7, <1>8 DEF IInv

\* pop(): the pointer goes back to where everything that stays lies below it, and
\* the chunks that stay in use are the ones up to it.
LEMMA PopKeeps == IInv /\ Pop => IInv'
<1> SUFFICES ASSUME IInv, Pop PROVE IInv'
  OBVIOUS
<1> DEFINE n == Len(stack)
           frame == stack[n]
           index == frame.index
<1>0. TypeOK /\ Lists /\ Current /\ Frames /\ Covered /\ AllocationsDisjoint
  BY DEF IInv
<1>1. n \in Nat \ {0} /\ DOMAIN stack = 1..n /\ stack \in Seq(Frame) /\ n <= MaxRegions
  BY <1>0 DEF TypeOK, Pop
<1>2. /\ nextFree' = frame.nextFree /\ endChunk' = frame.endChunk /\ indexChunkList' = index
      /\ chunkList' = SubSeq(chunkList, 1, index + 1)
      /\ freeChunks' = Trim(freeChunks \o Released(index + 1))
      /\ stack' = SubSeq(stack, 1, n - 1)
      /\ live' = {a \in live : a.region < n}
      /\ count' = count
  BY DEF Pop
<1>3. /\ index \in Nat /\ frame.nextFree \in Pointer /\ frame.endChunk \in Chunk
      /\ index + 1 \in 0..Len(chunkList)
      /\ frame.nextFree.chunk = frame.endChunk /\ frame.endChunk = chunkList[index + 1]
  BY SMTT(30), <1>0, <1>1, FrameTypes DEF TypeOK, Frames
<1>4. /\ chunkList' \in Seq(Chunk) /\ Len(chunkList') = index + 1 /\ DOMAIN chunkList' = 1..index + 1
      /\ \A i \in 1..index + 1 : chunkList'[i] = chunkList[i]
  BY ZenonT(60), <1>0, <1>2, <1>3, Cut DEF TypeOK
<1>5. /\ stack' \in Seq(Frame) /\ Len(stack') = n - 1 /\ DOMAIN stack' = 1..n - 1
      /\ \A k \in 1..n - 1 : stack'[k] = stack[k]
  BY <1>1, <1>2, Cut
<1>6. /\ freeChunks' \in Seq(Chunk) /\ Len(freeChunks') <= maxFreeChunks /\ Distinct(freeChunks')
      /\ \A i \in DOMAIN freeChunks' :
            \/ freeChunks'[i] \in Free
            \/ \E j \in (index + 1) + 1..Len(chunkList) : freeChunks'[i] = chunkList[j]
  BY <1>0, <1>2, <1>3, Releasing
<1>7. TypeOK'
  <2>1. live \subseteq Allocation /\ count \in 0..MaxData
    BY <1>0 DEF TypeOK
  <2>2. nextFree' \in Pointer /\ endChunk' \in Chunk /\ indexChunkList' \in Nat
    BY <1>2, <1>3
  <2>3. Len(stack') <= MaxRegions
    BY <1>1, <1>5, ContextMemoryManagerAssumption
  <2>4. live' \subseteq Allocation /\ count' \in 0..MaxData
    BY <1>2, <2>1
  <2> QED
    BY <1>4, <1>5, <1>6, <2>2, <2>3, <2>4 DEF TypeOK
<1> HIDE DEF index, frame
<1>8. Lists'
  <2>1. Distinct(chunkList')
    BY <1>0, <1>2, <1>3, DistinctCut DEF Lists, TypeOK
  <2>2. InUse' \cap Free' = {}
    <3> SUFFICES ASSUME NEW i \in 1..index + 1, NEW j \in DOMAIN freeChunks',
                        chunkList[i] = freeChunks'[j]
                 PROVE  FALSE
      BY <1>4 DEF InUse, Free
    <3>1. DOMAIN chunkList = 1..Len(chunkList) /\ Len(chunkList) \in Nat
      BY <1>0 DEF TypeOK
    <3>2. i \in DOMAIN chunkList /\ chunkList[i] \in InUse
      BY <1>3, <3>1 DEF InUse
    <3>3. PICK k \in (index + 1) + 1..Len(chunkList) : chunkList[i] = chunkList[k]
      BY <1>0, <1>6, <3>2 DEF Lists
    <3>4. k \in DOMAIN chunkList /\ k # i
      BY <1>3, <3>1
    <3> QED
      BY <1>0, <3>2, <3>3, <3>4 DEF Lists, Distinct
  <2> QED
    BY <1>6, <2>1, <2>2 DEF Lists
<1>9. Current'
  BY <1>2, <1>3, <1>4 DEF Current
<1>10. Frames'
  <2>1. \A k \in 1..n - 1 : stack[k].index \in Nat /\ stack[k].index <= index
    BY SMTT(30), <1>0, <1>1, FrameTypes DEF Frames, index, frame
  <2>2. \A k \in 1..n - 1 : /\ stack'[k].index < Len(chunkList')
                            /\ stack'[k].nextFree.chunk = stack'[k].endChunk
                            /\ stack'[k].endChunk = chunkList'[stack'[k].index + 1]
    <3> TAKE k \in 1..n - 1
    <3>1. k \in DOMAIN stack /\ stack'[k] = stack[k]
      BY <1>1, <1>5
    <3>2. /\ stack[k].nextFree.chunk = stack[k].endChunk
          /\ stack[k].endChunk = chunkList[stack[k].index + 1]
      BY <1>0, <3>1 DEF Frames
    <3>3. stack[k].index + 1 \in 1..index + 1
      BY SMTT(30), <1>3, <2>1
    <3> QED
      BY SMTT(30), <1>3, <1>4, <2>1, <3>1, <3>2, <3>3
  <2>3. \A k, l \in 1..n - 1 : k <= l => stack'[k].index <= stack'[l].index
    <3>1. \A k \in 1..n - 1 : k \in DOMAIN stack /\ stack'[k] = stack[k]
      BY <1>1, <1>5
    <3> QED
      BY <1>0, <3>1 DEF Frames
  <2> QED
    BY <1>5, <2>2, <2>3 DEF Frames
<1>11. Covered'
  <2> SUFFICES ASSUME NEW a \in live, a.region < n
               PROVE  /\ a.id <= count /\ a.region <= n - 1
                      /\ Below(chunkList', a, index, frame.nextFree.off)
                      /\ \A k \in 1..n - 1 : a.region < k =>
                            Below(chunkList', a, stack[k].index, stack[k].nextFree.off)
    BY ZenonT(60), <1>2, <1>5 DEF Covered
  <2>1. a.id <= count /\ a.region \in Nat
    BY <1>0 DEF Covered, TypeOK, Allocation
  <2>2. \A k \in 1..n : a.region < k => Below(chunkList, a, stack[k].index, stack[k].nextFree.off)
    BY <1>0, <1>1 DEF Covered
  <2>3. \A k \in 1..n : stack[k].index \in Nat /\ stack[k].index <= index
    BY SMTT(30), <1>0, <1>1, FrameTypes DEF Frames, index, frame
  <2>4. ASSUME NEW k \in 1..n, a.region < k
        PROVE  Below(chunkList', a, stack[k].index, stack[k].nextFree.off)
    <3>1. \A p \in 1..stack[k].index + 1 : chunkList'[p] = chunkList[p]
      BY SMTT(30), <1>3, <1>4, <2>3
    <3> QED
      BY <2>2, <2>3, <2>4, <3>1, StaysBelow
  <2>5. Below(chunkList', a, index, frame.nextFree.off)
    BY <1>1, <2>4 DEF index, frame
  <2> QED
    BY <1>1, <2>1, <2>4, <2>5
<1>12. AllocationsDisjoint'
  <2>1. \A a \in live' : a.chunk \in InUse'
    <3> SUFFICES ASSUME NEW a \in live' PROVE \E p \in DOMAIN chunkList' : a.chunk = chunkList'[p]
      BY DEF InUse
    <3>1. Below(chunkList', a, indexChunkList', nextFree'.off)
      BY <1>11 DEF Covered
    <3> QED
      BY <1>2, <1>4, <3>1 DEF Below
  <2>2. live' \subseteq live
    BY <1>2
  <2> QED
    BY <1>0, <2>1, <2>2 DEF AllocationsDisjoint
<1> QED
  BY <1>7, <1>8, <1>9, <1>10, <1>11, <1>12 DEF IInv

\* The invariant holds in every reachable state.
LEMMA Invariance == Spec => []IInv
<1>1. ASSUME IInv, [Next]_vars PROVE IInv'
  <2>1. CASE \E size \in 1..chunkSizeBytes : NewDataFits(size) \/ NewDataChunk(size)
    BY <1>1, <2>1, NewDataFitsKeeps, NewDataChunkKeeps
  <2>2. CASE UNCHANGED vars
    BY ZenonT(60), <1>1, <2>2 DEF vars, IInv, TypeOK, Lists, InUse, Free, Current,
       Frames, Covered, AllocationsDisjoint
  <2> QED
    BY <1>1, <2>1, <2>2, PushKeeps, PopKeeps DEF Next
<1> QED
  BY <1>1, Initially, PTL DEF Spec

-----------------------------------------------------------------------------
(* What it implies. *)

\* newData() hands out memory that lies in a chunk in use and that nothing handed
\* out before shares, until pop() takes the region back.
THEOREM Disjointness == Spec => []AllocationsDisjoint
<1>1. IInv => AllocationsDisjoint
  BY DEF IInv
<1> QED
  BY <1>1, Invariance, PTL

\* newChunk() and pop() move chunks between the list in use and the free list:
\* none is lost from one and left in the other, none is in a list twice, the free
\* list is bounded, and the bump pointer is in the last chunk in use.
THEOREM OnePlace == Spec => []ChunksInOnePlace
<1>1. IInv => ChunksInOnePlace
  BY DEF IInv, ChunksInOnePlace, Lists, Distinct, Current
<1> QED
  BY <1>1, Invariance, PTL
=============================================================================
