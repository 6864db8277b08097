-------------------------------- MODULE Heap --------------------------------
(***************************************************************************)
(* The block allocator of elib/heap.go: blocks of an array, free blocks on *)
(* lists by size.  It hands out the memory of DMA buffers (MemHeap) and    *)
(* the entries of the adjacency and next-hop tables.                       *)
(*                                                                         *)
(* Elements are records linked in offset order; an element's size is the   *)
(* distance to its successor's offset.  Offsets and indices count from 0,  *)
(* positions on a free list too (free[k][fi + 1] is heap.free[k][fi]).     *)
(***************************************************************************)
EXTENDS Integers, Sequences, FiniteSets

CONSTANTS
  HeapMaxLen,   \* Heap.maxLen: 0 for no limit
  HeapSizes,    \* the sizes callers ask for
  HeapAligns    \* the log2 alignments callers ask for

ASSUME HeapAssumption ==
  /\ HeapMaxLen \in Nat
  /\ HeapSizes \subseteq Nat \ {0}
  /\ HeapAligns \subseteq Nat
  /\ \A k \in HeapAligns : 2 ^ k \in Nat \ {0}  \* which the provers do not know

VARIABLES
  heap,     \* elts, free, removed, head, tail, len, maxSize, panicked
  blocks    \* history: id -> offset and size its holder was promised

heapVars == <<heap, blocks>>

NoElt == -1      \* MaxIndex

Poison == [offset |-> NoElt, free |-> NoElt, next |-> NoElt, prev |-> NoElt]

EltCount(h) == Cardinality(DOMAIN h.elts)
FreeLists(h) == Cardinality(DOMAIN h.free)
IsFreeElt(h, ei) == h.elts[ei].free # NoElt

EltSize(h, ei) ==
  LET e == h.elts[ei]
  IN (IF e.next = NoElt THEN h.len ELSE h.elts[e.next].offset) - e.offset

(* Setting a link of an element that may not exist.                        *)
SetNext(elts, i, v) == IF i = NoElt THEN elts ELSE [elts EXCEPT ![i].next = v]
SetPrev(elts, i, v) == IF i = NoElt THEN elts ELSE [elts EXCEPT ![i].prev = v]

(* newElt: a removed element is used again before elts grows.              *)
NewEltIndex(h) ==
  IF h.removed # <<>> THEN h.removed[Len(h.removed)] ELSE EltCount(h)

NewElt(h) ==
  IF h.removed # <<>>
  THEN [h EXCEPT !.removed = SubSeq(@, 1, Len(@) - 1),
                 !.elts[NewEltIndex(h)] = Poison]
  ELSE [h EXCEPT !.elts = [i \in DOMAIN @ \cup {NewEltIndex(h)} |->
                             IF i \in DOMAIN @ THEN @[i] ELSE Poison]]

(* The list a block goes to is chosen by the largest size asked for so     *)
(* far: 0 when the block is larger.                                        *)
FreeElt(h, ei, size) ==
  LET k == IF size > h.maxSize THEN 0 ELSE size
      lists == [j \in DOMAIN h.free \cup 0 .. k |->
                  IF j \in DOMAIN h.free THEN h.free[j] ELSE <<>>]
  IN [h EXCEPT !.elts[ei].free = Len(lists[k]),
               !.free = [lists EXCEPT ![k] = Append(@, ei)]]

(* Entry fi of list k goes: the last entry takes its place.                *)
DropAt(h, k, fi) ==
  LET l == Len(h.free[k])
      gi == h.free[k][l]
      moved == IF fi < l - 1
               THEN [h EXCEPT !.free[k][fi + 1] = gi, !.elts[gi].free = fi]
               ELSE h
  IN [moved EXCEPT !.free[k] = SubSeq(@, 1, l - 1)]

(* The list is looked up by the number of lists; when the block is not on  *)
(* it at the place it remembers, panic("corrupt free list").               *)
RemoveFreeElt(h, ei, size) ==
  LET fi == h.elts[ei].free
      k == IF size >= FreeLists(h) THEN 0 ELSE size
      l == Len(h.free[k])
  IN IF fi < l /\ h.free[k][fi + 1] = ei
     THEN [DropAt(h, k, fi) EXCEPT !.elts[ei] = Poison,
                                   !.removed = Append(@, ei)]
     ELSE [h EXCEPT !.panicked = TRUE]

(* freeAfter: the last freeSize of block ei (of size eSize) become a free  *)
(* block.                                                                  *)
FreeAfter(h, ei, eSize, freeSize) ==
  LET fi == NewEltIndex(h)
      n == NewElt(h)
      e == h.elts[ei]
      f == [offset |-> e.offset + eSize - freeSize, free |-> NoElt,
            next |-> e.next, prev |-> ei]
      linked == [n EXCEPT
                   !.elts = [SetPrev(@, e.next, fi) EXCEPT ![fi] = f,
                                                           ![ei].next = fi],
                   !.tail = IF ei = @ THEN fi ELSE @]
  IN FreeElt(linked, fi, freeSize)

Got(h, ei) == [heap |-> h, id |-> ei, offset |-> h.elts[ei].offset]

(* From the list of the very size asked for: its last entry.               *)
GetExact(h, size) ==
  LET l == Len(h.free[size])
      ei == h.free[size][l]
  IN Got([h EXCEPT !.free[size] = SubSeq(@, 1, l - 1),
                   !.elts[ei].free = NoElt], ei)

(* From list 0, entry fi: the first block that is large enough, cut to     *)
(* size.                                                                   *)
GetLarge(h, fi, size) ==
  LET ei == h.free[0][fi + 1]
      es == EltSize(h, ei)
      taken == [DropAt(h, 0, fi) EXCEPT !.elts[ei].free = NoElt]
  IN Got(IF es > size THEN FreeAfter(taken, ei, es, es - size) ELSE taken, ei)

(* At the end of the array.                                                *)
GetEnd(h, size) ==
  LET start == IF h.len = 0 THEN [h EXCEPT !.head = 0, !.tail = NoElt] ELSE h
      ei == NewEltIndex(start)
      n == NewElt(start)
      e == [offset |-> start.len, free |-> NoElt,
            next |-> NoElt, prev |-> start.tail]
  IN Got([n EXCEPT !.elts = [SetNext(@, start.tail, ei) EXCEPT ![ei] = e],
                   !.len = @ + size, !.tail = ei], ei)

LargeEnough(h, size) ==
  IF FreeLists(h) = 0 THEN {}
  ELSE {fi \in 0 .. Len(h.free[0]) - 1 : EltSize(h, h.free[0][fi + 1]) >= size}

(* Heap.get with the largest size already noted; id NoElt stands for       *)
(* panic(ErrHeapOverflow), which leaves the lists as they are.             *)
GetNoted(h, size) ==
  LET fits == LargeEnough(h, size)
  IN CASE size < FreeLists(h) /\ h.free[size] # <<>> -> GetExact(h, size)
       [] ~(size < FreeLists(h) /\ h.free[size] # <<>>) /\ fits # {} ->
            GetLarge(h, CHOOSE fi \in fits : \A fj \in fits : fi <= fj, size)
       [] OTHER -> IF HeapMaxLen # 0 /\ h.len + size > HeapMaxLen
                   THEN [heap |-> h, id |-> NoElt, offset |-> 0]
                   ELSE GetEnd(h, size)

GetBlock(h, sizeArg, size) ==
  GetNoted([h EXCEPT !.maxSize = IF sizeArg > @ THEN sizeArg ELSE @], size)

(* Put's joining of a free predecessor, then of a free successor.          *)
JoinPrev(h, ei) ==
  LET e == h.elts[ei]
      pi == e.prev
      p == h.elts[pi]
      joined == [h EXCEPT
        !.elts = [SetNext(@, p.prev, ei) EXCEPT ![ei].offset = p.offset,
                                                ![ei].prev = p.prev],
        !.head = IF pi = @ THEN ei ELSE @]
  IN IF pi = NoElt THEN h
     ELSE IF ~IsFreeElt(h, pi) THEN h
     ELSE RemoveFreeElt(joined, pi, e.offset - p.offset)

(* Bug form: the successor is never joined.                                *)
JoinNextNot(h, ei) == h

JoinNext(h, ei) ==
  LET e == h.elts[ei]
      ni == e.next
      n == h.elts[ni]
      joined == [h EXCEPT
        !.elts = [SetPrev(@, n.next, ei) EXCEPT ![ei].next = n.next],
        !.tail = IF ni = @ THEN ei ELSE @]
  IN IF h.panicked \/ ni = NoElt THEN h
     ELSE IF ~IsFreeElt(h, ni) THEN h
     ELSE RemoveFreeElt(joined, ni, EltSize(h, ni))

PutBlock(h, ei) ==
  LET joined == JoinNext(JoinPrev(h, ei), ei)
  IN IF joined.panicked THEN joined
     ELSE FreeElt(joined, ei, EltSize(joined, ei))

(* newEltBefore and newEltAfter with the offsets GetAligned then writes.   *)
InsertBefore(h, ei, ao) ==
  LET pi == NewEltIndex(h)
      n == NewElt(h)
      e == h.elts[ei]
      p == [offset |-> e.offset, free |-> NoElt, next |-> ei, prev |-> e.prev]
  IN [n EXCEPT !.elts = [SetNext(@, e.prev, pi) EXCEPT
                           ![pi] = p, ![ei].prev = pi, ![ei].offset = ao],
               !.head = IF e.prev = NoElt THEN pi ELSE @]

InsertAfter(h, ei, o) ==
  LET ni == NewEltIndex(h)
      n == NewElt(h)
      e == h.elts[ei]
      new == [offset |-> o, free |-> NoElt, next |-> e.next, prev |-> ei]
  IN [n EXCEPT !.elts = [SetPrev(@, e.next, ni) EXCEPT
                           ![ni] = new, ![ei].next = ni],
               !.tail = IF e.next = NoElt THEN ni ELSE @]

(* Bug form: the block is not trimmed to the size asked for.               *)
TrimNot(h, ei, ao, end, size) == h

(* GetAligned gives back what lies before the aligned offset ao and what   *)
(* lies after the size asked for.                                          *)
Trim(h, ei, ao, end, size) ==
  LET before == IF ao = h.elts[ei].offset THEN h
                ELSE PutBlock(InsertBefore(h, ei, ao), NewEltIndex(h))
  IN IF before.panicked \/ end <= ao + size THEN before
     ELSE PutBlock(InsertAfter(before, ei, ao + size), NewEltIndex(before))

HeapInit ==
  /\ heap = [elts |-> <<>>, free |-> <<>>, removed |-> <<>>,
             head |-> 0, tail |-> 0, len |-> 0, maxSize |-> 0,
             panicked |-> FALSE]
  /\ blocks = <<>>
-----------------------------------------------------------------------------
(* Get is GetAligned with alignment 0.                                     *)
HeapGetAligned(size, log2Alignment) ==
  LET a == 2 ^ log2Alignment
      s == size + a - 1
      got == GetBlock(heap, size, s)
      ao == ((got.offset + a - 1) \div a) * a
      trimmed == IF log2Alignment = 0 THEN got.heap
                 ELSE Trim(got.heap, got.id, ao, got.offset + s, size)
  IN /\ ~heap.panicked
     /\ IF got.id = NoElt
        THEN heap' = got.heap /\ UNCHANGED blocks
        ELSE /\ heap' = trimmed
             /\ blocks' = [i \in DOMAIN blocks \cup {got.id} |->
                            IF i \in DOMAIN blocks THEN blocks[i]
                            ELSE [offset |-> ao, size |-> size]]

(* A holder puts its block back; "duplicate free" is a caller's error.     *)
HeapPut(id) ==
  /\ ~heap.panicked
  /\ heap' = PutBlock(heap, id)
  /\ blocks' = [i \in DOMAIN blocks \ {id} |-> blocks[i]]

HeapNext ==
  \/ \E s \in HeapSizes, a \in HeapAligns : HeapGetAligned(s, a)
  \/ \E id \in DOMAIN blocks : HeapPut(id)
-----------------------------------------------------------------------------
LiveElts == DOMAIN heap.elts \ {heap.removed[k] : k \in 1 .. Len(heap.removed)}

(* The elements in use, walked by their links, tile 0 .. len without gap   *)
(* or overlap, prev mirrors next, and head and tail are the two ends.      *)
Tiled ==
  LET E == heap.elts
  IN /\ \A i \in LiveElts :
          /\ EltSize(heap, i) > 0
          /\ IF E[i].prev = NoElt THEN i = heap.head /\ E[i].offset = 0
                                  ELSE E[E[i].prev].next = i
          /\ IF E[i].next = NoElt THEN i = heap.tail
                                  ELSE E[E[i].next].prev = i
     /\ \A i, j \in LiveElts : i # j => E[i].offset # E[j].offset

(* A block stays where its holder was told it is, with the size asked for, *)
(* and overlaps no other, whatever is allocated, trimmed, freed and joined *)
(* around it.                                                              *)
BlocksKept ==
  ~heap.panicked =>
    /\ heap.len # 0 => Tiled
    /\ \A id \in DOMAIN blocks :
         /\ id \in LiveElts
         /\ ~IsFreeElt(heap, id)
         /\ heap.elts[id].offset = blocks[id].offset
         /\ EltSize(heap, id) = blocks[id].size

(* The free lists hold exactly the free elements, each at the place it     *)
(* remembers; list k > 0 holds blocks of size k only, so that a block      *)
(* taken from it needs no cutting.                                         *)
FreeListsMatch ==
  /\ \A i \in LiveElts : IsFreeElt(heap, i) =>
       \E k \in DOMAIN heap.free :
         /\ heap.elts[i].free < Len(heap.free[k])
         /\ heap.free[k][heap.elts[i].free + 1] = i
  /\ \A k \in DOMAIN heap.free : \A fi \in 1 .. Len(heap.free[k]) :
       LET i == heap.free[k][fi]
       IN /\ i \in LiveElts /\ heap.elts[i].free = fi - 1
          /\ k > 0 => EltSize(heap, i) = k

(* Nothing of the array is lost to later requests: every element that no   *)
(* caller holds is free, on the right list, and joined with its free       *)
(* neighbours.                                                             *)
NothingLeaks ==
  ~heap.panicked =>
    /\ FreeListsMatch
    /\ \A i \in LiveElts \ DOMAIN blocks :
         /\ IsFreeElt(heap, i)
         /\ heap.elts[i].next # NoElt => heap.elts[i].next \in DOMAIN blocks

(* panic("corrupt free list") is the code's own assertion that a free      *)
(* block is found on the list of its size (heap.go:154; the test's         *)
(* validate says the same).                                                *)
NoCorruptFreeList == ~heap.panicked
=============================================================================
