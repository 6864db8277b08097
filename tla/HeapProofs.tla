----------------------------- MODULE HeapProofs -----------------------------
(***************************************************************************)
(* Proofs about Heap for every maximal length, every set of sizes and      *)
(* every set of alignments.                                                *)
(*                                                                         *)
(* Get, GetAligned and Put are made of a few operations on the linked      *)
(* elements: cut an element in two, join two, put one on a free list, take *)
(* one off.  Each keeps HeapOK(h, B), where B are the elements that are    *)
(* held at that point, the ones the operation itself holds included.       *)
(***************************************************************************)
EXTENDS Heap, FiniteSetTheorems, WellFoundedInduction, TLAPS

(* The specification of the allocator by itself.                           *)
HeapSpec == HeapInit /\ [][HeapNext]_heapVars

(* The types: elements are numbered from 0, and so are the free lists.     *)
Elt == [offset : Int, free : Int, next : Int, prev : Int]
AllElts == UNION {[0 .. n - 1 -> Elt] : n \in Nat}
AllLists == UNION {[0 .. n - 1 -> Seq(Int)] : n \in Nat}
HeapRec == [elts : AllElts, free : AllLists, removed : Seq(Int), head : Int,
            tail : Int, len : Nat, maxSize : Nat, panicked : BOOLEAN]

(* The elements that were removed, and the ones that are in use.           *)
Gone(R) == {R[k] : k \in 1 .. Len(R)}
Live(h) == DOMAIN h.elts \ Gone(h.removed)

(* Removed elements exist, and none is removed twice.                      *)
RemovedOK(E, R) ==
  /\ Gone(R) \subseteq DOMAIN E
  /\ \A k, l \in 1 .. Len(R) : R[k] = R[l] => k = l

(* Where element i ends, in an array of length n.                          *)
End(E, n, i) == IF E[i].next = NoElt THEN n ELSE E[E[i].next].offset

(* The live elements are linked both ways, not empty, inside the array and *)
(* pairwise disjoint; head and tail are the only ends.                     *)
LinksOK(E, L, n, hd, tl) ==
  /\ \A i \in L : /\ E[i].offset \in Nat
                  /\ E[i].offset < End(E, n, i)
                  /\ End(E, n, i) <= n
  /\ \A i \in L : E[i].prev # NoElt => E[i].prev \in L /\ E[E[i].prev].next = i
  /\ \A i \in L : E[i].prev = NoElt => i = hd /\ E[i].offset = 0
  /\ \A i \in L : E[i].next # NoElt => E[i].next \in L /\ E[E[i].next].prev = i
  /\ \A i \in L : E[i].next = NoElt => i = tl
  /\ n # 0 => tl \in L /\ E[tl].next = NoElt
  /\ \A i, j \in L : i # j => \/ End(E, n, i) <= E[j].offset
                              \/ End(E, n, j) <= E[i].offset

(* Element i is entry f of list k.                                         *)
At(F, k, f, i) == k \in DOMAIN F /\ f \in 0 .. Len(F[k]) - 1 /\ F[k][f + 1] = i

(* Free elements are on exactly one list, at the place they remember.      *)
ListsOK(E, F, L) ==
  /\ \A i \in L : E[i].free # NoElt => \E k \in DOMAIN F : At(F, k, E[i].free, i)
  /\ \A k \in DOMAIN F : \A f \in 0 .. Len(F[k]) - 1 :
       F[k][f + 1] \in L /\ E[F[k][f + 1]].free = f
  /\ \A k, l \in DOMAIN F :
       \A f \in 0 .. Len(F[k]) - 1, g \in 0 .. Len(F[l]) - 1 :
         F[k][f + 1] = F[l][g + 1] => k = l

(* A list k > 0 has blocks of size k only.                                 *)
SizesOK(E, F, n) ==
  \A k \in DOMAIN F : \A f \in 0 .. Len(F[k]) - 1 :
    k > 0 => End(E, n, F[k][f + 1]) = E[F[k][f + 1]].offset + k

(* Everything that is not held is free, and its successor is held.         *)
HeldOK(E, L, B) ==
  /\ B \subseteq L
  /\ \A i \in L : E[i].free = NoElt <=> i \in B
  /\ \A i \in L \ B : E[i].next # NoElt => E[i].next \in B

(* A heap in order in which the elements B are held.                       *)
HeapOK(h, B) ==
  /\ h \in HeapRec
  /\ ~h.panicked
  /\ h.len = 0 => DOMAIN h.elts = {}
  /\ RemovedOK(h.elts, h.removed)
  /\ LinksOK(h.elts, Live(h), h.len, h.head, h.tail)
  /\ ListsOK(h.elts, h.free, Live(h))
  /\ SizesOK(h.elts, h.free, h.len)
  /\ HeldOK(h.elts, Live(h), B)

(* Blocks that are held stay where they are, with their size.              *)
Same(g, h, B) ==
  \A i \in B : /\ h.elts[i].offset = g.elts[i].offset
               /\ End(h.elts, h.len, i) = End(g.elts, g.len, i)

(* The inductive invariant: until a list is found corrupt, the heap is in  *)
(* order with the callers' blocks held, each where its holder was told.    *)
HeapInv ==
  ~heap.panicked =>
    /\ HeapOK(heap, DOMAIN blocks)
    /\ \A id \in DOMAIN blocks :
         /\ blocks[id].size \in Nat
         /\ heap.elts[id].offset = blocks[id].offset
         /\ End(heap.elts, heap.len, id) = blocks[id].offset + blocks[id].size
-----------------------------------------------------------------------------
(* A set of natural numbers has a least one, which the search of list 0    *)
(* finds.                                                                  *)
LEMMA LeastOfNat ==
  ASSUME NEW S \in SUBSET Nat, S # {}
  PROVE  \E n \in S : \A m \in S : n <= m
<1> DEFINE R == {ss \in Nat \X Nat : ss[1] < ss[2]}
<1>1. IsWellFoundedOn(R, Nat)
  BY NatLessThanWellFounded DEF OpToRel
<1> HIDE DEF R
<1>2. PICK n \in S : \A m \in S : ~(<<m, n>> \in R)
  BY <1>1, WFMin
<1>3. ASSUME NEW m \in S PROVE n <= m
  <2>1. ~(<<m, n>> \in R)
    BY <1>2
  <2>2. QED BY <2>1 DEF R
<1>4. QED BY <1>3

(* How an operation changes the links of the elements L from E to G: cut e *)
(* at o, m the second part or the first; join e with p before it or with m *)
(* after it; add m at the end of an array of length n.                     *)
IsCutAfter(E, G, L, e, o, m) ==
  /\ \A i \in L : G[i].offset = E[i].offset
  /\ \A i \in L : G[i].prev = IF i = E[e].next THEN m ELSE E[i].prev
  /\ \A i \in L : G[i].next = IF i = e THEN m ELSE E[i].next
  /\ G[m].offset = o /\ G[m].next = E[e].next /\ G[m].prev = e

IsCutBefore(E, G, L, e, o, m) ==
  /\ \A i \in L : G[i].offset = IF i = e THEN o ELSE E[i].offset
  /\ \A i \in L : G[i].prev = IF i = e THEN m ELSE E[i].prev
  /\ \A i \in L : G[i].next = IF i = E[e].prev THEN m ELSE E[i].next
  /\ G[m].offset = E[e].offset /\ G[m].next = e /\ G[m].prev = E[e].prev

IsMergePrev(E, G, L, e, p) ==
  /\ \A i \in L \ {p} : G[i].offset = IF i = e THEN E[p].offset ELSE E[i].offset
  /\ \A i \in L \ {p} : G[i].prev = IF i = e THEN E[p].prev ELSE E[i].prev
  /\ \A i \in L \ {p} : G[i].next = IF i = E[p].prev THEN e ELSE E[i].next

IsMergeNext(E, G, L, e, m) ==
  /\ \A i \in L \ {m} : G[i].offset = E[i].offset
  /\ \A i \in L \ {m} : G[i].next = IF i = e THEN E[m].next ELSE E[i].next
  /\ \A i \in L \ {m} : G[i].prev = IF i = E[m].next THEN e ELSE E[i].prev

IsGrown(E, G, L, n, tl, m) ==
  /\ \A i \in L : G[i].offset = E[i].offset
  /\ \A i \in L : G[i].prev = E[i].prev
  /\ \A i \in L : G[i].next = IF i = tl THEN m ELSE E[i].next
  /\ G[m].offset = n /\ G[m].next = NoElt /\ G[m].prev = IF n = 0 THEN NoElt ELSE tl

(* The blocks K keep their end.                                            *)
EndsKept(E, n, G, n2, K) == \A i \in K : End(G, n2, i) = End(E, n, i)

(* Block e now ends at o, and m where e ended.                             *)
CutEnds(E, n, G, e, o, m) == End(G, n, e) = o /\ End(G, n, m) = End(E, n, e)

(* Elements L keep offset and links.                                       *)
SameLinks(E, G, L) ==
  \A i \in L : /\ G[i].offset = E[i].offset /\ G[i].next = E[i].next
               /\ G[i].prev = E[i].prev

(* S is E with one link set to v, that of i, which may not exist.          *)
IsSetNext(S, E, i, v) ==
  /\ S \in AllElts /\ DOMAIN S = DOMAIN E
  /\ \A j \in DOMAIN E : S[j].offset = E[j].offset
  /\ \A j \in DOMAIN E : S[j].free = E[j].free
  /\ \A j \in DOMAIN E : S[j].prev = E[j].prev
  /\ \A j \in DOMAIN E : S[j].next = IF j = i THEN v ELSE E[j].next

IsSetFree(S, E, i, v) ==
  /\ S \in AllElts /\ DOMAIN S = DOMAIN E
  /\ \A j \in DOMAIN E : S[j].offset = E[j].offset
  /\ \A j \in DOMAIN E : S[j].next = E[j].next
  /\ \A j \in DOMAIN E : S[j].prev = E[j].prev
  /\ \A j \in DOMAIN E : S[j].free = IF j = i THEN v ELSE E[j].free

IsSetPrev(S, E, i, v) ==
  /\ S \in AllElts /\ DOMAIN S = DOMAIN E
  /\ \A j \in DOMAIN E : S[j].offset = E[j].offset
  /\ \A j \in DOMAIN E : S[j].free = E[j].free
  /\ \A j \in DOMAIN E : S[j].next = E[j].next
  /\ \A j \in DOMAIN E : S[j].prev = IF j = i THEN v ELSE E[j].prev
-----------------------------------------------------------------------------
(* Cutting element e at o: the new element m is the second part.           *)
LEMMA CutAfter ==
  ASSUME NEW E, NEW L \in SUBSET Nat, NEW n \in Nat, NEW hd, NEW tl,
         LinksOK(E, L, n, hd, tl),
         NEW e \in L, NEW o \in Nat, E[e].offset < o, o < End(E, n, e),
         NEW m \in Nat, m \notin L, NEW G, IsCutAfter(E, G, L, e, o, m)
  PROVE  /\ EndsKept(E, n, G, n, L \ {e})
         /\ CutEnds(E, n, G, e, o, m)
         /\ LinksOK(G, L \cup {m}, n, hd, IF E[e].next = NoElt THEN m ELSE tl)
<1> USE DEF IsCutAfter
<1>0. NoElt = -1 /\ NoElt \notin Nat
  BY DEF NoElt
<1>1. /\ \A i \in L : E[i].next # NoElt => E[i].next \in L /\ E[E[i].next].prev = i
      /\ \A i \in L : E[i].prev # NoElt => E[i].prev \in L /\ E[E[i].prev].next = i
      /\ \A i \in L : E[i].prev = NoElt => i = hd /\ E[i].offset = 0
      /\ \A i \in L : E[i].next = NoElt => i = tl
      /\ n # 0 => tl \in L /\ E[tl].next = NoElt
  BY DEF LinksOK
<1>2. \A i \in L : E[i].offset \in Nat /\ E[i].offset < End(E, n, i) /\ End(E, n, i) <= n
  BY DEF LinksOK
<1>3. \A i, j \in L : i # j => End(E, n, i) <= E[j].offset \/ End(E, n, j) <= E[i].offset
  BY DEF LinksOK
<1>4. ASSUME NEW i \in L PROVE End(E, n, i) \in Int
  <2>1. CASE E[i].next = NoElt
    BY <2>1 DEF End
  <2>2. CASE E[i].next # NoElt
    <3>1. E[i].next \in L
      BY <1>1, <2>2
    <3>2. E[E[i].next].offset \in Nat
      BY <1>2, <3>1
    <3>3. QED BY <2>2, <3>2 DEF End
  <2>3. QED BY <2>1, <2>2
<1>5. \A i \in L \ {e} : End(G, n, i) = End(E, n, i)
  BY <1>0, <1>1 DEF End
<1>6. End(G, n, e) = o
  BY <1>0 DEF End
<1>7. End(G, n, m) = End(E, n, e)
  BY <1>0, <1>1, ZenonT(40) DEF End
<1> DEFINE M == L \cup {m}
           tm == IF E[e].next = NoElt THEN m ELSE tl
<1>8. \A i \in M : G[i].offset \in Nat /\ G[i].offset < End(G, n, i) /\ End(G, n, i) <= n
  BY <1>2, <1>4, <1>5, <1>6, <1>7
<1>9. \A i \in M : G[i].prev # NoElt => G[i].prev \in M /\ G[G[i].prev].next = i
  BY <1>0, <1>1
<1>10. ASSUME NEW i \in M, G[i].prev = NoElt PROVE i = hd /\ G[i].offset = 0
  <2>1. i \in L /\ i # E[e].next
    BY <1>0, <1>10
  <2>2. E[i].prev = NoElt /\ G[i].offset = E[i].offset
    BY <1>10, <2>1
  <2>3. QED BY <1>1, <2>1, <2>2
<1>11. ASSUME NEW i \in M, G[i].next # NoElt
       PROVE  G[i].next \in M /\ G[G[i].next].prev = i
  <2>1. CASE i = m
    BY <1>1, <1>11, <2>1
  <2>2. CASE i = e
    BY <2>2
  <2>3. CASE i # m /\ i # e
    <3>1. i \in L /\ G[i].next = E[i].next
      BY <2>3
    <3>2. E[i].next \in L /\ E[E[i].next].prev = i
      BY <1>1, <1>11, <3>1
    <3>3. E[i].next # E[e].next
      BY <1>0, <1>1, <1>11, <2>3, <3>1, <3>2
    <3>4. QED BY <3>1, <3>2, <3>3
  <2>4. QED BY <2>1, <2>2, <2>3
<1>12. ASSUME NEW i \in M, G[i].next = NoElt PROVE i = tm
  <2>1. CASE i = m
    BY <1>12, <2>1
  <2>2. CASE i # m
    <3>1. i \in L /\ i # e /\ E[i].next = NoElt
      BY <1>0, <1>12, <2>2
    <3>2. i = tl
      BY <1>1, <3>1
    <3>3. E[e].next # NoElt
      BY <1>1, <3>1, <3>2
    <3>4. QED BY <3>2, <3>3
  <2>3. QED BY <2>1, <2>2
<1>13. n # 0 => tm \in M /\ G[tm].next = NoElt
  BY <1>0, <1>1
<1>14. ASSUME NEW i \in M, NEW j \in M, i # j
       PROVE  End(G, n, i) <= G[j].offset \/ End(G, n, j) <= G[i].offset
  <2>1. CASE i # m /\ j # m
    BY <1>2, <1>3, <1>4, <1>5, <1>6, <1>14, <2>1
  <2>2. CASE i = m
    BY <1>2, <1>3, <1>4, <1>5, <1>6, <1>7, <1>14, <2>2
  <2>3. CASE j = m
    BY <1>2, <1>3, <1>4, <1>5, <1>6, <1>7, <1>14, <2>3
  <2>4. QED BY <2>1, <2>2, <2>3
<1> HIDE DEF M, tm
<1>15. LinksOK(G, M, n, hd, tm)
  BY <1>8, <1>9, <1>10, <1>11, <1>12, <1>13, <1>14 DEF LinksOK
<1>16. QED BY <1>5, <1>6, <1>7, <1>15 DEF M, tm, EndsKept, CutEnds

(* Cutting element e at o: the new element m is the first part.            *)
LEMMA CutBefore ==
  ASSUME NEW E, NEW L \in SUBSET Nat, NEW n \in Nat, NEW hd, NEW tl,
         LinksOK(E, L, n, hd, tl),
         NEW e \in L, NEW o \in Nat, E[e].offset < o, o < End(E, n, e),
         NEW m \in Nat, m \notin L, NEW G, IsCutBefore(E, G, L, e, o, m)
  PROVE  /\ EndsKept(E, n, G, n, L)
         /\ LinksOK(G, L \cup {m}, n, IF E[e].prev = NoElt THEN m ELSE hd, tl)
<1> USE DEF IsCutBefore
<1>0. NoElt = -1 /\ NoElt \notin Nat
  BY DEF NoElt
<1>1. /\ \A i \in L : E[i].next # NoElt => E[i].next \in L /\ E[E[i].next].prev = i
      /\ \A i \in L : E[i].prev # NoElt => E[i].prev \in L /\ E[E[i].prev].next = i
      /\ \A i \in L : E[i].prev = NoElt => i = hd /\ E[i].offset = 0
      /\ \A i \in L : E[i].next = NoElt => i = tl
      /\ n # 0 => tl \in L /\ E[tl].next = NoElt
  BY DEF LinksOK
<1>2. \A i \in L : E[i].offset \in Nat /\ E[i].offset < End(E, n, i) /\ End(E, n, i) <= n
  BY DEF LinksOK
<1>3. \A i, j \in L : i # j => End(E, n, i) <= E[j].offset \/ End(E, n, j) <= E[i].offset
  BY DEF LinksOK
<1>4. ASSUME NEW i \in L PROVE End(E, n, i) \in Int
  <2>1. CASE E[i].next = NoElt
    BY <2>1 DEF End
  <2>2. CASE E[i].next # NoElt
    <3>1. E[i].next \in L
      BY <1>1, <2>2
    <3>2. E[E[i].next].offset \in Nat
      BY <1>2, <3>1
    <3>3. QED BY <2>2, <3>2 DEF End
  <2>3. QED BY <2>1, <2>2
<1>5. \A i \in L : End(G, n, i) = End(E, n, i)
  <2> SUFFICES ASSUME NEW i \in L PROVE End(G, n, i) = End(E, n, i)
    OBVIOUS
  <2>1. CASE i = E[e].prev
    BY <1>0, <1>1, <2>1 DEF End
  <2>2. CASE i # E[e].prev
    <3>1. G[i].next = E[i].next /\ E[i].next # e
      BY <1>0, <1>1, <2>2
    <3>2. CASE E[i].next = NoElt
      BY <3>1, <3>2 DEF End
    <3>3. CASE E[i].next # NoElt
      <4>1. E[i].next \in L
        BY <1>1, <3>3
      <4>2. G[E[i].next].offset = E[E[i].next].offset
        BY <3>1, <4>1
      <4>3. QED BY <3>1, <3>3, <4>2 DEF End
    <3>4. QED BY <3>2, <3>3
  <2>3. QED BY <2>1, <2>2
<1>6. End(G, n, m) = o
  BY <1>0 DEF End
<1> DEFINE M == L \cup {m}
           hm == IF E[e].prev = NoElt THEN m ELSE hd
<1>8. \A i \in M : G[i].offset \in Nat /\ G[i].offset < End(G, n, i) /\ End(G, n, i) <= n
  BY <1>2, <1>4, <1>5, <1>6
<1>9. ASSUME NEW i \in M, G[i].prev # NoElt
      PROVE  G[i].prev \in M /\ G[G[i].prev].next = i
  <2>1. CASE i = m
    BY <1>1, <1>9, <2>1
  <2>2. CASE i = e
    BY <2>2
  <2>3. CASE i # m /\ i # e
    <3>1. i \in L /\ G[i].prev = E[i].prev
      BY <2>3
    <3>2. E[i].prev \in L /\ E[E[i].prev].next = i
      BY <1>1, <1>9, <3>1
    <3>3. E[i].prev # E[e].prev
      BY <1>0, <1>1, <1>9, <2>3, <3>1, <3>2
    <3>4. QED BY <3>1, <3>2, <3>3, ZenonT(40)
  <2>4. QED BY <2>1, <2>2, <2>3
<1>10. ASSUME NEW i \in M, G[i].prev = NoElt PROVE i = hm /\ G[i].offset = 0
  <2>1. CASE i = m
    <3>1. E[e].prev = NoElt
      BY <1>10, <2>1
    <3>2. QED BY <1>1, <2>1, <3>1
  <2>2. CASE i # m
    <3>1. i \in L /\ i # e /\ E[i].prev = NoElt
      <4>1. i \in L /\ G[i].prev = IF i = e THEN m ELSE E[i].prev
        BY <2>2
      <4>2. m # NoElt
        BY <1>0
      <4>3. QED BY <1>10, <4>1, <4>2
    <3>2. i = hd /\ E[i].offset = 0
      BY <1>1, <3>1
    <3>3. E[e].prev # NoElt
      BY <1>1, <3>1, <3>2
    <3>4. QED BY <3>1, <3>2, <3>3
  <2>3. QED BY <2>1, <2>2
<1>11. ASSUME NEW i \in M, G[i].next # NoElt
       PROVE  G[i].next \in M /\ G[G[i].next].prev = i
  <2>1. CASE i = m
    BY <2>1
  <2>2. CASE i # m /\ i = E[e].prev
    BY <2>2
  <2>3. CASE i # m /\ i # E[e].prev
    <3>1. i \in L /\ G[i].next = E[i].next
      BY <2>3
    <3>2. E[i].next \in L /\ E[E[i].next].prev = i
      BY <1>1, <1>11, <3>1
    <3>3. E[i].next # e
      BY <2>3, <3>2
    <3>4. QED BY <3>1, <3>2, <3>3, ZenonT(40)
  <2>4. QED BY <2>1, <2>2, <2>3
<1>12. ASSUME NEW i \in M, G[i].next = NoElt PROVE i = tl
  <2>1. i \in L /\ E[i].next = NoElt
    BY <1>0, <1>12
  <2>2. QED BY <1>1, <2>1
<1>13. ASSUME n # 0 PROVE tl \in M /\ G[tl].next = NoElt
  <2>1. tl \in L /\ E[tl].next = NoElt
    BY <1>1, <1>13
  <2>2. tl # E[e].prev
    BY <1>0, <1>1, <2>1
  <2>3. QED BY <2>1, <2>2
<1>14. ASSUME NEW i \in M, NEW j \in M, i # j
       PROVE  End(G, n, i) <= G[j].offset \/ End(G, n, j) <= G[i].offset
  <2>1. CASE i # m /\ j # m
    BY <1>2, <1>3, <1>4, <1>5, <1>6, <1>14, <2>1
  <2>2. CASE i = m
    BY <1>2, <1>3, <1>4, <1>5, <1>6, <1>14, <2>2
  <2>3. CASE j = m
    BY <1>2, <1>3, <1>4, <1>5, <1>6, <1>14, <2>3
  <2>4. QED BY <2>1, <2>2, <2>3
<1> HIDE DEF M, hm
<1>15. LinksOK(G, M, n, hm, tl)
  BY <1>8, <1>9, <1>10, <1>11, <1>12, <1>13, <1>14 DEF LinksOK
<1>16. QED BY <1>5, <1>6, <1>15 DEF M, hm, EndsKept

(* Then the rest keep their ends and are linked.                           *)
MergedPrev(E, G, L, n, hd, tl, e, p) ==
  /\ EndsKept(E, n, G, n, L \ {p})
  /\ LinksOK(G, L \ {p}, n, IF p = hd THEN e ELSE hd, tl)

(* Element e takes over its predecessor p, which goes.                     *)
LEMMA MergePrev ==
  ASSUME NEW E, NEW L \in SUBSET Nat, NEW n \in Nat, NEW hd, NEW tl,
         LinksOK(E, L, n, hd, tl),
         NEW e \in L, NEW p, p = E[e].prev, p # NoElt, NEW G,
         IsMergePrev(E, G, L, e, p)
  PROVE  MergedPrev(E, G, L, n, hd, tl, e, p)
<1> USE DEF IsMergePrev
<1>0. NoElt = -1 /\ NoElt \notin Nat
  BY DEF NoElt
<1>1. /\ \A i \in L : E[i].next # NoElt => E[i].next \in L /\ E[E[i].next].prev = i
      /\ \A i \in L : E[i].prev # NoElt => E[i].prev \in L /\ E[E[i].prev].next = i
      /\ \A i \in L : E[i].prev = NoElt => i = hd /\ E[i].offset = 0
      /\ \A i \in L : E[i].next = NoElt => i = tl
      /\ n # 0 => tl \in L /\ E[tl].next = NoElt
  BY DEF LinksOK
<1>2. \A i \in L : E[i].offset \in Nat /\ E[i].offset < End(E, n, i) /\ End(E, n, i) <= n
  BY DEF LinksOK
<1>3. \A i, j \in L : i # j => End(E, n, i) <= E[j].offset \/ End(E, n, j) <= E[i].offset
  BY DEF LinksOK
<1>4. ASSUME NEW i \in L PROVE End(E, n, i) \in Int
  <2>1. CASE E[i].next = NoElt
    BY <2>1 DEF End
  <2>2. CASE E[i].next # NoElt
    <3>1. E[i].next \in L
      BY <1>1, <2>2
    <3>2. E[E[i].next].offset \in Nat
      BY <1>2, <3>1
    <3>3. QED BY <2>2, <3>2 DEF End
  <2>3. QED BY <2>1, <2>2
<1> DEFINE M == L \ {p}
           hm == IF p = hd THEN e ELSE hd
<1>5. p \in L /\ E[p].next = e
  BY <1>1
<1>6. End(E, n, p) = E[e].offset
  BY <1>0, <1>5 DEF End
<1>7. p # e /\ E[p].offset < E[e].offset
  BY <1>2, <1>5, <1>6
<1>7a. E[p].prev # e /\ E[p].prev # p
  <2>1. ASSUME E[p].prev = e PROVE FALSE
    <3>1. E[e].next = p
      BY <1>0, <1>1, <1>5, <2>1
    <3>2. End(E, n, e) = E[p].offset
      BY <1>0, <1>5, <3>1 DEF End
    <3>3. QED BY <1>2, <1>5, <1>7, <3>2
  <2>2. ASSUME E[p].prev = p PROVE FALSE
    BY <1>0, <1>1, <1>5, <1>7, <2>2
  <2>3. QED BY <2>1, <2>2
<1>7b. e \in M
  BY <1>7
<1>7c. ASSUME NEW i \in M PROVE End(G, n, i) = End(E, n, i)
  <2>1. CASE i = E[p].prev
    <3>1. G[i].next = e /\ E[i].next = p /\ G[e].offset = E[p].offset
      BY <1>0, <1>1, <1>5, <1>7b, <2>1
    <3>2. QED BY <1>0, <1>5, <3>1 DEF End
  <2>2. CASE i # E[p].prev
    <3>1. G[i].next = E[i].next /\ E[i].next # e
      BY <1>0, <1>1, <1>5, <1>7, <2>2
    <3>2. CASE E[i].next = NoElt
      BY <3>1, <3>2 DEF End
    <3>3. CASE E[i].next # NoElt
      <4>1. E[i].next \in L /\ E[i].next # p
        BY <1>1, <2>2, <3>3
      <4>2. G[E[i].next].offset = E[E[i].next].offset
        BY <3>1, <4>1
      <4>3. QED BY <3>1, <3>3, <4>2 DEF End
    <3>4. QED BY <3>2, <3>3
  <2>3. QED BY <2>1, <2>2
<1>8. ASSUME NEW i \in M
      PROVE  G[i].offset \in Nat /\ G[i].offset < End(G, n, i) /\ End(G, n, i) <= n
  BY <1>2, <1>4, <1>5, <1>7, <1>7c
<1>9. ASSUME NEW i \in M, G[i].prev # NoElt
      PROVE  G[i].prev \in M /\ G[G[i].prev].next = i
  <2>1. CASE i = e
    <3>1. G[i].prev = E[p].prev /\ E[p].prev \in L
      BY <1>1, <1>5, <1>9, <2>1
    <3>2. QED BY <1>7a, <2>1, <3>1
  <2>2. CASE i # e
    <3>1. G[i].prev = E[i].prev /\ E[i].prev \in L /\ E[E[i].prev].next = i
      BY <1>1, <1>9, <2>2
    <3>2. E[i].prev # p /\ E[i].prev # E[p].prev
      BY <1>0, <1>1, <1>5, <2>2, <3>1
    <3>3. QED BY <3>1, <3>2
  <2>3. QED BY <2>1, <2>2
<1>10. ASSUME NEW i \in M, G[i].prev = NoElt PROVE i = hm /\ G[i].offset = 0
  <2>1. CASE i = e
    <3>1. E[p].prev = NoElt
      BY <1>10, <2>1
    <3>2. p = hd /\ E[p].offset = 0
      BY <1>1, <1>5, <3>1
    <3>3. QED BY <1>7b, <2>1, <3>2
  <2>2. CASE i # e
    <3>1. E[i].prev = NoElt
      BY <1>10, <2>2
    <3>2. i = hd /\ E[i].offset = 0
      BY <1>1, <3>1
    <3>3. QED BY <2>2, <3>2
  <2>3. QED BY <2>1, <2>2
<1>11. ASSUME NEW i \in M, G[i].next # NoElt
       PROVE  G[i].next \in M /\ G[G[i].next].prev = i
  <2>1. CASE i = E[p].prev
    BY <1>7b, <2>1
  <2>2. CASE i # E[p].prev
    <3>1. G[i].next = E[i].next /\ E[i].next \in L /\ E[E[i].next].prev = i
      BY <1>1, <1>11, <2>2
    <3>2. E[i].next # p /\ E[i].next # e
      BY <2>2, <3>1
    <3>3. QED BY <3>1, <3>2
  <2>3. QED BY <2>1, <2>2
<1>12. ASSUME NEW i \in M, G[i].next = NoElt PROVE i = tl
  <2>1. E[i].next = NoElt
    BY <1>0, <1>12
  <2>2. QED BY <1>1, <2>1
<1>13. ASSUME n # 0 PROVE tl \in M /\ G[tl].next = NoElt
  <2>1. tl \in L /\ E[tl].next = NoElt
    BY <1>1, <1>13
  <2>2. tl # p /\ tl # E[p].prev
    BY <1>0, <1>1, <1>5, <2>1
  <2>3. QED BY <2>1, <2>2
<1>14. ASSUME NEW i \in M, NEW j \in M, i # j
       PROVE  End(G, n, i) <= G[j].offset \/ End(G, n, j) <= G[i].offset
  <2>1. CASE i # e /\ j # e
    BY <1>3, <1>7c, <1>14, <2>1
  <2>2. CASE i = e
    <3>1. G[i].offset = E[p].offset /\ G[j].offset = E[j].offset
      BY <1>14, <2>2
    <3>2. /\ End(E, n, e) <= E[j].offset \/ End(E, n, j) <= E[e].offset
          /\ End(E, n, p) <= E[j].offset \/ End(E, n, j) <= E[p].offset
      BY <1>3, <1>5, <1>14, <2>2
    <3>3. /\ E[e].offset \in Nat /\ E[j].offset \in Nat /\ E[p].offset \in Nat
          /\ E[j].offset < End(E, n, j) /\ End(E, n, j) \in Int /\ End(E, n, e) \in Int
      BY <1>2, <1>4, <1>5
    <3>4. End(E, n, e) <= E[j].offset \/ End(E, n, j) <= E[p].offset
      BY <1>6, <3>2, <3>3
    <3>5. QED BY <1>7c, <2>2, <3>1, <3>4
  <2>3. CASE j = e
    <3>1. G[j].offset = E[p].offset /\ G[i].offset = E[i].offset
      BY <1>14, <2>3
    <3>2. /\ End(E, n, e) <= E[i].offset \/ End(E, n, i) <= E[e].offset
          /\ End(E, n, p) <= E[i].offset \/ End(E, n, i) <= E[p].offset
      BY <1>3, <1>5, <1>14, <2>3
    <3>3. /\ E[e].offset \in Nat /\ E[i].offset \in Nat /\ E[p].offset \in Nat
          /\ E[i].offset < End(E, n, i) /\ End(E, n, i) \in Int /\ End(E, n, e) \in Int
      BY <1>2, <1>4, <1>5
    <3>4. End(E, n, e) <= E[i].offset \/ End(E, n, i) <= E[p].offset
      BY <1>6, <3>2, <3>3
    <3>5. QED BY <1>7c, <2>3, <3>1, <3>4
  <2>4. QED BY <2>1, <2>2, <2>3
<1> HIDE DEF M, hm
<1>15. LinksOK(G, M, n, hm, tl)
  BY <1>8, <1>9, <1>10, <1>11, <1>12, <1>13, <1>14 DEF LinksOK
<1>16. QED BY <1>5, <1>7, <1>7c, <1>15 DEF M, hm, EndsKept, MergedPrev

(* Element e takes over its successor m, which goes.                       *)
LEMMA MergeNext ==
  ASSUME NEW E, NEW L \in SUBSET Nat, NEW n \in Nat, NEW hd, NEW tl,
         LinksOK(E, L, n, hd, tl),
         NEW e \in L, NEW m, m = E[e].next, m # NoElt, NEW G,
         IsMergeNext(E, G, L, e, m), NEW t, t = IF m = tl THEN e ELSE tl
  PROVE  /\ EndsKept(E, n, G, n, (L \ {m}) \ {e})
         /\ LinksOK(G, L \ {m}, n, hd, t)
<1> USE DEF IsMergeNext
<1>0. NoElt = -1 /\ NoElt \notin Nat
  BY DEF NoElt
<1>1. /\ \A i \in L : E[i].next # NoElt => E[i].next \in L /\ E[E[i].next].prev = i
      /\ \A i \in L : E[i].prev # NoElt => E[i].prev \in L /\ E[E[i].prev].next = i
      /\ \A i \in L : E[i].prev = NoElt => i = hd /\ E[i].offset = 0
      /\ \A i \in L : E[i].next = NoElt => i = tl
      /\ n # 0 => tl \in L /\ E[tl].next = NoElt
  BY DEF LinksOK
<1>2. \A i \in L : E[i].offset \in Nat /\ E[i].offset < End(E, n, i) /\ End(E, n, i) <= n
  BY DEF LinksOK
<1>3. \A i, j \in L : i # j => End(E, n, i) <= E[j].offset \/ End(E, n, j) <= E[i].offset
  BY DEF LinksOK
<1>4. ASSUME NEW i \in L PROVE End(E, n, i) \in Int
  <2>1. CASE E[i].next = NoElt
    BY <2>1 DEF End
  <2>2. CASE E[i].next # NoElt
    <3>1. E[i].next \in L
      BY <1>1, <2>2
    <3>2. E[E[i].next].offset \in Nat
      BY <1>2, <3>1
    <3>3. QED BY <2>2, <3>2 DEF End
  <2>3. QED BY <2>1, <2>2
<1> DEFINE M == L \ {m}
           tm == IF m = tl THEN e ELSE tl
<1>5. m \in L /\ E[m].prev = e
  BY <1>1
<1>6. End(E, n, e) = E[m].offset
  BY <1>0, <1>5 DEF End
<1>7. m # e /\ E[e].offset < E[m].offset
  BY <1>2, <1>5, <1>6
<1>7a. E[m].next # e /\ E[m].next # m
  <2>1. ASSUME E[m].next = e PROVE FALSE
    <3>1. End(E, n, m) = E[e].offset
      BY <1>0, <1>5, <2>1 DEF End
    <3>2. QED BY <1>2, <1>5, <1>7, <3>1
  <2>2. ASSUME E[m].next = m PROVE FALSE
    BY <1>0, <1>1, <1>5, <1>7, <2>2
  <2>3. QED BY <2>1, <2>2
<1>7b. e \in M
  BY <1>7
<1>7c. End(G, n, e) = End(E, n, m)
  <2>1. G[e].next = E[m].next
    BY <1>7b
  <2>2. CASE E[m].next = NoElt
    BY <2>1, <2>2 DEF End
  <2>3. CASE E[m].next # NoElt
    <3>1. E[m].next \in M
      BY <1>1, <1>5, <1>7a, <2>3
    <3>2. QED BY <2>1, <2>3, <3>1 DEF End
  <2>4. QED BY <2>2, <2>3
<1>7d. ASSUME NEW i \in M, i # e PROVE End(G, n, i) = End(E, n, i)
  <2>1. G[i].next = E[i].next
    BY <1>7d
  <2>2. CASE E[i].next = NoElt
    BY <2>1, <2>2 DEF End
  <2>3. CASE E[i].next # NoElt
    <3>1. E[i].next \in L /\ E[i].next # m
      BY <1>1, <1>5, <1>7d, <2>3
    <3>2. G[E[i].next].offset = E[E[i].next].offset
      BY <3>1
    <3>3. QED BY <2>1, <2>3, <3>2 DEF End
  <2>4. QED BY <2>2, <2>3
<1>8. ASSUME NEW i \in M
      PROVE  G[i].offset \in Nat /\ G[i].offset < End(G, n, i) /\ End(G, n, i) <= n
  <2>1. CASE i = e
    <3>1. /\ E[e].offset \in Nat /\ E[m].offset \in Nat /\ End(E, n, m) \in Int
          /\ E[m].offset < End(E, n, m) /\ End(E, n, m) <= n
      BY <1>2, <1>4, <1>5
    <3>2. QED BY <1>7, <1>7c, <2>1, <3>1
  <2>2. CASE i # e
    BY <1>2, <1>7d, <2>2
  <2>3. QED BY <2>1, <2>2
<1>9. ASSUME NEW i \in M, G[i].prev # NoElt
      PROVE  G[i].prev \in M /\ G[G[i].prev].next = i
  <2>1. CASE i = E[m].next
    <3>1. G[i].prev = e /\ G[e].next = E[m].next
      BY <1>7b, <2>1
    <3>2. QED BY <1>7b, <2>1, <3>1
  <2>2. CASE i # E[m].next
    <3>1. G[i].prev = E[i].prev /\ E[i].prev \in L /\ E[E[i].prev].next = i
      BY <1>1, <1>9, <2>2
    <3>2. E[i].prev # m /\ E[i].prev # e
      BY <2>2, <3>1
    <3>3. QED BY <3>1, <3>2
  <2>3. QED BY <2>1, <2>2
<1>10. ASSUME NEW i \in M, G[i].prev = NoElt PROVE i = hd /\ G[i].offset = 0
  <2>1. E[i].prev = NoElt
    BY <1>0, <1>10
  <2>2. QED BY <1>1, <2>1
<1>11. ASSUME NEW i \in M, G[i].next # NoElt
       PROVE  G[i].next \in M /\ G[G[i].next].prev = i
  <2>1. CASE i = e
    <3>1. G[i].next = E[m].next /\ E[m].next \in L
      BY <1>1, <1>5, <1>11, <2>1
    <3>2. QED BY <1>7a, <2>1, <3>1
  <2>2. CASE i # e
    <3>1. G[i].next = E[i].next /\ E[i].next \in L /\ E[E[i].next].prev = i
      BY <1>1, <1>11, <2>2
    <3>2. E[i].next # m /\ E[i].next # E[m].next
      BY <1>0, <1>1, <1>5, <2>2, <3>1
    <3>3. QED BY <3>1, <3>2
  <2>3. QED BY <2>1, <2>2
<1>12. ASSUME NEW i \in M, G[i].next = NoElt PROVE i = tm
  <2>1. CASE i = e
    <3>1. E[m].next = NoElt
      BY <1>12, <2>1
    <3>2. m = tl
      BY <1>1, <1>5, <3>1
    <3>3. QED BY <2>1, <3>2
  <2>2. CASE i # e
    <3>1. E[i].next = NoElt
      BY <1>12, <2>2
    <3>2. i = tl
      BY <1>1, <3>1
    <3>3. QED BY <3>2
  <2>3. QED BY <2>1, <2>2
<1>13. ASSUME n # 0 PROVE tm \in M /\ G[tm].next = NoElt
  <2>1. tl \in L /\ E[tl].next = NoElt
    BY <1>1, <1>13
  <2>2. CASE m = tl
    BY <1>7b, <2>1, <2>2
  <2>3. CASE m # tl
    <3>1. tl # e
      BY <1>0, <1>5, <2>1
    <3>2. QED BY <2>1, <2>3, <3>1
  <2>4. QED BY <2>2, <2>3
<1>14. ASSUME NEW i \in M, NEW j \in M, i # j
       PROVE  End(G, n, i) <= G[j].offset \/ End(G, n, j) <= G[i].offset
  <2>1. CASE i # e /\ j # e
    BY <1>3, <1>7d, <1>14, <2>1
  <2>2. CASE i = e
    <3>1. End(G, n, i) = End(E, n, m) /\ End(G, n, j) = End(E, n, j)
      BY <1>7c, <1>7d, <1>14, <2>2
    <3>2. /\ End(E, n, e) <= E[j].offset \/ End(E, n, j) <= E[e].offset
          /\ End(E, n, m) <= E[j].offset \/ End(E, n, j) <= E[m].offset
      BY <1>3, <1>5, <1>14, <2>2
    <3>3. /\ E[e].offset \in Nat /\ E[j].offset \in Nat /\ E[m].offset \in Nat
          /\ E[j].offset < End(E, n, j) /\ End(E, n, j) \in Int /\ End(E, n, m) \in Int
      BY <1>2, <1>4, <1>5
    <3>4. End(E, n, m) <= E[j].offset \/ End(E, n, j) <= E[e].offset
      BY <1>6, <3>2, <3>3
    <3>5. QED BY <2>2, <3>1, <3>4
  <2>3. CASE j = e
    <3>1. End(G, n, j) = End(E, n, m) /\ End(G, n, i) = End(E, n, i)
      BY <1>7c, <1>7d, <1>14, <2>3
    <3>2. /\ End(E, n, e) <= E[i].offset \/ End(E, n, i) <= E[e].offset
          /\ End(E, n, m) <= E[i].offset \/ End(E, n, i) <= E[m].offset
      BY <1>3, <1>5, <1>14, <2>3
    <3>3. /\ E[e].offset \in Nat /\ E[i].offset \in Nat /\ E[m].offset \in Nat
          /\ E[i].offset < End(E, n, i) /\ End(E, n, i) \in Int /\ End(E, n, m) \in Int
      BY <1>2, <1>4, <1>5
    <3>4. End(E, n, m) <= E[i].offset \/ End(E, n, i) <= E[e].offset
      BY <1>6, <3>2, <3>3
    <3>5. QED BY <2>3, <3>1, <3>4
  <2>4. QED BY <2>1, <2>2, <2>3
<1> HIDE DEF M, tm
<1>15. LinksOK(G, M, n, hd, tm)
  BY <1>8, <1>9, <1>10, <1>11, <1>12, <1>13, <1>14 DEF LinksOK
<1>16. QED BY <1>5, <1>7, <1>7c, <1>7d, <1>15 DEF M, tm, EndsKept

(* The array grows by z: the new element m is its end.                     *)
LEMMA GrowEnd ==
  ASSUME NEW E, NEW L \in SUBSET Nat, NEW n \in Nat, NEW hd, NEW tl,
         LinksOK(E, L, n, hd, tl), NEW z \in Nat \ {0},
         NEW m \in Nat, m \notin L, NEW G, n = 0 => L = {} /\ m = hd,
         IsGrown(E, G, L, n, tl, m)
  PROVE  /\ EndsKept(E, n, G, n + z, L)
         /\ End(G, n + z, m) = n + z
         /\ LinksOK(G, L \cup {m}, n + z, hd, m)
<1> USE DEF IsGrown
<1>0. NoElt = -1 /\ NoElt \notin Nat
  BY DEF NoElt
<1>1. /\ \A i \in L : E[i].next # NoElt => E[i].next \in L /\ E[E[i].next].prev = i
      /\ \A i \in L : E[i].prev # NoElt => E[i].prev \in L /\ E[E[i].prev].next = i
      /\ \A i \in L : E[i].prev = NoElt => i = hd /\ E[i].offset = 0
      /\ \A i \in L : E[i].next = NoElt => i = tl
      /\ n # 0 => tl \in L /\ E[tl].next = NoElt
  BY DEF LinksOK
<1>2. \A i \in L : E[i].offset \in Nat /\ E[i].offset < End(E, n, i) /\ End(E, n, i) <= n
  BY DEF LinksOK
<1>3. \A i, j \in L : i # j => End(E, n, i) <= E[j].offset \/ End(E, n, j) <= E[i].offset
  BY DEF LinksOK
<1>4. ASSUME NEW i \in L PROVE End(E, n, i) \in Int
  <2>1. CASE E[i].next = NoElt
    BY <2>1 DEF End
  <2>2. CASE E[i].next # NoElt
    <3>1. E[i].next \in L
      BY <1>1, <2>2
    <3>2. E[E[i].next].offset \in Nat
      BY <1>2, <3>1
    <3>3. QED BY <2>2, <3>2 DEF End
  <2>3. QED BY <2>1, <2>2
<1> DEFINE M == L \cup {m}
           N == n + z
<1>5. N \in Nat /\ N > n /\ N # 0
  OBVIOUS
<1> HIDE DEF N
<1>6. ASSUME NEW i \in L PROVE End(G, N, i) = End(E, n, i)
  <2>1. CASE i = tl
    <3>1. E[i].next = NoElt
      BY <1>0, <1>1, <2>1
    <3>2. QED BY <1>0, <2>1, <3>1 DEF End
  <2>2. CASE i # tl
    <3>1. G[i].next = E[i].next /\ E[i].next \in L /\ E[i].next # NoElt
      BY <1>1, <2>2
    <3>2. QED BY <3>1 DEF End
  <2>3. QED BY <2>1, <2>2
<1>7. End(G, N, m) = N
  BY DEF End
<1>8. ASSUME NEW i \in M
      PROVE  G[i].offset \in Nat /\ G[i].offset < End(G, N, i) /\ End(G, N, i) <= N
  BY <1>2, <1>4, <1>5, <1>6, <1>7
<1>9. ASSUME NEW i \in M, G[i].prev # NoElt
      PROVE  G[i].prev \in M /\ G[G[i].prev].next = i
  <2>1. CASE i = m
    <3>1. n # 0 /\ G[i].prev = tl /\ tl \in L
      BY <1>1, <1>9, <2>1
    <3>2. QED BY <2>1, <3>1
  <2>2. CASE i # m
    <3>1. G[i].prev = E[i].prev /\ E[i].prev \in L /\ E[E[i].prev].next = i
      BY <1>1, <1>9, <2>2
    <3>2. E[i].prev # tl
      <4>1. n # 0
        BY <2>2
      <4>2. E[tl].next = NoElt
        BY <1>1, <4>1
      <4>3. QED BY <1>0, <2>2, <3>1, <4>2
    <3>3. QED BY <3>1, <3>2
  <2>3. QED BY <2>1, <2>2
<1>10. ASSUME NEW i \in M, G[i].prev = NoElt PROVE i = hd /\ G[i].offset = 0
  <2>1. CASE i = m
    <3>1. n = 0
      BY <1>0, <1>1, <1>10, <2>1
    <3>2. QED BY <2>1, <3>1
  <2>2. CASE i # m
    BY <1>1, <1>10, <2>2
  <2>3. QED BY <2>1, <2>2
<1>11. ASSUME NEW i \in M, G[i].next # NoElt
       PROVE  G[i].next \in M /\ G[G[i].next].prev = i
  <2>1. CASE i = m
    BY <1>11, <2>1
  <2>2. CASE i # m /\ i = tl
    BY <2>2
  <2>3. CASE i # m /\ i # tl
    <3>1. i \in L /\ G[i].next = E[i].next
      BY <2>3
    <3>2. E[i].next \in L /\ E[E[i].next].prev = i
      BY <1>1, <1>11, <3>1
    <3>3. QED BY <3>1, <3>2
  <2>4. QED BY <2>1, <2>2, <2>3
<1>12. ASSUME NEW i \in M, G[i].next = NoElt PROVE i = m
  <2>1. ASSUME i # m PROVE FALSE
    <3>1. i \in L /\ i # tl /\ E[i].next = NoElt
      BY <1>0, <1>12, <2>1
    <3>2. QED BY <1>1, <3>1
  <2>2. QED BY <2>1
<1>13. N # 0 => m \in M /\ G[m].next = NoElt
  OBVIOUS
<1>14. ASSUME NEW i \in M, NEW j \in M, i # j
       PROVE  End(G, N, i) <= G[j].offset \/ End(G, N, j) <= G[i].offset
  <2>1. CASE i # m /\ j # m
    BY <1>3, <1>6, <1>14, <2>1
  <2>2. CASE i = m
    BY <1>2, <1>6, <1>14, <2>2
  <2>3. CASE j = m
    BY <1>2, <1>6, <1>14, <2>3
  <2>4. QED BY <2>1, <2>2, <2>3
<1> HIDE DEF M
<1>15. LinksOK(G, M, N, hd, m)
  BY <1>8, <1>9, <1>10, <1>11, <1>12, <1>13, <1>14 DEF LinksOK
<1>16. QED BY <1>6, <1>7, <1>15 DEF M, N, EndsKept

(* Places on lists count from 0.                                           *)
Places(q) == 0 .. Len(q) - 1

(* What Append makes of a list.                                            *)
LEMMA AppendFacts ==
  ASSUME NEW q \in Seq(Int), NEW e \in Int
  PROVE  /\ Len(q) \in Nat /\ Append(q, e) \in Seq(Int) /\ Len(Append(q, e)) = Len(q) + 1
         /\ Append(q, e)[Len(q) + 1] = e
         /\ \A f \in 1 .. Len(q) : Append(q, e)[f] = q[f]
OBVIOUS

(* How the free lists change from F to F2 and the places from E to G: e is *)
(* added at the end of list k, which was q; e is dropped from place fi of  *)
(* list k, which had l entries.                                            *)
IsAdded(E, G, F, F2, L, e, k, q) ==
  /\ k \in DOMAIN F2 /\ DOMAIN F \subseteq DOMAIN F2
  /\ q = IF k \in DOMAIN F THEN F[k] ELSE <<>>
  /\ F2[k] = Append(q, e)
  /\ \A j \in DOMAIN F2 \ {k} : F2[j] = IF j \in DOMAIN F THEN F[j] ELSE <<>>
  /\ G[e].free = Len(q) /\ \A i \in L \ {e} : G[i].free = E[i].free

IsDropped(E, G, F, F2, L, e, k, l, fi) ==
  /\ l = Len(F[k]) /\ e = F[k][fi + 1] /\ DOMAIN F2 = DOMAIN F
  /\ \A j \in DOMAIN F \ {k} : F2[j] = F[j]
  /\ Len(F2[k]) = l - 1
  /\ \A g \in 1 .. l - 1 : F2[k][g] = IF g = fi + 1 THEN F[k][l] ELSE F[k][g]
  /\ \A i \in L \ {e} : G[i].free = IF fi < l - 1 /\ i = F[k][l] THEN fi ELSE E[i].free

(* The entries of F2 are e on list k and those of F; those of some of F.   *)
OneMore(F, F2, e, k) ==
  \A j \in DOMAIN F2 : \A f \in Places(F2[j]) :
    \/ F2[j][f + 1] = e /\ j = k
    \/ /\ j \in DOMAIN F /\ f \in Places(F[j])
       /\ F2[j][f + 1] = F[j][f + 1] /\ F[j][f + 1] # e

Fewer(F, F2) ==
  /\ DOMAIN F2 = DOMAIN F
  /\ \A j \in DOMAIN F2 : \A f \in Places(F2[j]) :
       \E g \in Places(F[j]) : F2[j][f + 1] = F[j][g + 1]

(* The elements K are free in G when they are in E.                        *)
SameFree(E, G, K) == \A i \in K : G[i].free = NoElt <=> E[i].free = NoElt

(* A sequence without its last entry.                                      *)
LEMMA CutLast ==
  ASSUME NEW q \in Seq(Int), NEW l \in Nat, l = Len(q), l # 0, NEW s, s = SubSeq(q,
         1, l - 1)
  PROVE  /\ s \in Seq(Int) /\ Len(s) = l - 1
         /\ \A k \in 1 .. l - 1 : s[k] = q[k]
<1>1. l - 1 \in Nat /\ 1 .. l - 1 \subseteq 1 .. Len(q)
  OBVIOUS
<1>2. \A k \in 1 .. l - 1 : q[k] \in Int
  BY <1>1
<1>3. s = [k \in 1 .. l - 1 |-> q[1 + k - 1]]
  BY <1>1
<1>4. \A k \in 1 .. l - 1 : s[k] = q[k]
  BY <1>3
<1>5. s \in [1 .. l - 1 -> Int]
  BY <1>2, <1>3, <1>4
<1>6. QED BY <1>1, <1>4, <1>5

(* Element e is put at the end of list k.                                  *)
LEMMA ListAdd ==
  ASSUME NEW E, NEW L \in SUBSET Nat, NEW F, NEW F2, ListsOK(E, F, L),
         \A j \in DOMAIN F : F[j] \in Seq(Int),
         NEW e \in L, E[e].free = NoElt, NEW k, NEW q \in Seq(Int),
         NEW G, IsAdded(E, G, F, F2, L, e, k, q)
  PROVE  ListsOK(G, F2, L) /\ OneMore(F, F2, e, k)
<1> USE DEF IsAdded
<1>0. NoElt = -1 /\ NoElt \notin Nat
  BY DEF NoElt
<1>1. /\ \A i \in L : E[i].free # NoElt => \E j \in DOMAIN F : At(F, j, E[i].free, i)
      /\ \A j \in DOMAIN F : \A f \in Places(F[j]) :
           F[j][f + 1] \in L /\ E[F[j][f + 1]].free = f
      /\ \A j, l \in DOMAIN F : \A f \in Places(F[j]), g \in Places(F[l]) :
           F[j][f + 1] = F[l][g + 1] => j = l
  BY DEF ListsOK, Places
<1>2. /\ Len(q) \in Nat /\ e \in Int /\ F2[k] \in Seq(Int) /\ Len(F2[k]) = Len(q) + 1
      /\ F2[k][Len(q) + 1] = e
      /\ \A f \in 1 .. Len(q) : F2[k][f] = q[f]
  <2>1. e \in Int
    OBVIOUS
  <2>2. QED BY <2>1, AppendFacts
<1>3. Len(q) \in Places(F2[k]) /\ Len(<<>>) = 0
  BY <1>2 DEF Places
<1>4. ASSUME NEW j \in DOMAIN F2, NEW f \in Places(F2[j])
      PROVE  \/ F2[j][f + 1] = e /\ j = k /\ f = Len(q)
             \/ /\ j \in DOMAIN F /\ f \in Places(F[j])
                /\ F2[j][f + 1] = F[j][f + 1] /\ F[j][f + 1] # e
  <2>1. CASE j = k
    <3>1. f \in 0 .. Len(q)
      BY <1>2, <2>1 DEF Places
    <3>2. CASE f = Len(q)
      BY <1>2, <2>1, <3>2
    <3>3. CASE f # Len(q)
      <4>1. f \in 0 .. Len(q) - 1 /\ f + 1 \in 1 .. Len(q) /\ Len(q) # 0
        BY <1>2, <3>1, <3>3
      <4>2. k \in DOMAIN F /\ q = F[k]
        BY <1>3, <4>1
      <4>3. f \in Places(F[j]) /\ F2[j][f + 1] = F[j][f + 1]
        BY <1>2, <2>1, <4>1, <4>2 DEF Places
      <4>4. E[F[j][f + 1]].free = f
        BY <1>1, <2>1, <4>2, <4>3
      <4>5. QED BY <1>0, <2>1, <4>1, <4>2, <4>3, <4>4
    <3>4. QED BY <3>2, <3>3
  <2>2. CASE j # k
    <3>1. j \in DOMAIN F /\ F2[j] = F[j]
      BY <1>3, <2>2 DEF Places
    <3>2. E[F[j][f + 1]].free = f /\ f \in Nat
      BY <1>1, <3>1 DEF Places
    <3>3. QED BY <1>0, <3>1, <3>2
  <2>3. QED BY <2>1, <2>2
<1>5. ASSUME NEW j \in DOMAIN F, NEW f \in Places(F[j])
      PROVE  j \in DOMAIN F2 /\ f \in Places(F2[j]) /\ F2[j][f + 1] = F[j][f + 1]
  <2>1. CASE j = k
    <3>1. q = F[j] /\ f \in 0 .. Len(q) /\ f + 1 \in 1 .. Len(q)
      BY <1>2, <2>1 DEF Places
    <3>2. Places(F2[k]) = 0 .. Len(q)
      BY <1>2 DEF Places
    <3>3. F2[k][f + 1] = q[f + 1]
      BY <1>2, <3>1
    <3>4. QED BY <2>1, <3>1, <3>2, <3>3
  <2>2. CASE j # k
    BY <2>2
  <2>3. QED BY <2>1, <2>2
<1>6. ASSUME NEW i \in L, G[i].free # NoElt PROVE \E j \in DOMAIN F2 : At(F2, j, G[i].free, i)
  <2>1. CASE i = e
    BY <1>2, <1>3, <2>1 DEF At, Places
  <2>2. CASE i # e
    <3>1. PICK j \in DOMAIN F : At(F, j, G[i].free, i)
      BY <1>1, <1>6, <2>2
    <3>2. G[i].free \in Places(F[j]) /\ F[j][G[i].free + 1] = i
      BY <3>1 DEF At, Places
    <3>3. j \in DOMAIN F2 /\ G[i].free \in Places(F2[j]) /\ F2[j][G[i].free + 1] = i
      BY <1>5, <3>2
    <3>4. QED BY <3>3 DEF At, Places
  <2>3. QED BY <2>1, <2>2
<1>7. ASSUME NEW j \in DOMAIN F2, NEW f \in Places(F2[j])
      PROVE  F2[j][f + 1] \in L /\ G[F2[j][f + 1]].free = f
  <2>1. CASE F2[j][f + 1] = e /\ j = k /\ f = Len(q)
    BY <2>1
  <2>2. CASE /\ j \in DOMAIN F /\ f \in Places(F[j])
             /\ F2[j][f + 1] = F[j][f + 1] /\ F[j][f + 1] # e
    <3>1. F[j][f + 1] \in L /\ E[F[j][f + 1]].free = f
      BY <1>1, <2>2
    <3>2. QED BY <2>2, <3>1
  <2>3. QED BY <1>4, <2>1, <2>2
<1>8. ASSUME NEW j \in DOMAIN F2, NEW l \in DOMAIN F2,
             NEW f \in Places(F2[j]), NEW g \in Places(F2[l]), F2[j][f + 1] = F2[l][g + 1]
      PROVE  j = l
  <2>1. \/ F2[j][f + 1] = e /\ j = k
        \/ /\ j \in DOMAIN F /\ f \in Places(F[j])
           /\ F2[j][f + 1] = F[j][f + 1] /\ F[j][f + 1] # e
    BY <1>4
  <2>2. \/ F2[l][g + 1] = e /\ l = k
        \/ /\ l \in DOMAIN F /\ g \in Places(F[l])
           /\ F2[l][g + 1] = F[l][g + 1] /\ F[l][g + 1] # e
    BY <1>4
  <2>3. QED BY <1>1, <1>8, <2>1, <2>2
<1>9. ListsOK(G, F2, L)
  BY <1>6, <1>7, <1>8, Zenon DEF ListsOK, Places
<1>10. QED BY <1>4, <1>9 DEF OneMore

(* Element e leaves list k, where it was at fi; the last entry takes its   *)
(* place.                                                                  *)
LEMMA ListDrop ==
  ASSUME NEW E, NEW L \in SUBSET Nat, NEW F, NEW F2, ListsOK(E, F, L),
         NEW k \in DOMAIN F, NEW l \in Nat, NEW fi \in 0 .. l - 1,
         NEW e, NEW G, IsDropped(E, G, F, F2, L, e, k, l, fi)
  PROVE  /\ e \in L /\ ListsOK(G, F2, L \ {e})
         /\ Fewer(F, F2) /\ SameFree(E, G, L \ {e})
<1> USE DEF IsDropped
<1>0. NoElt = -1 /\ NoElt \notin Nat
  BY DEF NoElt
<1>1. /\ \A i \in L : E[i].free # NoElt => \E j \in DOMAIN F : At(F, j, E[i].free, i)
      /\ \A j \in DOMAIN F : \A f \in Places(F[j]) :
           F[j][f + 1] \in L /\ E[F[j][f + 1]].free = f
      /\ \A j, m \in DOMAIN F : \A f \in Places(F[j]), g \in Places(F[m]) :
           F[j][f + 1] = F[m][g + 1] => j = m
  BY DEF ListsOK, Places
<1>2. l # 0 /\ fi \in Places(F[k]) /\ l - 1 \in Places(F[k]) /\ (l - 1) + 1 = l
  BY DEF Places
<1>3. e \in L /\ E[e].free = fi /\ F[k][l] \in L /\ E[F[k][l]].free = l - 1
  BY <1>1, <1>2
<1>4. ASSUME NEW j \in DOMAIN F2, NEW f \in Places(F2[j])
      PROVE  \/ /\ f \in Places(F[j]) /\ F2[j][f + 1] = F[j][f + 1]
                /\ F2[j][f + 1] # e /\ (j = k => f # fi /\ f # l - 1)
             \/ j = k /\ f = fi /\ fi < l - 1 /\ F2[j][f + 1] = F[k][l] /\ F[k][l] # e
  <2>1. CASE j = k
    <3>1. f \in 0 .. l - 2 /\ f + 1 \in 1 .. l - 1 /\ f \in Places(F[k])
      BY <2>1 DEF Places
    <3>2. CASE f = fi
      <4>1. fi < l - 1 /\ F2[j][f + 1] = F[k][l]
        BY <2>1, <3>1, <3>2
      <4>2. F[k][l] # e
        BY <1>3, <4>1
      <4>3. QED BY <2>1, <3>2, <4>1, <4>2
    <3>3. CASE f # fi
      <4>0. f + 1 # fi + 1 /\ f # l - 1
        BY <3>1, <3>3
      <4>1. F2[j][f + 1] = F[k][f + 1]
        BY <2>1, <3>1, <4>0
      <4>2. E[F[k][f + 1]].free = f
        BY <1>1, <3>1
      <4>3. QED BY <1>3, <2>1, <3>1, <3>3, <4>0, <4>1, <4>2
    <3>4. QED BY <3>2, <3>3
  <2>2. CASE j # k
    <3>1. F2[j] = F[j] /\ j \in DOMAIN F
      BY <2>2
    <3>2. F[j][f + 1] # e
      BY <1>1, <1>2, <2>2, <3>1
    <3>3. QED BY <2>2, <3>1, <3>2
  <2>3. QED BY <2>1, <2>2
<1>5. ASSUME NEW i \in L \ {e}, G[i].free # NoElt
      PROVE  \E j \in DOMAIN F2 : At(F2, j, G[i].free, i)
  <2>1. CASE fi < l - 1 /\ i = F[k][l]
    <3>1. G[i].free = fi /\ fi + 1 \in 1 .. l - 1 /\ fi \in 0 .. (l - 1) - 1
      BY <2>1
    <3>2. F2[k][fi + 1] = i
      BY <2>1, <3>1
    <3>3. QED BY <3>1, <3>2 DEF At
  <2>2. CASE ~(fi < l - 1 /\ i = F[k][l])
    <3>1. G[i].free = E[i].free
      BY <2>2
    <3>2. PICK j \in DOMAIN F : At(F, j, E[i].free, i)
      BY <1>1, <1>5, <3>1
    <3>3. E[i].free \in 0 .. Len(F[j]) - 1 /\ F[j][E[i].free + 1] = i
      BY <3>2 DEF At
    <3>4. CASE j = k
      <4>1. E[i].free # fi
        BY <3>3, <3>4
      <4>2. E[i].free # l - 1
        <5>1. ASSUME E[i].free = l - 1 PROVE FALSE
          <6>1. i = F[k][l]
            BY <1>2, <3>3, <3>4, <5>1
          <6>2. fi = l - 1
            BY <2>2, <6>1
          <6>3. QED BY <4>1, <5>1, <6>2
        <5>2. QED BY <5>1
      <4>3. E[i].free \in 0 .. (l - 1) - 1 /\ E[i].free + 1 \in 1 .. l - 1
            /\ E[i].free + 1 # fi + 1
        <5>1. PICK x : x = E[i].free
          OBVIOUS
        <5>2. x \in 0 .. l - 1 /\ x # fi /\ x # l - 1
          BY <3>3, <3>4, <4>1, <4>2, <5>1
        <5>3. x \in 0 .. (l - 1) - 1 /\ x + 1 \in 1 .. l - 1 /\ x + 1 # fi + 1
          BY <5>2
        <5>4. QED BY <5>1, <5>3
      <4>4. F2[k][E[i].free + 1] = i
        BY <3>3, <3>4, <4>3
      <4>5. QED BY <3>1, <4>3, <4>4 DEF At
    <3>5. CASE j # k
      BY <3>1, <3>2, <3>5 DEF At
    <3>6. QED BY <3>4, <3>5
  <2>3. QED BY <2>1, <2>2
<1>6. ASSUME NEW j \in DOMAIN F2, NEW f \in Places(F2[j])
      PROVE  F2[j][f + 1] \in L \ {e} /\ G[F2[j][f + 1]].free = f
  <2>1. CASE j = k /\ f = fi /\ fi < l - 1 /\ F2[j][f + 1] = F[k][l] /\ F[k][l] # e
    BY <1>3, <2>1
  <2>2. CASE /\ f \in Places(F[j]) /\ F2[j][f + 1] = F[j][f + 1]
             /\ F2[j][f + 1] # e /\ (j = k => f # fi /\ f # l - 1)
    <3>1. F[j][f + 1] \in L \ {e} /\ E[F[j][f + 1]].free = f
      BY <1>1, <2>2
    <3>2. F[j][f + 1] # F[k][l]
      BY <1>1, <1>2, <1>3, <2>2, <3>1
    <3>3. QED BY <2>2, <3>1, <3>2
  <2>3. QED BY <1>4, <2>1, <2>2
<1>7. ASSUME NEW j \in DOMAIN F2, NEW f \in Places(F2[j])
      PROVE  \E g \in Places(F[j]) : F2[j][f + 1] = F[j][g + 1]
  <2>1. CASE f \in Places(F[j]) /\ F2[j][f + 1] = F[j][f + 1]
    BY <2>1
  <2>2. CASE j = k /\ F2[j][f + 1] = F[k][l]
    <3>1. F2[j][f + 1] = F[j][(l - 1) + 1] /\ l - 1 \in Places(F[j])
      BY <1>2, <2>2
    <3>2. QED BY <3>1
  <2>3. QED BY <1>4, <2>1, <2>2
<1>8. ASSUME NEW j \in DOMAIN F2, NEW m \in DOMAIN F2,
             NEW f \in Places(F2[j]), NEW g \in Places(F2[m]), F2[j][f + 1] = F2[m][g + 1]
      PROVE  j = m
  <2>1. PICK a \in Places(F[j]) : F2[j][f + 1] = F[j][a + 1]
    BY <1>7
  <2>2. PICK b \in Places(F[m]) : F2[m][g + 1] = F[m][b + 1]
    BY <1>7
  <2>3. \A x, y \in DOMAIN F : \A c \in Places(F[x]), d \in Places(F[y]) :
          F[x][c + 1] = F[y][d + 1] => x = y
    BY <1>1
  <2>4. F[j][a + 1] = F[m][b + 1] /\ j \in DOMAIN F /\ m \in DOMAIN F
    BY <1>8, <2>1, <2>2
  <2>5. QED BY <2>3, <2>4, Zenon
<1>9. ASSUME NEW i \in L \ {e} PROVE G[i].free = NoElt <=> E[i].free = NoElt
  <2>1. CASE fi < l - 1 /\ i = F[k][l]
    <3>1. G[i].free = fi /\ E[i].free = l - 1
      BY <1>3, <2>1
    <3>2. fi # NoElt /\ l - 1 # NoElt
      BY <1>2 DEF NoElt, Places
    <3>3. QED BY <3>1, <3>2
  <2>2. CASE ~(fi < l - 1 /\ i = F[k][l])
    BY <2>2
  <2>3. QED BY <2>1, <2>2
<1>10. ListsOK(G, F2, L \ {e})
  BY <1>5, <1>6, <1>8, Zenon DEF ListsOK, Places
<1>11. QED BY <1>3, <1>7, <1>9, <1>10 DEF Fewer, SameFree
-----------------------------------------------------------------------------
(* The types of the element vector and of the free lists.                  *)
LEMMA EltsFacts ==
  ASSUME NEW E \in AllElts
  PROVE  /\ Cardinality(DOMAIN E) \in Nat
         /\ DOMAIN E = 0 .. Cardinality(DOMAIN E) - 1
         /\ DOMAIN E \in SUBSET Nat
         /\ NoElt \notin DOMAIN E
         /\ E \in [DOMAIN E -> Elt]
<1>1. PICK n \in Nat : E \in [0 .. n - 1 -> Elt]
  BY DEF AllElts
<1>2. DOMAIN E = 0 .. n - 1 /\ Cardinality(0 .. n - 1) = n
  <2>1. Cardinality(0 .. n - 1) = IF 0 > n - 1 THEN 0 ELSE n - 1 - 0 + 1
    BY FS_Interval
  <2>2. QED BY <1>1, <2>1
<1>3. QED BY <1>1, <1>2 DEF NoElt

(* And the same for the free lists.                                        *)
LEMMA ListsFacts ==
  ASSUME NEW F \in AllLists
  PROVE  /\ Cardinality(DOMAIN F) \in Nat
         /\ DOMAIN F = 0 .. Cardinality(DOMAIN F) - 1
         /\ \A k \in DOMAIN F : F[k] \in Seq(Int) /\ Len(F[k]) \in Nat
<1>1. PICK n \in Nat : F \in [0 .. n - 1 -> Seq(Int)]
  BY DEF AllLists
<1>2. DOMAIN F = 0 .. n - 1 /\ Cardinality(0 .. n - 1) = n
  <2>1. Cardinality(0 .. n - 1) = IF 0 > n - 1 THEN 0 ELSE n - 1 - 0 + 1
    BY FS_Interval
  <2>2. QED BY <1>1, <2>1
<1>3. QED BY <1>1, <1>2

(* A vector of elements with the same indices, or one more.                *)
LEMMA EltsType ==
  ASSUME NEW E \in AllElts, NEW G,
         \/ G \in [DOMAIN E -> Elt]
         \/ G \in [DOMAIN E \cup {Cardinality(DOMAIN E)} -> Elt]
  PROVE  G \in AllElts
<1>1. PICK n : n = Cardinality(DOMAIN E)
  OBVIOUS
<1>2. n \in Nat /\ DOMAIN E = 0 .. n - 1
  BY <1>1, EltsFacts
<1>3. n + 1 \in Nat /\ (0 .. n - 1) \cup {n} = 0 .. (n + 1) - 1
  BY <1>2
<1>4. G \in [0 .. n - 1 -> Elt] \/ G \in [0 .. (n + 1) - 1 -> Elt]
  BY <1>1, <1>2, <1>3
<1>5. QED BY <1>2, <1>3, <1>4 DEF AllElts

(* Setting the next link of an element that may not exist.                  *)
LEMMA SetNextFacts ==
  ASSUME NEW E \in AllElts, NEW i \in DOMAIN E \cup {NoElt}, NEW v \in Int,
         NEW S, S = SetNext(E, i, v)
  PROVE  IsSetNext(S, E, i, v)
<1> USE DEF IsSetNext
<1>1. NoElt \notin DOMAIN E /\ E \in [DOMAIN E -> Elt]
  BY EltsFacts
<1>2. CASE i = NoElt
  BY <1>1, <1>2 DEF SetNext
<1>3. CASE i # NoElt
  <2>1. S = [E EXCEPT ![i].next = v]
    BY <1>3 DEF SetNext
  <2>2. i \in DOMAIN E
    BY <1>3
  <2>3. S \in [DOMAIN E -> Elt]
    BY <1>1, <2>1, <2>2 DEF Elt
  <2>4. S \in AllElts
    BY <2>3, EltsType
  <2>5. ASSUME NEW j \in DOMAIN E
        PROVE  /\ S[j].offset = E[j].offset
               /\ S[j].free = E[j].free
               /\ S[j].prev = E[j].prev
               /\ S[j].next = IF j = i THEN v ELSE E[j].next
    BY <1>1, <2>1, <2>2 DEF Elt
  <2>6. QED BY <2>3, <2>4, <2>5
<1>4. QED BY <1>2, <1>3

(* Setting the prev link of an element that may not exist.                  *)
LEMMA SetPrevFacts ==
  ASSUME NEW E \in AllElts, NEW i \in DOMAIN E \cup {NoElt}, NEW v \in Int,
         NEW S, S = SetPrev(E, i, v)
  PROVE  IsSetPrev(S, E, i, v)
<1> USE DEF IsSetPrev
<1>1. NoElt \notin DOMAIN E /\ E \in [DOMAIN E -> Elt]
  BY EltsFacts
<1>2. CASE i = NoElt
  BY <1>1, <1>2 DEF SetPrev
<1>3. CASE i # NoElt
  <2>1. S = [E EXCEPT ![i].prev = v]
    BY <1>3 DEF SetPrev
  <2>2. i \in DOMAIN E
    BY <1>3
  <2>3. S \in [DOMAIN E -> Elt]
    BY <1>1, <2>1, <2>2 DEF Elt
  <2>4. S \in AllElts
    BY <2>3, EltsType
  <2>5. ASSUME NEW j \in DOMAIN E
        PROVE  /\ S[j].offset = E[j].offset
               /\ S[j].free = E[j].free
               /\ S[j].next = E[j].next
               /\ S[j].prev = IF j = i THEN v ELSE E[j].prev
    BY <1>1, <2>1, <2>2 DEF Elt
  <2>6. QED BY <2>3, <2>4, <2>5
<1>4. QED BY <1>2, <1>3

(* Setting the place that an element remembers.                            *)
LEMMA SetFreeFacts ==
  ASSUME NEW E \in AllElts, NEW i \in DOMAIN E, NEW v \in Int,
         NEW S, S = [E EXCEPT ![i].free = v]
  PROVE  IsSetFree(S, E, i, v)
<1>1. E \in [DOMAIN E -> Elt]
  BY EltsFacts
<1>2. S \in [DOMAIN E -> Elt]
  BY <1>1 DEF Elt
<1>3. S \in AllElts
  BY <1>2, EltsType
<1>4. ASSUME NEW j \in DOMAIN E
      PROVE  /\ S[j].offset = E[j].offset
             /\ S[j].next = E[j].next
             /\ S[j].prev = E[j].prev
             /\ S[j].free = IF j = i THEN v ELSE E[j].free
  BY <1>1 DEF Elt
<1>5. QED BY <1>2, <1>3, <1>4 DEF IsSetFree

(* The fields of a heap.                                                   *)
LEMMA HeapTypes ==
  ASSUME NEW h \in HeapRec
  PROVE  /\ h.elts \in AllElts /\ h.free \in AllLists /\ h.removed \in Seq(Int)
         /\ h.head \in Int /\ h.tail \in Int /\ h.len \in Nat /\ h.maxSize \in Nat
         /\ h.panicked \in BOOLEAN
BY DEF HeapRec

(* newElt: the index was not in use.                                       *)
LEMMA NewEltFacts ==
  ASSUME NEW h \in HeapRec, RemovedOK(h.elts, h.removed), NEW m, m = NewEltIndex(h),
         NEW g, g = NewElt(h)
  PROVE  /\ m \in Nat /\ m \notin Live(h)
         /\ g \in HeapRec /\ Live(g) = Live(h) \cup {m} /\ RemovedOK(g.elts, g.removed)
         /\ m \in DOMAIN g.elts /\ DOMAIN h.elts \subseteq DOMAIN g.elts
         /\ \A i \in Live(h) : g.elts[i] = h.elts[i]
         /\ DOMAIN h.elts = {} => m = 0
         /\ g.free = h.free /\ g.head = h.head /\ g.tail = h.tail /\ g.len = h.len
         /\ g.maxSize = h.maxSize /\ g.panicked = h.panicked
<1>1. PICK E : E = h.elts
  OBVIOUS
<1>2. PICK R : R = h.removed
  OBVIOUS
<1>3. E \in AllElts /\ R \in Seq(Int)
  BY <1>1, <1>2, HeapTypes
<1>4. PICK n : n = Cardinality(DOMAIN E)
  OBVIOUS
<1>5. n \in Nat /\ DOMAIN E = 0 .. n - 1 /\ E \in [DOMAIN E -> Elt]
      /\ DOMAIN E \subseteq Nat
  BY <1>3, <1>4, EltsFacts
<1>6. Poison \in Elt
  BY DEF Poison, Elt, NoElt
<1>7. Len(R) \in Nat /\ \A k \in 1 .. Len(R) : R[k] \in DOMAIN E
  BY <1>1, <1>2, <1>3 DEF RemovedOK, Gone
<1>8. \A k, l \in 1 .. Len(R) : R[k] = R[l] => k = l
  BY <1>2 DEF RemovedOK
<1>9. Live(h) = DOMAIN E \ Gone(R)
  BY <1>1, <1>2 DEF Live
<1>10. CASE R # <<>>
  <2>1. m = R[Len(R)] /\ Len(R) \in 1 .. Len(R)
    BY <1>2, <1>3, <1>10 DEF NewEltIndex
  <2>2. g = [h EXCEPT !.removed = SubSeq(R, 1, Len(R) - 1), !.elts[m] = Poison]
    BY <1>2, <1>10 DEF NewElt
  <2>3. PICK S : S = SubSeq(R, 1, Len(R) - 1)
    OBVIOUS
  <2>4. S \in Seq(Int) /\ Len(S) = Len(R) - 1 /\ \A k \in 1 .. Len(R) - 1 : S[k] = R[k]
    <3>1. PICK l \in Nat : l = Len(R) /\ l # 0
      BY <1>7, <2>1
    <3>2. S = SubSeq(R, 1, l - 1)
      BY <2>3, <3>1
    <3>3. S \in Seq(Int) /\ Len(S) = l - 1 /\ \A k \in 1 .. l - 1 : S[k] = R[k]
      BY <1>3, <3>1, <3>2, CutLast
    <3>4. QED BY <3>1, <3>3
  <2>5. PICK G : G = [E EXCEPT ![m] = Poison]
    OBVIOUS
  <2>6. m \in DOMAIN E
    BY <1>7, <2>1
  <2>7. G \in [DOMAIN E -> Elt] /\ G \in AllElts /\ \A i \in DOMAIN E \ {m} : G[i] = E[i]
    <3>1. G \in [DOMAIN E -> Elt] /\ \A i \in DOMAIN E \ {m} : G[i] = E[i]
      BY <1>5, <1>6, <2>5, <2>6
    <3>2. QED BY <1>3, <3>1, EltsType
  <2>8. /\ g \in HeapRec /\ g.elts = G /\ g.removed = S
        /\ g.free = h.free /\ g.head = h.head /\ g.tail = h.tail /\ g.len = h.len
        /\ g.maxSize = h.maxSize /\ g.panicked = h.panicked
    BY <1>1, <2>2, <2>3, <2>4, <2>5, <2>7 DEF HeapRec
  <2>9. Gone(R) = Gone(S) \cup {m} /\ m \notin Gone(S)
    <3>1. ASSUME NEW k \in 1 .. Len(R) PROVE R[k] \in Gone(S) \cup {m}
      <4>1. CASE k = Len(R)
        BY <2>1, <4>1
      <4>2. CASE k # Len(R)
        <5>1. k \in 1 .. Len(S) /\ S[k] = R[k]
          BY <1>7, <2>4, <4>2
        <5>2. QED BY <5>1 DEF Gone
      <4>3. QED BY <4>1, <4>2
    <3>2. ASSUME NEW k \in 1 .. Len(S) PROVE S[k] \in Gone(R) /\ S[k] # m
      <4>1. k \in 1 .. Len(R) /\ k # Len(R) /\ S[k] = R[k]
        BY <1>7, <2>4
      <4>2. QED BY <1>8, <2>1, <4>1 DEF Gone
    <3>3. m \in Gone(R)
      BY <2>1 DEF Gone
    <3>4. QED BY <3>1, <3>2, <3>3 DEF Gone
  <2>10. Live(g) = Live(h) \cup {m} /\ m \notin Live(h)
    <3>1. Live(g) = DOMAIN E \ Gone(S)
      BY <2>7, <2>8 DEF Live
    <3>2. QED BY <1>9, <2>6, <2>9, <3>1
  <2>11. RemovedOK(G, S)
    <3>1. ASSUME NEW k \in 1 .. Len(S), NEW l \in 1 .. Len(S), S[k] = S[l] PROVE k = l
      <4>1. k \in 1 .. Len(R) /\ l \in 1 .. Len(R) /\ S[k] = R[k] /\ S[l] = R[l]
        BY <1>7, <2>4
      <4>2. QED BY <1>8, <3>1, <4>1
    <3>2. Gone(S) \subseteq DOMAIN G
      BY <1>7, <2>7, <2>9, ZenonT(40) DEF Gone
    <3>3. QED BY <3>1, <3>2 DEF RemovedOK
  <2>12. ASSUME NEW i \in Live(h) PROVE g.elts[i] = h.elts[i]
    BY <1>1, <1>9, <2>7, <2>8, <2>10
  <2>13. m \in Nat /\ m \in DOMAIN g.elts /\ DOMAIN h.elts = DOMAIN g.elts
    BY <1>1, <1>5, <2>6, <2>7, <2>8
  <2>14. DOMAIN h.elts = {} => m = 0
    BY <1>1, <2>6
  <2>15. QED BY <2>8, <2>10, <2>11, <2>12, <2>13, <2>14
<1>11. CASE R = <<>>
  <2>1. m = n /\ m \notin DOMAIN E
    BY <1>1, <1>2, <1>4, <1>5, <1>11 DEF NewEltIndex, EltCount
  <2>2. PICK G : G = [i \in DOMAIN E \cup {m} |-> IF i \in DOMAIN E THEN E[i] ELSE Poison]
    OBVIOUS
  <2>3. g = [h EXCEPT !.elts = G]
    BY <1>1, <1>2, <1>11, <2>2 DEF NewElt
  <2>4. G \in [DOMAIN E \cup {m} -> Elt] /\ \A i \in DOMAIN E : G[i] = E[i]
    BY <1>5, <1>6, <2>2
  <2>5. G \in AllElts
    BY <1>3, <1>4, <2>1, <2>4, EltsType
  <2>6. /\ g \in HeapRec /\ g.elts = G /\ g.removed = R
        /\ g.free = h.free /\ g.head = h.head /\ g.tail = h.tail /\ g.len = h.len
        /\ g.maxSize = h.maxSize /\ g.panicked = h.panicked
    BY <1>2, <2>3, <2>5 DEF HeapRec
  <2>7. Gone(R) = {} /\ Len(R) = 0
    BY <1>11 DEF Gone
  <2>8. Live(g) = Live(h) \cup {m} /\ m \notin Live(h)
    <3>1. Live(g) = (DOMAIN E \cup {m}) \ Gone(R)
      BY <2>4, <2>6 DEF Live
    <3>2. QED BY <1>9, <2>1, <2>7, <3>1
  <2>9. RemovedOK(G, R)
    BY <2>7 DEF RemovedOK
  <2>10. DOMAIN h.elts = {} => m = 0
    BY <1>1, <1>5, <2>1
  <2>11. QED BY <1>1, <1>5, <1>9, <2>1, <2>4, <2>6, <2>8, <2>9, <2>10
<1>12. QED BY <1>10, <1>11
-----------------------------------------------------------------------------
(* What a heap in order gives, part by part.                               *)
LEMMA HeapParts ==
  ASSUME NEW h, NEW B, HeapOK(h, B), NEW E, E = h.elts, NEW L, L = Live(h)
  PROVE  /\ h \in HeapRec /\ E \in AllElts /\ E \in [DOMAIN E -> Elt]
         /\ L \in SUBSET Nat /\ L \subseteq DOMAIN E /\ B \subseteq L
         /\ LinksOK(E, L, h.len, h.head, h.tail)
         /\ \A i \in L :
              /\ E[i].offset \in Nat /\ End(E, h.len, i) \in Nat
              /\ E[i].offset < End(E, h.len, i) /\ End(E, h.len, i) <= h.len
              /\ E[i].next \in L \cup {NoElt} /\ E[i].prev \in L \cup {NoElt}
              /\ E[i].next # NoElt => E[E[i].next].prev = i
              /\ E[i].prev # NoElt => E[E[i].prev].next = i
              /\ E[i].next = NoElt <=> i = h.tail
              /\ E[i].free = NoElt <=> i \in B
              /\ E[i].free \in Int
              /\ h.len # 0
         /\ \A i \in L \ B : E[i].next # NoElt => E[i].next \in B
         /\ NoElt \notin L
<1>1. h \in HeapRec /\ E \in AllElts /\ h.len \in Nat
  BY HeapTypes DEF HeapOK
<1>2. E \in [DOMAIN E -> Elt] /\ DOMAIN E \in SUBSET Nat /\ NoElt \notin DOMAIN E
  BY <1>1, EltsFacts
<1>3. L \subseteq DOMAIN E
  BY DEF Live
<1>4. LinksOK(E, L, h.len, h.head, h.tail) /\ HeldOK(E, L, B)
      /\ (h.len = 0 => DOMAIN E = {})
  BY DEF HeapOK
<1>5. \A i \in L : E[i].offset \in Nat /\ E[i].offset < End(E, h.len, i)
      /\ End(E, h.len, i) <= h.len
  BY <1>4 DEF LinksOK
<1>6. /\ \A i \in L : E[i].next # NoElt => E[i].next \in L /\ E[E[i].next].prev = i
      /\ \A i \in L : E[i].prev # NoElt => E[i].prev \in L /\ E[E[i].prev].next = i
      /\ \A i \in L : E[i].next = NoElt => i = h.tail
      /\ h.len # 0 => E[h.tail].next = NoElt
  BY <1>4 DEF LinksOK
<1>7. ASSUME NEW i \in L PROVE End(E, h.len, i) \in Nat
  <2>1. CASE E[i].next = NoElt
    BY <1>1, <2>1 DEF End
  <2>2. CASE E[i].next # NoElt
    BY <1>5, <1>6, <2>2 DEF End
  <2>3. QED BY <2>1, <2>2
<1>8. ASSUME NEW i \in L PROVE h.len # 0 /\ E[i].free \in Int
  BY <1>2, <1>3, <1>4 DEF Elt
<1>9. /\ B \subseteq L /\ \A i \in L : E[i].free = NoElt <=> i \in B
      /\ \A i \in L \ B : E[i].next # NoElt => E[i].next \in B
  BY <1>4 DEF HeldOK
<1>10. QED BY <1>1, <1>2, <1>3, <1>4, <1>5, <1>6, <1>7, <1>8, <1>9

(* Links do not depend on the places elements remember.                    *)
LEMMA LinksFrame ==
  ASSUME NEW E, NEW G, NEW L, NEW n, NEW hd, NEW tl, LinksOK(E, L, n, hd, tl),
         SameLinks(E, G, L)
  PROVE  EndsKept(E, n, G, n, L) /\ LinksOK(G, L, n, hd, tl)
<1> USE DEF SameLinks
<1>1. ASSUME NEW i \in L PROVE End(G, n, i) = End(E, n, i)
  <2>1. E[i].next # NoElt => E[i].next \in L
    BY DEF LinksOK
  <2>2. QED BY <2>1 DEF End
<1>2. /\ \A i \in L : G[i].prev # NoElt => G[i].prev \in L /\ G[G[i].prev].next = i
      /\ \A i \in L : G[i].prev = NoElt => i = hd /\ G[i].offset = 0
      /\ \A i \in L : G[i].next # NoElt => G[i].next \in L /\ G[G[i].next].prev = i
      /\ \A i \in L : G[i].next = NoElt => i = tl
      /\ n # 0 => tl \in L /\ G[tl].next = NoElt
  BY DEF LinksOK
<1>3. \A i \in L : /\ G[i].offset \in Nat
                   /\ G[i].offset < End(G, n, i)
                   /\ End(G, n, i) <= n
  BY <1>1 DEF LinksOK
<1>4. \A i, j \in L : i # j => \/ End(G, n, i) <= G[j].offset
                               \/ End(G, n, j) <= G[i].offset
  BY <1>1 DEF LinksOK
<1>5. QED BY <1>1, <1>2, <1>3, <1>4 DEF LinksOK, EndsKept

(* From h to g, element m is added, and what is not held in h stays.       *)
HasAdded(h, g, B, m) ==
  /\ g \in HeapRec /\ ~g.panicked /\ g.len # 0 /\ g.free = h.free
  /\ RemovedOK(g.elts, g.removed)
  /\ m \notin Live(h) /\ Live(g) = Live(h) \cup {m}
  /\ g.elts[m].free = NoElt
  /\ \A i \in Live(h) : g.elts[i].free = h.elts[i].free
  /\ LinksOK(g.elts, Live(g), g.len, g.head, g.tail)
  /\ \A i \in Live(h) \ B :
       /\ g.elts[i].offset = h.elts[i].offset
       /\ End(g.elts, g.len, i) = End(h.elts, h.len, i)
       /\ g.elts[i].next \in {h.elts[i].next, m, NoElt}

(* A new element m that is held at once.                                   *)
LEMMA AddHeld ==
  ASSUME NEW h, NEW B, HeapOK(h, B), NEW g, NEW m, HasAdded(h, g, B, m)
  PROVE  HeapOK(g, B \cup {m})
<1> USE DEF HasAdded
<1>1. PICK E, G, F, L : E = h.elts /\ G = g.elts /\ F = h.free /\ L = Live(h)
  OBVIOUS
<1>2. ListsOK(E, F, L) /\ SizesOK(E, F, h.len) /\ HeldOK(E, L, B)
  BY <1>1 DEF HeapOK
<1>3. ListsOK(G, F, L \cup {m})
  <2>1. ASSUME NEW i \in L \cup {m}, G[i].free # NoElt
        PROVE  \E k \in DOMAIN F : At(F, k, G[i].free, i)
    <3>1. i \in L /\ G[i].free = E[i].free
      BY <1>1, <2>1
    <3>2. QED BY <1>2, <2>1, <3>1, Zenon DEF ListsOK
  <2>2. ASSUME NEW k \in DOMAIN F, NEW f \in 0 .. Len(F[k]) - 1
        PROVE  F[k][f + 1] \in L \cup {m} /\ G[F[k][f + 1]].free = f
    <3>1. F[k][f + 1] \in L /\ E[F[k][f + 1]].free = f
      BY <1>2, Zenon DEF ListsOK
    <3>2. QED BY <1>1, <3>1
  <2>3. \A k, l \in DOMAIN F :
          \A f \in 0 .. Len(F[k]) - 1, b \in 0 .. Len(F[l]) - 1 :
            F[k][f + 1] = F[l][b + 1] => k = l
    BY <1>2, Zenon DEF ListsOK
  <2>4. QED BY <2>1, <2>2, <2>3, Zenon DEF ListsOK
<1>4. SizesOK(G, F, g.len)
  <2>1. ASSUME NEW k \in DOMAIN F, NEW f \in 0 .. Len(F[k]) - 1, k > 0
        PROVE  End(G, g.len, F[k][f + 1]) = G[F[k][f + 1]].offset + k
    <3>1. F[k][f + 1] \in L /\ E[F[k][f + 1]].free = f
      BY <1>2, Zenon DEF ListsOK
    <3>2. f # NoElt
      BY DEF NoElt
    <3>3. F[k][f + 1] \in L \ B
      BY <1>2, <3>1, <3>2 DEF HeldOK
    <3>4. End(E, h.len, F[k][f + 1]) = E[F[k][f + 1]].offset + k
      BY <1>2, <2>1, Zenon DEF SizesOK
    <3>5. QED BY <1>1, <3>3, <3>4
  <2>2. QED BY <2>1, Zenon DEF SizesOK
<1>5. HeldOK(G, L \cup {m}, B \cup {m})
  BY <1>1, <1>2 DEF HeldOK
<1>6. QED BY <1>1, <1>3, <1>4, <1>5 DEF HeapOK

(* Element p is gone from the elements and from the free lists.            *)
IsRemoved(h, g, p) ==
  /\ g \in HeapRec /\ ~g.panicked /\ g.len = h.len
  /\ DOMAIN g.elts = DOMAIN h.elts /\ Live(g) = Live(h) \ {p}
  /\ RemovedOK(g.elts, g.removed) /\ ListsOK(g.elts, g.free, Live(g))
  /\ Fewer(h.free, g.free) /\ SameFree(h.elts, g.elts, Live(g))

(* The two ends are kept.                                                  *)
SameHeadTail(h, g) == g.head = h.head /\ g.tail = h.tail

(* Elements K stay where they are; their successor is gone or held.        *)
Untouched(h, g, K, B) ==
  \A i \in K : /\ g.elts[i].offset = h.elts[i].offset
               /\ End(g.elts, g.len, i) = End(h.elts, h.len, i)
               /\ g.elts[i].next \in {h.elts[i].next, NoElt} \cup B

(* An element p that was free is gone, its place taken by a neighbour that *)
(* is held.                                                                *)
LEMMA DropFree ==
  ASSUME NEW h, NEW B, HeapOK(h, B), NEW g, NEW p, p \notin B, IsRemoved(h, g, p),
         LinksOK(g.elts, Live(g), g.len, g.head, g.tail), Untouched(h, g, Live(g) \ B, B)
  PROVE  HeapOK(g, B)
<1> USE DEF IsRemoved, Untouched
<1>1. PICK E, G, F, K, L : /\ E = h.elts /\ G = g.elts /\ F = h.free /\ K = g.free
                           /\ L = Live(h) \ {p}
  OBVIOUS
<1>2. SizesOK(E, F, h.len) /\ HeldOK(E, Live(h), B)
  BY <1>1 DEF HeapOK
<1>3. ListsOK(G, K, L)
  BY <1>1
<1>4. HeldOK(G, L, B)
  BY <1>1, <1>2 DEF HeldOK, SameFree
<1>5. ASSUME NEW k \in DOMAIN K, NEW f \in 0 .. Len(K[k]) - 1, k > 0
      PROVE  End(G, g.len, K[k][f + 1]) = G[K[k][f + 1]].offset + k
  <2>1. K[k][f + 1] \in L /\ G[K[k][f + 1]].free = f
    BY <1>3, ZenonT(40) DEF ListsOK
  <2>2. f # NoElt
    BY DEF NoElt
  <2>3. K[k][f + 1] \in L \ B
    BY <1>4, <2>1, <2>2 DEF HeldOK
  <2>4. \E b \in Places(F[k]) : K[k][f + 1] = F[k][b + 1]
    BY <1>1 DEF Places, Fewer
  <2>5. PICK b \in 0 .. Len(F[k]) - 1 : K[k][f + 1] = F[k][b + 1]
    BY <2>4 DEF Places
  <2>6. k \in DOMAIN F
    BY <1>1 DEF Fewer
  <2>7. End(E, h.len, F[k][b + 1]) = E[F[k][b + 1]].offset + k
    BY <1>2, <1>5, <2>6, Zenon DEF SizesOK
  <2>8. QED BY <1>1, <2>3, <2>5, <2>7
<1>6. SizesOK(G, K, g.len)
  BY <1>5, Zenon DEF SizesOK
<1>7. h.len = 0 => DOMAIN g.elts = {}
  BY DEF HeapOK
<1>8. QED BY <1>1, <1>3, <1>4, <1>6, <1>7 DEF HeapOK

(* A free element e taken off its list by its new holder.                  *)
LEMMA TakeFree ==
  ASSUME NEW h, NEW B, HeapOK(h, B), NEW g \in HeapRec, ~g.panicked, g.len = h.len,
         g.head = h.head, g.tail = h.tail, g.removed = h.removed,
         DOMAIN g.elts = DOMAIN h.elts,
         NEW e \in Live(h), g.elts[e].free = NoElt,
         ListsOK(g.elts, g.free, Live(h) \ {e}),
         Fewer(h.free, g.free), SameFree(h.elts, g.elts, Live(h) \ {e}),
         SameLinks(h.elts, g.elts, Live(h))
  PROVE  HeapOK(g, B \cup {e}) /\ Same(h, g, Live(h))
<1>1. PICK E, G, F, K, L : /\ E = h.elts /\ G = g.elts /\ F = h.free /\ K = g.free
                           /\ L = Live(h)
  OBVIOUS
<1>2. /\ SizesOK(E, F, h.len) /\ HeldOK(E, L, B) /\ LinksOK(E, L, h.len, h.head, h.tail)
      /\ RemovedOK(E, h.removed)
  BY <1>1 DEF HeapOK
<1>3. ListsOK(G, K, L \ {e})
  BY <1>1
<1>4. L = Live(g)
  BY <1>1 DEF Live
<1>5. LinksOK(G, L, g.len, g.head, g.tail)
      /\ \A i \in L : End(G, g.len, i) = End(E, h.len, i)
  <2>1. SameLinks(E, G, L)
    BY <1>1
  <2>2. LinksOK(G, L, h.len, h.head, h.tail) /\ EndsKept(E, h.len, G, h.len, L)
    BY <1>2, <2>1, LinksFrame
  <2>3. QED BY <2>2 DEF EndsKept
<1>6. ListsOK(G, K, L)
  <2>1. \A i \in L : G[i].free # NoElt => \E k \in DOMAIN K : At(K, k, G[i].free, i)
    BY <1>1, <1>3, Zenon DEF ListsOK
  <2>2. \A k \in DOMAIN K : \A f \in 0 .. Len(K[k]) - 1 :
          K[k][f + 1] \in L /\ G[K[k][f + 1]].free = f
    <3>1. \A k \in DOMAIN K : \A f \in 0 .. Len(K[k]) - 1 :
            K[k][f + 1] \in L \ {e} /\ G[K[k][f + 1]].free = f
      BY <1>3, Zenon DEF ListsOK
    <3>2. QED BY <3>1
  <2>3. \A k, l \in DOMAIN K :
          \A f \in 0 .. Len(K[k]) - 1, b \in 0 .. Len(K[l]) - 1 :
            K[k][f + 1] = K[l][b + 1] => k = l
    BY <1>3, Zenon DEF ListsOK
  <2>4. QED BY <2>1, <2>2, <2>3, Zenon DEF ListsOK
<1>7. HeldOK(G, L, B \cup {e})
  BY <1>1, <1>2 DEF HeldOK, SameFree, SameLinks
<1>8. ASSUME NEW k \in DOMAIN K, NEW f \in 0 .. Len(K[k]) - 1, k > 0
      PROVE  End(G, g.len, K[k][f + 1]) = G[K[k][f + 1]].offset + k
  <2>1. K[k][f + 1] \in L
    BY <1>6, Zenon DEF ListsOK
  <2>2. \E b \in Places(F[k]) : K[k][f + 1] = F[k][b + 1]
    BY <1>1 DEF Places, Fewer
  <2>3. PICK b \in 0 .. Len(F[k]) - 1 : K[k][f + 1] = F[k][b + 1]
    BY <2>2 DEF Places
  <2>4. k \in DOMAIN F
    BY <1>1 DEF Fewer
  <2>5. End(E, h.len, F[k][b + 1]) = E[F[k][b + 1]].offset + k
    BY <1>2, <1>8, <2>4, Zenon DEF SizesOK
  <2>6. QED BY <1>1, <1>5, <2>1, <2>3, <2>5 DEF SameLinks
<1>9. SizesOK(G, K, g.len)
  BY <1>8, Zenon DEF SizesOK
<1>10. RemovedOK(G, g.removed)
  BY <1>1, <1>2 DEF RemovedOK
<1>11. g.len = 0 => DOMAIN g.elts = {}
  BY DEF HeapOK
<1>12. HeapOK(g, B \cup {e})
  BY <1>1, <1>4, <1>5, <1>6, <1>7, <1>9, <1>10, <1>11 DEF HeapOK
<1>13. Same(h, g, Live(h))
  BY <1>1, <1>5 DEF Same, SameLinks
<1>14. QED BY <1>12, <1>13
-----------------------------------------------------------------------------
(* Block ei is cut at o; its second part ni, or its first, is held too.    *)
CutAfterOK(h, g, B, ei, o, ni) ==
  /\ HeapOK(g, B \cup {ni}) /\ ni \notin Live(h) /\ Live(g) = Live(h) \cup {ni}
  /\ Same(h, g, B \ {ei})
  /\ g.elts[ei].offset = h.elts[ei].offset /\ End(g.elts, g.len, ei) = o
  /\ g.elts[ni].offset = o
  /\ End(g.elts, g.len, ni) = End(h.elts, h.len, ei)
  /\ g.elts[ni].prev = ei /\ g.elts[ni].next = h.elts[ei].next

CutBeforeOK(h, g, B, ei, ao, ni) ==
  /\ HeapOK(g, B \cup {ni}) /\ ni \notin Live(h) /\ Live(g) = Live(h) \cup {ni}
  /\ Same(h, g, B \ {ei})
  /\ g.elts[ei].offset = ao /\ End(g.elts, g.len, ei) = End(h.elts, h.len, ei)
  /\ g.elts[ei].next = h.elts[ei].next

(* newEltAfter: block ei is cut at o.                                      *)
LEMMA InsertAfterOK ==
  ASSUME NEW h, NEW B, HeapOK(h, B), NEW ei \in B, NEW o \in Nat,
         h.elts[ei].offset < o, o < End(h.elts, h.len, ei),
         NEW ni, ni = NewEltIndex(h), NEW g, g = InsertAfter(h, ei, o)
  PROVE  CutAfterOK(h, g, B, ei, o, ni)
<1>1. PICK E, L, n, N : E = h.elts /\ L = Live(h) /\ n = NewElt(h) /\ N = n.elts
  OBVIOUS
<1>2. /\ h \in HeapRec /\ E \in [DOMAIN E -> Elt] /\ L \in SUBSET Nat
      /\ L \subseteq DOMAIN E
      /\ B \subseteq L /\ LinksOK(E, L, h.len, h.head, h.tail) /\ NoElt \notin L
      /\ E[ei].next \in L \cup {NoElt} /\ h.len # 0 /\ h.len \in Nat /\ ei \in L
  <2>1. /\ h \in HeapRec /\ E \in [DOMAIN E -> Elt] /\ L \in SUBSET Nat
        /\ L \subseteq DOMAIN E
        /\ B \subseteq L /\ LinksOK(E, L, h.len, h.head, h.tail) /\ NoElt \notin L
        /\ \A i \in L : E[i].next \in L \cup {NoElt} /\ h.len # 0
    BY <1>1, HeapParts
  <2>2. QED BY <2>1, HeapTypes
<1>3. RemovedOK(E, h.removed) /\ ~h.panicked
  BY <1>1 DEF HeapOK
<1>4. /\ ni \in Nat /\ ni \notin L
      /\ n \in HeapRec /\ Live(n) = L \cup {ni} /\ RemovedOK(N, n.removed)
      /\ ni \in DOMAIN N
      /\ \A i \in L : N[i] = E[i]
      /\ n.free = h.free /\ n.head = h.head /\ n.tail = h.tail /\ n.len = h.len
      /\ n.panicked = h.panicked
  BY <1>1, <1>2, <1>3, NewEltFacts
<1>5. N \in AllElts /\ N \in [DOMAIN N -> Elt] /\ L \cup {ni} \subseteq DOMAIN N
  <2>1. N \in AllElts
    BY <1>1, <1>4, HeapTypes
  <2>2. L \cup {ni} \subseteq DOMAIN N
    BY <1>1, <1>4 DEF Live
  <2>3. QED BY <2>1, <2>2, EltsFacts
<1>6. PICK x, S : x = E[ei].next /\ S = SetPrev(N, x, ni)
  OBVIOUS
<1>7. IsSetPrev(S, N, x, ni)
  <2>1. x \in DOMAIN N \cup {NoElt} /\ ni \in Int
    BY <1>2, <1>4, <1>5, <1>6
  <2>2. N \in AllElts /\ S = SetPrev(N, x, ni)
    BY <1>5, <1>6
  <2>3. QED BY <2>1, <2>2, SetPrevFacts
<1>8. PICK c : c = [offset |-> o, free |-> NoElt, next |-> x, prev |-> ei]
  OBVIOUS
<1>9. PICK G : G = [S EXCEPT ![ni] = c, ![ei].next = ni]
  OBVIOUS
<1>10. /\ G \in AllElts /\ DOMAIN G = DOMAIN N /\ G[ni] = c
       /\ \A j \in DOMAIN N \ {ni} :
            /\ G[j].offset = S[j].offset /\ G[j].free = S[j].free /\ G[j].prev = S[j].prev
            /\ G[j].next = IF j = ei THEN ni ELSE S[j].next
  <2>1. S \in [DOMAIN N -> Elt]
    BY <1>7, EltsFacts DEF IsSetPrev
  <2>2. c \in Elt
    BY <1>2, <1>6, <1>8 DEF Elt, NoElt
  <2>3. ei # ni /\ ei \in DOMAIN N /\ ni \in DOMAIN N /\ ni \in Int
    BY <1>2, <1>4, <1>5
  <2>4. G \in [DOMAIN N -> Elt]
    BY <1>9, <2>1, <2>2, <2>3 DEF Elt
  <2>5. G[ni] = c /\ \A j \in DOMAIN N \ {ni} :
            /\ G[j].offset = S[j].offset /\ G[j].free = S[j].free /\ G[j].prev = S[j].prev
            /\ G[j].next = IF j = ei THEN ni ELSE S[j].next
    BY <1>9, <2>1, <2>2, <2>3 DEF Elt
  <2>6. G \in AllElts
    BY <1>5, <2>4, EltsType
  <2>7. QED BY <2>4, <2>5, <2>6
<1>11. g = [n EXCEPT !.elts = G, !.tail = IF x = NoElt THEN ni ELSE h.tail]
  <2>1. g = [n EXCEPT !.elts = [SetPrev(N, x, ni) EXCEPT ![ni] = c, ![ei].next = ni],
                      !.tail = IF x = NoElt THEN ni ELSE n.tail]
    BY <1>1, <1>6, <1>8 DEF InsertAfter
  <2>2. QED BY <1>4, <1>6, <1>9, <2>1
<1>12. /\ g \in HeapRec /\ g.elts = G /\ g.tail = (IF x = NoElt THEN ni ELSE h.tail)
       /\ g.free = h.free /\ g.head = h.head /\ g.len = h.len /\ g.removed = n.removed
       /\ ~g.panicked
  <2>1. (IF x = NoElt THEN ni ELSE h.tail) \in Int
    BY <1>2, <1>4, HeapTypes
  <2>2. QED BY <1>3, <1>4, <1>10, <1>11, <2>1 DEF HeapRec
<1>13. /\ \A i \in L : G[i].offset = E[i].offset
       /\ \A i \in L : G[i].prev = IF i = x THEN ni ELSE E[i].prev
       /\ \A i \in L : G[i].next = IF i = ei THEN ni ELSE E[i].next
       /\ \A i \in L : G[i].free = E[i].free
       /\ G[ni].offset = o /\ G[ni].next = x /\ G[ni].prev = ei /\ G[ni].free = NoElt
  BY <1>4, <1>5, <1>7, <1>8, <1>10 DEF IsSetPrev
<1>14. /\ \A i \in L \ {ei} : End(G, h.len, i) = End(E, h.len, i)
       /\ End(G, h.len, ei) = o /\ End(G, h.len, ni) = End(E, h.len, ei)
       /\ LinksOK(G, L \cup {ni}, h.len, h.head, IF x = NoElt THEN ni ELSE h.tail)
  <2>1. IsCutAfter(E, G, L, ei, o, ni)
    BY <1>6, <1>13 DEF IsCutAfter
  <2>2. /\ E[ei].offset < o /\ o < End(E, h.len, ei)
    BY <1>1
  <2>3. /\ EndsKept(E, h.len, G, h.len, L \ {ei})
        /\ CutEnds(E, h.len, G, ei, o, ni)
        /\ LinksOK(G, L \cup {ni}, h.len, h.head, IF E[ei].next = NoElt THEN ni ELSE h.tail)
    <3>1. L \in SUBSET Nat /\ h.len \in Nat /\ LinksOK(E, L, h.len, h.head, h.tail)
      BY <1>2
    <3>2. ei \in L /\ ni \in Nat /\ ni \notin L
      BY <1>2, <1>4
    <3>3. QED BY <2>1, <2>2, <3>1, <3>2, CutAfter
  <2>4. QED BY <1>6, <2>3 DEF EndsKept, CutEnds
<1>15. Live(g) = L \cup {ni}
  BY <1>1, <1>4, <1>10, <1>12 DEF Live
<1>16. RemovedOK(G, g.removed)
  BY <1>4, <1>10, <1>12 DEF RemovedOK
<1>17. HeapOK(g, B \cup {ni})
  <2>1. \A i \in L \ B : /\ G[i].offset = E[i].offset
                         /\ End(G, h.len, i) = End(E, h.len, i)
                         /\ G[i].next \in {E[i].next, ni, NoElt}
    BY <1>13, <1>14
  <2>2. /\ g \in HeapRec /\ ~g.panicked /\ g.len # 0 /\ g.free = h.free
        /\ ni \notin L /\ G[ni].free = NoElt /\ \A i \in L : G[i].free = E[i].free
    BY <1>1, <1>2, <1>4, <1>12, <1>13
  <2>3. LinksOK(G, Live(g), g.len, g.head, g.tail)
    BY <1>12, <1>14, <1>15
  <2>4. HasAdded(h, g, B, ni)
    BY <1>1, <1>12, <1>15, <1>16, <2>1, <2>2, <2>3 DEF HasAdded
  <2>5. QED BY <1>1, <2>4, AddHeld
<1>18. Same(h, g, B \ {ei})
  BY <1>1, <1>2, <1>12, <1>13, <1>14 DEF Same
<1>19. QED BY <1>1, <1>2, <1>4, <1>6, <1>12, <1>13, <1>14, <1>15, <1>17,
              <1>18 DEF CutAfterOK

(* newEltBefore: block ei is cut at ao, the first part is the new one.     *)
LEMMA InsertBeforeOK ==
  ASSUME NEW h, NEW B, HeapOK(h, B), NEW ei \in B, NEW ao \in Nat,
         h.elts[ei].offset < ao, ao < End(h.elts, h.len, ei),
         NEW ni, ni = NewEltIndex(h), NEW g, g = InsertBefore(h, ei, ao)
  PROVE  CutBeforeOK(h, g, B, ei, ao, ni)
<1>1. PICK E, L, n, N : E = h.elts /\ L = Live(h) /\ n = NewElt(h) /\ N = n.elts
  OBVIOUS
<1>2. /\ h \in HeapRec /\ E \in [DOMAIN E -> Elt] /\ L \in SUBSET Nat
      /\ L \subseteq DOMAIN E
      /\ B \subseteq L /\ LinksOK(E, L, h.len, h.head, h.tail) /\ NoElt \notin L
      /\ E[ei].prev \in L \cup {NoElt} /\ h.len # 0 /\ h.len \in Nat /\ ei \in L
      /\ E[ei].prev # ei
  <2>1. /\ h \in HeapRec /\ E \in [DOMAIN E -> Elt] /\ L \in SUBSET Nat
        /\ L \subseteq DOMAIN E
        /\ B \subseteq L /\ LinksOK(E, L, h.len, h.head, h.tail) /\ NoElt \notin L
        /\ \A i \in L : /\ E[i].prev \in L \cup {NoElt} /\ h.len # 0
                        /\ E[i].prev # NoElt => E[E[i].prev].next = i
                        /\ E[i].offset \in Nat /\ E[i].offset < End(E, h.len, i)
    BY <1>1, HeapParts
  <2>2. E[ei].prev # ei
    <3>1. SUFFICES ASSUME E[ei].prev = ei PROVE FALSE
      OBVIOUS
    <3>2. ei \in L /\ ei # NoElt /\ E[ei].next = ei
      BY <2>1, <3>1
    <3>3. End(E, h.len, ei) = E[ei].offset
      BY <3>2 DEF End
    <3>4. QED BY <2>1, <3>2, <3>3
  <2>3. QED BY <2>1, <2>2, HeapTypes
<1>3. RemovedOK(E, h.removed) /\ ~h.panicked
  BY <1>1 DEF HeapOK
<1>4. /\ ni \in Nat /\ ni \notin L
      /\ n \in HeapRec /\ Live(n) = L \cup {ni} /\ RemovedOK(N, n.removed)
      /\ ni \in DOMAIN N
      /\ \A i \in L : N[i] = E[i]
      /\ n.free = h.free /\ n.head = h.head /\ n.tail = h.tail /\ n.len = h.len
      /\ n.panicked = h.panicked
  BY <1>1, <1>2, <1>3, NewEltFacts
<1>5. N \in AllElts /\ N \in [DOMAIN N -> Elt] /\ L \cup {ni} \subseteq DOMAIN N
  <2>1. N \in AllElts
    BY <1>1, <1>4, HeapTypes
  <2>2. L \cup {ni} \subseteq DOMAIN N
    BY <1>1, <1>4 DEF Live
  <2>3. QED BY <2>1, <2>2, EltsFacts
<1>6. PICK x, S : x = E[ei].prev /\ S = SetNext(N, x, ni)
  OBVIOUS
<1>7. IsSetNext(S, N, x, ni)
  <2>1. x \in DOMAIN N \cup {NoElt} /\ ni \in Int
    BY <1>2, <1>4, <1>5, <1>6
  <2>2. N \in AllElts /\ S = SetNext(N, x, ni)
    BY <1>5, <1>6
  <2>3. QED BY <2>1, <2>2, SetNextFacts
<1>8. PICK c : c = [offset |-> E[ei].offset, free |-> NoElt, next |-> ei, prev |-> x]
  OBVIOUS
<1>9. PICK G : G = [S EXCEPT ![ni] = c, ![ei].prev = ni, ![ei].offset = ao]
  OBVIOUS
<1>10. /\ G \in AllElts /\ DOMAIN G = DOMAIN N /\ G[ni] = c
       /\ \A j \in DOMAIN N \ {ni} :
            /\ G[j].offset = IF j = ei THEN ao ELSE S[j].offset
            /\ G[j].free = S[j].free /\ G[j].next = S[j].next
            /\ G[j].prev = IF j = ei THEN ni ELSE S[j].prev
  <2>1. S \in [DOMAIN N -> Elt]
    BY <1>7, EltsFacts DEF IsSetNext
  <2>2. c \in Elt
    BY <1>2, <1>6, <1>8 DEF Elt, NoElt
  <2>3. ei # ni /\ ei \in DOMAIN N /\ ni \in DOMAIN N /\ ni \in Int
    BY <1>2, <1>4, <1>5
  <2>4. G \in [DOMAIN N -> Elt]
    <3>1. PICK T : T = [S EXCEPT ![ni] = c]
      OBVIOUS
    <3>2. T \in [DOMAIN N -> Elt]
      BY <2>1, <2>2, <3>1
    <3>3. G = [T EXCEPT ![ei].prev = ni, ![ei].offset = ao]
      BY <1>9, <3>1
    <3>4. [T[ei] EXCEPT !.prev = ni, !.offset = ao] \in Elt
      <4>1. T[ei] \in Elt /\ ao \in Int
        BY <2>3, <3>2
      <4>2. QED BY <2>3, <4>1 DEF Elt
    <3>5. G = [T EXCEPT ![ei] = [T[ei] EXCEPT !.prev = ni, !.offset = ao]]
      BY <2>3, <3>2, <3>3
    <3>6. QED BY <3>2, <3>4, <3>5
  <2>5. G[ni] = c /\ \A j \in DOMAIN N \ {ni} :
            /\ G[j].offset = IF j = ei THEN ao ELSE S[j].offset
            /\ G[j].free = S[j].free /\ G[j].next = S[j].next
            /\ G[j].prev = IF j = ei THEN ni ELSE S[j].prev
    BY <1>9, <2>1, <2>2, <2>3 DEF Elt
  <2>6. G \in AllElts
    BY <1>5, <2>4, EltsType
  <2>7. QED BY <2>4, <2>5, <2>6
<1>11. g = [n EXCEPT !.elts = G, !.head = IF x = NoElt THEN ni ELSE h.head]
  <2>1. g = [n EXCEPT !.elts = [SetNext(N, x, ni) EXCEPT
                                  ![ni] = c, ![ei].prev = ni, ![ei].offset = ao],
                      !.head = IF x = NoElt THEN ni ELSE n.head]
    BY <1>1, <1>6, <1>8 DEF InsertBefore
  <2>2. QED BY <1>4, <1>6, <1>9, <2>1
<1>12. /\ g \in HeapRec /\ g.elts = G /\ g.head = (IF x = NoElt THEN ni ELSE h.head)
       /\ g.free = h.free /\ g.tail = h.tail /\ g.len = h.len /\ g.removed = n.removed
       /\ ~g.panicked
  <2>1. (IF x = NoElt THEN ni ELSE h.head) \in Int
    BY <1>2, <1>4, HeapTypes
  <2>2. QED BY <1>3, <1>4, <1>10, <1>11, <2>1 DEF HeapRec
<1>13. /\ \A i \in L : G[i].offset = IF i = ei THEN ao ELSE E[i].offset
       /\ \A i \in L : G[i].prev = IF i = ei THEN ni ELSE E[i].prev
       /\ \A i \in L : G[i].next = IF i = x THEN ni ELSE E[i].next
       /\ \A i \in L : G[i].free = E[i].free
       /\ G[ni].offset = E[ei].offset /\ G[ni].next = ei /\ G[ni].prev = x
       /\ G[ni].free = NoElt
  BY <1>4, <1>5, <1>7, <1>8, <1>10 DEF IsSetNext
<1>14. /\ \A i \in L : End(G, h.len, i) = End(E, h.len, i)
       /\ LinksOK(G, L \cup {ni}, h.len, IF x = NoElt THEN ni ELSE h.head, h.tail)
  <2>1. IsCutBefore(E, G, L, ei, ao, ni)
    BY <1>6, <1>13 DEF IsCutBefore
  <2>2. /\ E[ei].offset < ao /\ ao < End(E, h.len, ei)
    BY <1>1
  <2>3. /\ EndsKept(E, h.len, G, h.len, L)
        /\ LinksOK(G, L \cup {ni}, h.len, IF E[ei].prev = NoElt THEN ni ELSE h.head, h.tail)
    <3>1. L \in SUBSET Nat /\ h.len \in Nat /\ LinksOK(E, L, h.len, h.head, h.tail)
      BY <1>2
    <3>2. ei \in L /\ ni \in Nat /\ ni \notin L
      BY <1>2, <1>4
    <3>3. QED BY <2>1, <2>2, <3>1, <3>2, CutBefore, ZenonT(40)
  <2>4. QED BY <1>6, <2>3 DEF EndsKept
<1>15. Live(g) = L \cup {ni}
  BY <1>1, <1>4, <1>10, <1>12 DEF Live
<1>16. RemovedOK(G, g.removed)
  BY <1>4, <1>10, <1>12 DEF RemovedOK
<1>17. HeapOK(g, B \cup {ni})
  <2>1. \A i \in L \ B : /\ G[i].offset = E[i].offset
                         /\ End(G, h.len, i) = End(E, h.len, i)
                         /\ G[i].next \in {E[i].next, ni, NoElt}
    BY <1>13, <1>14
  <2>2. /\ g \in HeapRec /\ ~g.panicked /\ g.len # 0 /\ g.free = h.free
        /\ ni \notin L /\ G[ni].free = NoElt /\ \A i \in L : G[i].free = E[i].free
    BY <1>1, <1>2, <1>4, <1>12, <1>13
  <2>3. LinksOK(G, Live(g), g.len, g.head, g.tail)
    BY <1>12, <1>14, <1>15
  <2>4. HasAdded(h, g, B, ni)
    BY <1>1, <1>12, <1>15, <1>16, <2>1, <2>2, <2>3 DEF HasAdded
  <2>5. QED BY <1>1, <2>4, AddHeld
<1>18. Same(h, g, B \ {ei})
  BY <1>1, <1>2, <1>12, <1>13, <1>14 DEF Same
<1>19. QED BY <1>1, <1>2, <1>4, <1>6, <1>12, <1>13, <1>14, <1>15, <1>17,
              <1>18 DEF CutBeforeOK

(* freeElt: a held block whose neighbours are held goes to its free list.  *)
LEMMA FreeEltOK ==
  ASSUME NEW h, NEW B, HeapOK(h, B), NEW ei \in B,
         NEW size, size = End(h.elts, h.len, ei) - h.elts[ei].offset,
         h.elts[ei].next \in B \cup {NoElt}, h.elts[ei].prev \in B \cup {NoElt},
         NEW g, g = FreeElt(h, ei, size)
  PROVE  HeapOK(g, B \ {ei}) /\ Same(h, g, Live(h)) /\ Live(g) = Live(h)
<1>1. PICK E, L, F : E = h.elts /\ L = Live(h) /\ F = h.free
  OBVIOUS
<1>2. /\ h \in HeapRec /\ E \in AllElts /\ E \in [DOMAIN E -> Elt] /\ L \in SUBSET Nat
      /\ L \subseteq DOMAIN E /\ B \subseteq L /\ LinksOK(E, L, h.len, h.head, h.tail)
      /\ NoElt \notin L
      /\ \A i \in L : /\ E[i].offset \in Nat /\ End(E, h.len, i) \in Nat
                      /\ E[i].offset < End(E, h.len, i)
                      /\ E[i].next # NoElt => E[E[i].next].prev = i
                      /\ E[i].free = NoElt <=> i \in B
                      /\ h.len # 0
      /\ \A i \in L \ B : E[i].next # NoElt => E[i].next \in B
  BY <1>1, HeapParts
<1>3. /\ RemovedOK(E, h.removed) /\ ~h.panicked /\ ListsOK(E, F, L)
      /\ SizesOK(E, F, h.len)
  BY <1>1 DEF HeapOK
<1>4. F \in AllLists /\ h.maxSize \in Nat
  BY <1>1, <1>2, HeapTypes
<1>5. PICK c \in Nat : DOMAIN F = 0 .. c - 1 /\ \A j \in DOMAIN F : F[j] \in Seq(Int)
  BY <1>4, ListsFacts
<1>6. ei \in L /\ ei \in Nat /\ size \in Nat \ {0} /\ E[ei].free = NoElt
  BY <1>1, <1>2
<1>7. PICK k \in Nat : k = (IF size > h.maxSize THEN 0 ELSE size) /\ (k > 0 => k = size)
  BY <1>4, <1>6
<1>8. PICK q : q = IF k \in DOMAIN F THEN F[k] ELSE <<>>
  OBVIOUS
<1>9. q \in Seq(Int) /\ Len(q) \in Nat
  BY <1>5, <1>8
<1>10. PICK A : A = [j \in DOMAIN F \cup 0 .. k |-> IF j \in DOMAIN F THEN F[j] ELSE <<>>]
  OBVIOUS
<1>11. A[k] = q /\ k \in DOMAIN A
  BY <1>8, <1>10
<1>12. PICK F2, G : F2 = [A EXCEPT ![k] = Append(q, ei)]
            /\ G = [E EXCEPT ![ei].free = Len(q)]
  OBVIOUS
<1>13. g = [h EXCEPT !.elts = G, !.free = F2]
  <2>1. g = [h EXCEPT !.elts[ei].free = Len(A[k]), !.free = [A EXCEPT ![k] = Append(@, ei)]]
    BY <1>1, <1>7, <1>10 DEF FreeElt
  <2>2. [A EXCEPT ![k] = Append(@, ei)] = F2
    BY <1>11, <1>12
  <2>3. QED BY <1>1, <1>11, <1>12, <2>1, <2>2
<1>14. /\ DOMAIN F2 = DOMAIN F \cup 0 .. k /\ F2[k] = Append(q, ei)
       /\ \A j \in DOMAIN F2 \ {k} : F2[j] = IF j \in DOMAIN F THEN F[j] ELSE <<>>
  BY <1>10, <1>12
<1>15. F2 \in AllLists
  <2>1. PICK d \in Nat : d = IF c > k THEN c ELSE k + 1
    BY <1>7
  <2>2. DOMAIN F2 = 0 .. d - 1
    BY <1>5, <1>14, <2>1
  <2>3. ASSUME NEW j \in DOMAIN F2 PROVE F2[j] \in Seq(Int)
    <3>1. CASE j = k
      BY <1>6, <1>9, <1>14, <3>1, AppendFacts
    <3>2. CASE j # k /\ j \in DOMAIN F
      BY <1>5, <1>14, <3>2
    <3>3. CASE j # k /\ j \notin DOMAIN F
      <4>1. F2[j] = <<>>
        BY <1>14, <3>3
      <4>2. QED BY <4>1
    <3>4. QED BY <3>1, <3>2, <3>3
  <2>4. F2 = [j \in DOMAIN F2 |-> F2[j]]
    BY <1>10, <1>12
  <2>5. F2 \in [0 .. d - 1 -> Seq(Int)]
    BY <2>2, <2>3, <2>4
  <2>6. QED BY <2>1, <2>5 DEF AllLists
<1>16. /\ G \in AllElts /\ DOMAIN G = DOMAIN E /\ G[ei].free = Len(q)
       /\ SameLinks(E, G, L)
       /\ \A j \in DOMAIN E : /\ G[j].offset = E[j].offset /\ G[j].next = E[j].next
                              /\ G[j].prev = E[j].prev
       /\ \A j \in DOMAIN E \ {ei} : G[j].free = E[j].free
  <2>1. ei \in DOMAIN E /\ Len(q) \in Int
    BY <1>2, <1>6, <1>9
  <2>2. IsSetFree(G, E, ei, Len(q))
    BY <1>2, <1>12, <2>1, SetFreeFacts
  <2>3. QED BY <1>2, <1>6, <2>1, <2>2 DEF IsSetFree, SameLinks
<1>17. /\ g \in HeapRec /\ g.elts = G /\ g.free = F2 /\ g.removed = h.removed
       /\ g.head = h.head /\ g.tail = h.tail /\ g.len = h.len /\ ~g.panicked
  BY <1>2, <1>3, <1>13, <1>15, <1>16 DEF HeapRec
<1>18. Live(g) = L
  BY <1>1, <1>16, <1>17 DEF Live
<1>19. LinksOK(G, L, h.len, h.head, h.tail)
       /\ \A i \in L : End(G, h.len, i) = End(E, h.len, i)
  <2>1. LinksOK(G, L, h.len, h.head, h.tail) /\ EndsKept(E, h.len, G, h.len, L)
    BY <1>2, <1>16, LinksFrame
  <2>2. QED BY <2>1 DEF EndsKept
<1>20. ListsOK(G, F2, L) /\ OneMore(F, F2, ei, k)
  <2>1. IsAdded(E, G, F, F2, L, ei, k, q)
    BY <1>2, <1>8, <1>14, <1>16 DEF IsAdded
  <2>2. QED BY <1>2, <1>3, <1>5, <1>6, <1>9, <2>1, ListAdd
<1>21. ASSUME NEW j \in DOMAIN F2, NEW f \in 0 .. Len(F2[j]) - 1, j > 0
       PROVE  End(G, h.len, F2[j][f + 1]) = G[F2[j][f + 1]].offset + j
  <2>1. CASE F2[j][f + 1] = ei /\ j = k
    <3>1. End(E, h.len, ei) = E[ei].offset + k
      BY <1>1, <1>2, <1>6, <1>7, <1>21, <2>1
    <3>2. QED BY <1>2, <1>6, <1>16, <1>19, <2>1, <3>1
  <2>2. CASE /\ j \in DOMAIN F /\ f \in Places(F[j])
             /\ F2[j][f + 1] = F[j][f + 1] /\ F[j][f + 1] # ei
    <3>1. f \in 0 .. Len(F[j]) - 1
      BY <2>2 DEF Places
    <3>2. F[j][f + 1] \in L
      BY <1>3, <2>2, <3>1, Zenon DEF ListsOK
    <3>3. End(E, h.len, F[j][f + 1]) = E[F[j][f + 1]].offset + j
      BY <1>3, <1>21, <2>2, <3>1, Zenon DEF SizesOK
    <3>4. QED BY <1>2, <1>16, <1>19, <2>2, <3>2, <3>3
  <2>3. QED BY <1>20, <2>1, <2>2 DEF OneMore, Places
<1>22. SizesOK(G, F2, h.len)
  BY <1>21, Zenon DEF SizesOK
<1>23. HeldOK(G, L, B \ {ei})
  <2>1. ASSUME NEW i \in L PROVE G[i].free = NoElt <=> i \in B \ {ei}
    <3>1. Len(q) # NoElt
      BY <1>9 DEF NoElt
    <3>2. QED BY <1>2, <1>6, <1>16, <3>1
  <2>2. ASSUME NEW i \in L \ (B \ {ei}), G[i].next # NoElt PROVE G[i].next \in B \ {ei}
    <3>1. G[i].next = E[i].next
      BY <1>2, <1>16
    <3>2. CASE i = ei
      <4>1. E[ei].next \in B
        BY <1>1, <2>2, <3>1, <3>2
      <4>2. E[ei].next # ei
        <5>1. ASSUME E[ei].next = ei PROVE FALSE
          <6>1. End(E, h.len, ei) = E[ei].offset
            <7>1. ei # NoElt
              BY <1>6 DEF NoElt
            <7>2. QED BY <5>1, <7>1 DEF End
          <6>2. QED BY <1>2, <1>6, <6>1
        <5>2. QED BY <5>1
      <4>3. QED BY <3>1, <3>2, <4>1, <4>2
    <3>3. CASE i # ei
      <4>1. i \in L \ B /\ E[i].next \in B
        BY <1>2, <2>2, <3>1, <3>3
      <4>2. E[i].next # ei
        <5>1. ASSUME E[i].next = ei PROVE FALSE
          <6>1. E[ei].prev = i
            BY <1>2, <2>2, <3>1, <5>1
          <6>2. QED BY <1>1, <1>2, <4>1, <6>1
        <5>2. QED BY <5>1
      <4>3. QED BY <3>1, <4>1, <4>2
    <3>4. QED BY <3>2, <3>3
  <2>3. QED BY <1>2, <2>1, <2>2 DEF HeldOK
<1>24. RemovedOK(G, g.removed)
  <2>1. RemovedOK(E, h.removed) /\ DOMAIN G = DOMAIN E /\ g.removed = h.removed
    BY <1>3, <1>16, <1>17
  <2>2. /\ Gone(h.removed) \subseteq DOMAIN E
        /\ \A k1, k2 \in 1 .. Len(h.removed) : h.removed[k1] = h.removed[k2] => k1 = k2
    BY <2>1, Zenon DEF RemovedOK
  <2>3. Gone(h.removed) \subseteq DOMAIN G
    BY <2>1, <2>2
  <2>4. RemovedOK(G, h.removed)
    BY <2>2, <2>3, Zenon DEF RemovedOK
  <2>5. QED BY <2>1, <2>4
<1>25. HeapOK(g, B \ {ei})
  BY <1>2, <1>6, <1>17, <1>18, <1>19, <1>20, <1>22, <1>23, <1>24 DEF HeapOK
<1>26. Same(h, g, L)
  BY <1>1, <1>2, <1>16, <1>17, <1>19 DEF Same
<1>27. QED BY <1>1, <1>18, <1>25, <1>26
-----------------------------------------------------------------------------
(* Free lists do not depend on offsets and links.                          *)
LEMMA ListsFrame ==
  ASSUME NEW E, NEW G, NEW F, NEW L, ListsOK(E, F, L), \A i \in L : G[i].free = E[i].free
  PROVE  ListsOK(G, F, L)
<1>1. \A i \in L : G[i].free # NoElt => \E k \in DOMAIN F : At(F, k, G[i].free, i)
  BY DEF ListsOK
<1>2. ASSUME NEW k \in DOMAIN F, NEW f \in 0 .. Len(F[k]) - 1
      PROVE  F[k][f + 1] \in L /\ G[F[k][f + 1]].free = f
  <2>1. F[k][f + 1] \in L /\ E[F[k][f + 1]].free = f
    BY Zenon DEF ListsOK
  <2>2. QED BY <2>1
<1>3. \A k, l \in DOMAIN F :
        \A f \in 0 .. Len(F[k]) - 1, g \in 0 .. Len(F[l]) - 1 :
          F[k][f + 1] = F[l][g + 1] => k = l
  BY Zenon DEF ListsOK
<1>4. QED BY <1>1, <1>2, <1>3, Zenon DEF ListsOK

(* Element e is entry fi of list k, which has l entries, the last one z.   *)
IsEntry(F, k, l, fi, e, z) ==
  /\ k \in DOMAIN F /\ l \in Nat /\ l = Len(F[k]) /\ fi \in 0 .. l - 1
  /\ e = F[k][fi + 1] /\ z = F[k][l]

(* Only elements and free lists differ.                                    *)
SameRest(h, g) ==
  /\ g.removed = h.removed /\ g.head = h.head /\ g.tail = h.tail /\ g.len = h.len
  /\ g.maxSize = h.maxSize /\ g.panicked = h.panicked

(* From h to g, e is dropped from place fi of list k, which had l entries. *)
DropsAt(h, g, L, e, k, l, fi) ==
  /\ g \in HeapRec /\ DOMAIN g.elts = DOMAIN h.elts /\ SameRest(h, g)
  /\ SameLinks(h.elts, g.elts, DOMAIN h.elts)
  /\ IsDropped(h.elts, g.elts, h.free, g.free, L, e, k, l, fi)

(* Dropping entry fi of list k, whose last entry takes its place.          *)
LEMMA DropAtFacts ==
  ASSUME NEW h \in HeapRec, NEW L \in SUBSET DOMAIN h.elts,
         NEW k, NEW l, NEW fi, NEW e, NEW z \in DOMAIN h.elts,
         IsEntry(h.free, k, l, fi, e, z)
  PROVE  DropsAt(h, DropAt(h, k, fi), L, e, k, l, fi)
<1> DEFINE g == DropAt(h, k, fi)
<1> HIDE DEF g
<1>0. PICK E, F : E = h.elts /\ F = h.free
  OBVIOUS
<1>0a. /\ k \in DOMAIN F /\ l \in Nat /\ l = Len(F[k]) /\ fi \in 0 .. l - 1
       /\ e = F[k][fi + 1] /\ F[k][l] \in DOMAIN E
  BY <1>0 DEF IsEntry
<1> USE <1>0, <1>0a
<1>1. E \in AllElts /\ F \in AllLists
  BY HeapTypes
<1>2. PICK c \in Nat : F \in [0 .. c - 1 -> Seq(Int)] /\ DOMAIN F = 0 .. c - 1
  BY <1>1 DEF AllLists
<1>3. F[k] \in Seq(Int) /\ l # 0 /\ fi \in Int
  BY <1>2
<1>4. PICK gi : gi = F[k][l]
  OBVIOUS
<1>5. gi \in DOMAIN E /\ gi \in Int
  BY <1>1, <1>4, EltsFacts
<1>6. PICK q : q = IF fi < l - 1 THEN [F[k] EXCEPT ![fi + 1] = gi] ELSE F[k]
  OBVIOUS
<1>7. q \in Seq(Int) /\ Len(q) = l
      /\ \A j \in 1 .. l - 1 : q[j] = IF j = fi + 1 THEN gi ELSE F[k][j]
  <2>1. CASE fi < l - 1
    <3>1. q = [F[k] EXCEPT ![fi + 1] = gi] /\ fi + 1 \in 1 .. Len(F[k])
      BY <1>6, <2>1
    <3>2. QED BY <1>3, <1>5, <3>1
  <2>2. CASE ~(fi < l - 1)
    <3>1. q = F[k] /\ fi = l - 1
      BY <1>6, <2>2
    <3>2. QED BY <1>3, <3>1
  <2>3. QED BY <2>1, <2>2
<1>8. PICK p : p = SubSeq(q, 1, l - 1)
  OBVIOUS
<1>9. p \in Seq(Int) /\ Len(p) = l - 1 /\ \A j \in 1 .. l - 1 : p[j] = q[j]
  BY <1>3, <1>7, <1>8, CutLast, SMTT(40)
<1>10. PICK F2, G : /\ F2 = [F EXCEPT ![k] = p]
                    /\ G = IF fi < l - 1 THEN [E EXCEPT ![gi].free = fi] ELSE E
  OBVIOUS
<1>11. g = [h EXCEPT !.elts = G, !.free = F2]
  <2>1. CASE fi < l - 1
    <3>1. PICK v : v = [h EXCEPT !.free[k][fi + 1] = gi, !.elts[gi].free = fi]
      OBVIOUS
    <3>2. g = [v EXCEPT !.free[k] = SubSeq(@, 1, l - 1)]
      BY <1>4, <2>1, <3>1 DEF DropAt, g
    <3>3. v = [h EXCEPT !.free = [F EXCEPT ![k] = q], !.elts = G]
      BY <1>6, <1>10, <2>1, <3>1
    <3>4. v.free = [F EXCEPT ![k] = q]
      BY <3>3 DEF HeapRec
    <3>5. v.free[k] = q /\ [v.free EXCEPT ![k] = p] = F2
      BY <1>2, <1>10, <3>4
    <3>6. g = [v EXCEPT !.free = F2]
      BY <1>8, <3>2, <3>5
    <3>7. QED BY <3>3, <3>6 DEF HeapRec
  <2>2. CASE ~(fi < l - 1)
    <3>1. g = [h EXCEPT !.free[k] = SubSeq(@, 1, l - 1)]
      BY <2>2 DEF DropAt, g
    <3>2. q = F[k] /\ G = E
      BY <1>6, <1>10, <2>2
    <3>3. QED BY <1>8, <1>10, <3>1, <3>2 DEF HeapRec
  <2>3. QED BY <2>1, <2>2
<1>12. F2 \in AllLists
  <2>1. F2 \in [0 .. c - 1 -> Seq(Int)]
    BY <1>2, <1>9, <1>10
  <2>2. QED BY <2>1 DEF AllLists
<1>13. /\ G \in AllElts /\ DOMAIN G = DOMAIN E /\ SameLinks(E, G, DOMAIN E)
       /\ \A i \in DOMAIN E : G[i].free = IF fi < l - 1 /\ i = gi THEN fi ELSE E[i].free
  <2>1. CASE fi < l - 1
    <3>1. IsSetFree(G, E, gi, fi)
      BY <1>1, <1>3, <1>5, <1>10, <2>1, SetFreeFacts
    <3>2. QED BY <2>1, <3>1 DEF IsSetFree, SameLinks
  <2>2. CASE ~(fi < l - 1)
    BY <1>1, <1>10, <2>2 DEF SameLinks
  <2>3. QED BY <2>1, <2>2
<1>14. /\ g \in HeapRec /\ g.elts = G /\ g.free = F2
       /\ g.removed = h.removed /\ g.head = h.head /\ g.tail = h.tail /\ g.len = h.len
       /\ g.maxSize = h.maxSize /\ g.panicked = h.panicked
  BY <1>11, <1>12, <1>13 DEF HeapRec
<1>15. /\ DOMAIN F2 = DOMAIN F /\ F2[k] = p /\ \A j \in DOMAIN F \ {k} : F2[j] = F[j]
  BY <1>2, <1>10
<1>16. IsDropped(E, G, F, F2, L, e, k, l, fi)
  <2>1. \A j \in 1 .. l - 1 : F2[k][j] = IF j = fi + 1 THEN F[k][l] ELSE F[k][j]
    BY <1>4, <1>7, <1>9, <1>15
  <2>2. \A i \in L \ {e} : G[i].free = IF fi < l - 1 /\ i = F[k][l] THEN fi ELSE E[i].free
    BY <1>4, <1>13
  <2>3. QED BY <1>9, <1>15, <2>1, <2>2 DEF IsDropped
<1>17. DropsAt(h, g, L, e, k, l, fi)
  BY <1>13, <1>14, <1>16 DEF SameRest, DropsAt
<1>18. QED BY <1>17 DEF g

(* removeFreeElt panics, or drops the element from its list and frees its  *)
(* number.                                                                 *)
LEMMA RemoveFreeFacts ==
  ASSUME NEW h \in HeapRec, ~h.panicked, RemovedOK(h.elts, h.removed),
         ListsOK(h.elts, h.free, Live(h)), NEW ei \in Live(h), h.elts[ei].free # NoElt,
         NEW size \in Nat, NEW g, g = RemoveFreeElt(h, ei, size)
  PROVE  \/ g.panicked
         \/ /\ IsRemoved(h, g, ei) /\ SameHeadTail(h, g)
            /\ SameLinks(h.elts, g.elts, Live(h) \ {ei})
<1>0. PICK E, F, L : E = h.elts /\ F = h.free /\ L = Live(h)
  OBVIOUS
<1> USE <1>0
<1>1. /\ E \in AllElts /\ F \in AllLists /\ h.removed \in Seq(Int)
      /\ E \in [DOMAIN E -> Elt] /\ DOMAIN E \in SUBSET Nat /\ L \subseteq DOMAIN E
  BY HeapTypes, EltsFacts DEF Live
<1>2. PICK c \in Nat : c = FreeLists(h) /\ DOMAIN F = 0 .. c - 1
           /\ \A j \in DOMAIN F : Len(F[j]) \in Nat
  BY <1>1, ListsFacts DEF FreeLists
<1>3. PICK fi : fi = E[ei].free
  OBVIOUS
<1>4. PICK j \in DOMAIN F : At(F, j, fi, ei)
  BY <1>3, Zenon DEF ListsOK
<1>5. fi \in Nat /\ c > 0
  BY <1>2, <1>4 DEF At
<1>6. PICK k : k = IF size >= c THEN 0 ELSE size
  OBVIOUS
<1>7. k \in DOMAIN F
  BY <1>2, <1>5, <1>6
<1>8. PICK l \in Nat : l = Len(F[k])
  BY <1>2, <1>7
<1>9. PICK d : d = DropAt(h, k, fi)
  OBVIOUS
<1>10. g = IF fi < l /\ F[k][fi + 1] = ei
           THEN [d EXCEPT !.elts[ei] = Poison, !.removed = Append(@, ei)]
           ELSE [h EXCEPT !.panicked = TRUE]
  BY <1>2, <1>3, <1>6, <1>8, <1>9 DEF RemoveFreeElt
<1>11. CASE ~(fi < l /\ F[k][fi + 1] = ei)
  <2>1. g = [h EXCEPT !.panicked = TRUE]
    BY <1>10, <1>11
  <2>2. g.panicked
    BY <2>1 DEF HeapRec
  <2>3. QED BY <2>2
<1>12. CASE fi < l /\ F[k][fi + 1] = ei
  <2>1. fi \in 0 .. l - 1 /\ ei = F[k][fi + 1] /\ l - 1 \in 0 .. Len(F[k]) - 1
        /\ (l - 1) + 1 = l
    BY <1>5, <1>8, <1>12
  <2>2. F[k][l] \in DOMAIN E
    <3>1. F[k][(l - 1) + 1] \in L
      BY <1>7, <2>1, Zenon DEF ListsOK
    <3>2. QED BY <1>1, <2>1, <3>1
  <2>3. /\ d \in HeapRec /\ DOMAIN d.elts = DOMAIN E /\ SameLinks(E, d.elts, DOMAIN E)
        /\ d.removed = h.removed /\ d.head = h.head /\ d.tail = h.tail /\ d.len = h.len
        /\ d.maxSize = h.maxSize /\ d.panicked = h.panicked
        /\ IsDropped(E, d.elts, F, d.free, L, ei, k, l, fi)
    <3>1. IsEntry(h.free, k, l, fi, ei, F[k][l])
      BY <1>7, <1>8, <2>1 DEF IsEntry
    <3>2. L \in SUBSET DOMAIN h.elts /\ F[k][l] \in DOMAIN h.elts
      BY <1>1, <2>2
    <3>3. /\ d \in HeapRec /\ DOMAIN d.elts = DOMAIN h.elts /\ SameRest(h, d)
          /\ SameLinks(h.elts, d.elts, DOMAIN h.elts)
          /\ IsDropped(h.elts, d.elts, h.free, d.free, L, ei, k, l, fi)
      <4>1. DropsAt(h, DropAt(h, k, fi), L, ei, k, l, fi)
        BY <3>1, <3>2, DropAtFacts
      <4>2. QED BY <1>9, <4>1 DEF DropsAt
    <3>4. QED BY <3>3 DEF SameRest
  <2>4. PICK D, F2, R : D = d.elts /\ F2 = d.free /\ R = h.removed
    OBVIOUS
  <2>5. PICK G : G = [D EXCEPT ![ei] = Poison]
    OBVIOUS
  <2>6. /\ G \in AllElts /\ DOMAIN G = DOMAIN E /\ \A i \in DOMAIN E \ {ei} : G[i] = D[i]
    <3>1. D \in AllElts /\ D \in [DOMAIN E -> Elt] /\ ei \in DOMAIN E /\ Poison \in Elt
      <4>1. D \in AllElts
        BY <2>3, <2>4, HeapTypes
      <4>2. D \in [DOMAIN D -> Elt] /\ DOMAIN D = DOMAIN E
        BY <2>3, <2>4, <4>1, EltsFacts
      <4>3. QED BY <1>1, <4>1, <4>2 DEF Poison, Elt, NoElt
    <3>2. G \in [DOMAIN E -> Elt] /\ \A i \in DOMAIN E \ {ei} : G[i] = D[i]
      BY <2>5, <3>1
    <3>3. QED BY <2>3, <2>4, <3>1, <3>2, EltsType
  <2>7. ei \in Int /\ Append(R, ei) \in Seq(Int)
    BY <1>1, <2>4
  <2>8. /\ g \in HeapRec /\ g.elts = G /\ g.free = F2 /\ g.removed = Append(R, ei)
        /\ g.head = h.head /\ g.tail = h.tail /\ g.len = h.len /\ ~g.panicked
    <3>1. g = [d EXCEPT !.elts = G, !.removed = Append(R, ei)]
      BY <1>10, <1>12, <2>3, <2>4, <2>5
    <3>2. QED BY <2>3, <2>4, <2>6, <2>7, <3>1 DEF HeapRec
  <2>9. Gone(g.removed) = Gone(R) \cup {ei} /\ ei \notin Gone(R)
    <3>1. /\ Len(R) \in Nat /\ Len(g.removed) = Len(R) + 1 /\ g.removed[Len(R) + 1] = ei
          /\ \A x \in 1 .. Len(R) : g.removed[x] = R[x]
      BY <1>1, <2>4, <2>7, <2>8, AppendFacts
    <3>2. ASSUME NEW x \in 1 .. Len(g.removed) PROVE g.removed[x] \in Gone(R) \cup {ei}
      <4>1. CASE x \in 1 .. Len(R)
        BY <3>1, <4>1 DEF Gone
      <4>2. CASE x = Len(R) + 1
        BY <3>1, <4>2
      <4>3. QED BY <3>1, <4>1, <4>2
    <3>3. ASSUME NEW x \in 1 .. Len(R) PROVE R[x] \in Gone(g.removed)
      <4>1. x \in 1 .. Len(g.removed) /\ g.removed[x] = R[x]
        BY <3>1
      <4>2. QED BY <4>1 DEF Gone
    <3>4. ei \in Gone(g.removed)
      <4>1. Len(R) + 1 \in 1 .. Len(g.removed)
        BY <3>1
      <4>2. QED BY <3>1, <4>1 DEF Gone
    <3>5. ei \notin Gone(R)
      BY <2>4 DEF Live
    <3>6. QED BY <3>2, <3>3, <3>4, <3>5, ZenonT(40) DEF Gone
  <2>10. Live(g) = L \ {ei}
    <3>1. Live(g) = DOMAIN E \ (Gone(R) \cup {ei})
      BY <2>6, <2>8, <2>9 DEF Live
    <3>2. L = DOMAIN E \ Gone(R)
      BY <2>4 DEF Live
    <3>3. QED BY <3>1, <3>2
  <2>11. RemovedOK(G, g.removed)
    <3>1. Gone(g.removed) \subseteq DOMAIN G
      BY <1>1, <2>4, <2>6, <2>9 DEF RemovedOK
    <3>2. /\ Len(R) \in Nat /\ Len(g.removed) = Len(R) + 1 /\ g.removed[Len(R) + 1] = ei
          /\ \A x \in 1 .. Len(R) : g.removed[x] = R[x] /\ R[x] # ei
      <4>1. \A x \in 1 .. Len(R) : R[x] # ei
        BY <2>9 DEF Gone
      <4>2. QED BY <1>1, <2>4, <2>7, <2>8, <4>1, AppendFacts
    <3>3. \A x, y \in 1 .. Len(R) : R[x] = R[y] => x = y
      BY <2>4 DEF RemovedOK
    <3>4. ASSUME NEW x \in 1 .. Len(g.removed), NEW y \in 1 .. Len(g.removed),
                 g.removed[x] = g.removed[y]
          PROVE  x = y
      <4>1. CASE x \in 1 .. Len(R) /\ y \in 1 .. Len(R)
        BY <3>2, <3>3, <3>4, <4>1
      <4>2. CASE x = Len(R) + 1
        BY <3>2, <3>4, <4>2
      <4>3. CASE y = Len(R) + 1
        BY <3>2, <3>4, <4>3
      <4>4. QED BY <3>2, <4>1, <4>2, <4>3
    <3>5. QED BY <3>1, <3>4 DEF RemovedOK
  <2>12. IsDropped(E, G, F, F2, L, ei, k, l, fi)
    <3>1. \A i \in L \ {ei} : G[i].free = D[i].free
      BY <1>1, <2>6
    <3>2. IsDropped(E, D, F, F2, L, ei, k, l, fi)
      BY <2>3, <2>4
    <3>3. QED BY <3>1, <3>2 DEF IsDropped
  <2>13. L \in SUBSET Nat
    BY <1>1
  <2>14. ListsOK(G, F2, L \ {ei}) /\ Fewer(F, F2) /\ SameFree(E, G, L \ {ei})
    BY <1>7, <2>1, <2>12, <2>13, ListDrop
  <2>15. SameLinks(E, G, L \ {ei})
    BY <1>1, <2>3, <2>4, <2>6 DEF SameLinks
  <2>16. QED BY <2>6, <2>8, <2>10, <2>11, <2>14, <2>15 DEF IsRemoved, SameHeadTail
<1>13. QED BY <1>11, <1>12
-----------------------------------------------------------------------------
(* Put joins a free predecessor; the one before it is held, or none is.    *)
LEMMA JoinPrevOK ==
  ASSUME NEW h, NEW B, HeapOK(h, B), NEW ei \in B, NEW g, g = JoinPrev(h, ei)
  PROVE  \/ g.panicked
         \/ /\ HeapOK(g, B) /\ Same(h, g, B \ {ei})
            /\ g.elts[ei].prev \in B \cup {NoElt}
<1>1. PICK E, L, F : E = h.elts /\ L = Live(h) /\ F = h.free
  OBVIOUS
<1>2. /\ h \in HeapRec /\ E \in AllElts /\ E \in [DOMAIN E -> Elt] /\ L \in SUBSET Nat
      /\ L \subseteq DOMAIN E /\ B \subseteq L /\ LinksOK(E, L, h.len, h.head, h.tail)
      /\ NoElt \notin L
      /\ \A i \in L : /\ E[i].offset \in Nat /\ End(E, h.len, i) \in Nat
                      /\ E[i].offset < End(E, h.len, i)
                      /\ E[i].prev \in L \cup {NoElt}
                      /\ E[i].prev # NoElt => E[E[i].prev].next = i
                      /\ E[i].free = NoElt <=> i \in B
      /\ \A i \in L \ B : E[i].next # NoElt => E[i].next \in B
  BY <1>1, HeapParts
<1>3. RemovedOK(E, h.removed) /\ ~h.panicked /\ ListsOK(E, F, L)
  BY <1>1 DEF HeapOK
<1>4. PICK p : p = E[ei].prev
  OBVIOUS
<1>5. ei \in L
  BY <1>2
<1>6. CASE p = NoElt \/ p \in B
  <2>1. g = h
    BY <1>1, <1>2, <1>4, <1>6 DEF JoinPrev, IsFreeElt
  <2>2. QED BY <1>1, <1>4, <1>6, <2>1 DEF Same
<1>7. CASE p # NoElt /\ p \notin B
  <2>1. p \in L /\ E[p].next = ei /\ p # ei /\ E[p].free # NoElt /\ p \in Int
    BY <1>2, <1>4, <1>5, <1>7
  <2>2. PICK x : x = E[p].prev
    OBVIOUS
  <2>3. x \in L \cup {NoElt} /\ x \in B \cup {NoElt}
    <3>1. x # NoElt => x \in L /\ E[x].next = p
      BY <1>2, <2>1, <2>2
    <3>2. QED BY <1>2, <1>7, <3>1
  <2>4. PICK S : S = SetNext(E, x, ei)
    OBVIOUS
  <2>5. IsSetNext(S, E, x, ei)
    <3>1. x \in DOMAIN E \cup {NoElt} /\ ei \in Int
      BY <1>2, <1>5, <2>3
    <3>2. QED BY <1>2, <2>4, <3>1, SetNextFacts
  <2>6. PICK J : J = [S EXCEPT ![ei].offset = E[p].offset, ![ei].prev = x]
    OBVIOUS
  <2>7. /\ J \in AllElts /\ DOMAIN J = DOMAIN E
        /\ \A i \in DOMAIN E : /\ J[i].free = E[i].free
                               /\ J[i].next = (IF i = x THEN ei ELSE E[i].next)
                               /\ J[i].offset = (IF i = ei THEN E[p].offset ELSE E[i].offset)
                               /\ J[i].prev = (IF i = ei THEN x ELSE E[i].prev)
    <3>1. S \in AllElts /\ DOMAIN S = DOMAIN E
      BY <2>5 DEF IsSetNext
    <3>2. S \in [DOMAIN E -> Elt] /\ ei \in DOMAIN E /\ E[p].offset \in Int /\ x \in Int
      BY <1>2, <1>5, <2>1, <2>3, <3>1, EltsFacts DEF NoElt
    <3>3. PICK c : c = [S[ei] EXCEPT !.offset = E[p].offset, !.prev = x]
      OBVIOUS
    <3>4. /\ S[ei] \in Elt /\ c \in Elt /\ c.offset = E[p].offset /\ c.prev = x
          /\ c.free = S[ei].free /\ c.next = S[ei].next
      BY <3>2, <3>3 DEF Elt
    <3>5. J = [S EXCEPT ![ei] = c]
      BY <2>6, <3>2, <3>3
    <3>6. J \in [DOMAIN E -> Elt] /\ J[ei] = c /\ \A i \in DOMAIN E \ {ei} : J[i] = S[i]
      BY <3>2, <3>4, <3>5
    <3>7. J \in AllElts
      BY <1>2, <3>6, EltsType
    <3>8. ASSUME NEW i \in DOMAIN E
          PROVE  /\ J[i].free = E[i].free
                 /\ J[i].next = (IF i = x THEN ei ELSE E[i].next)
                 /\ J[i].offset = (IF i = ei THEN E[p].offset ELSE E[i].offset)
                 /\ J[i].prev = (IF i = ei THEN x ELSE E[i].prev)
      BY <2>5, <3>4, <3>6 DEF IsSetNext
    <3>9. QED BY <3>6, <3>7, <3>8
  <2>8. PICK hd : hd = IF p = h.head THEN ei ELSE h.head
    OBVIOUS
  <2>9. PICK j : j = [h EXCEPT !.elts = J, !.head = hd]
    OBVIOUS
  <2>10. /\ j \in HeapRec /\ j.elts = J /\ j.free = F /\ j.removed = h.removed
         /\ j.head = hd
         /\ j.tail = h.tail /\ j.len = h.len /\ ~j.panicked
    <3>1. hd \in Int
      BY <1>2, <1>5, <2>8, HeapTypes
    <3>2. QED BY <1>1, <1>2, <1>3, <2>7, <2>9, <3>1 DEF HeapRec
  <2>11. PICK size \in Nat : size = E[ei].offset - E[p].offset
    <3>1. End(E, h.len, p) = E[ei].offset
      BY <1>2, <1>5, <2>1 DEF End
    <3>2. QED BY <1>2, <1>5, <2>1, <3>1
  <2>12. g = RemoveFreeElt(j, p, size)
    <3>1. g = RemoveFreeElt([h EXCEPT
                 !.elts = [SetNext(E, x, ei) EXCEPT ![ei].offset = E[p].offset, ![ei].prev = x],
                 !.head = IF p = h.head THEN ei ELSE h.head], p, size)
      BY <1>1, <1>2, <1>4, <1>7, <2>1, <2>2, <2>11 DEF JoinPrev, IsFreeElt
    <3>2. QED BY <2>4, <2>6, <2>8, <2>9, <3>1
  <2>13. RemovedOK(J, j.removed) /\ Live(j) = L /\ ListsOK(J, F, L) /\ J[p].free # NoElt
    <3>1. RemovedOK(J, j.removed) /\ Live(j) = L
      BY <1>1, <1>3, <2>7, <2>10 DEF RemovedOK, Live
    <3>2. \A i \in L : J[i].free = E[i].free
      BY <1>2, <2>7
    <3>3. ListsOK(J, F, L)
      BY <1>3, <3>2, ListsFrame
    <3>4. QED BY <2>1, <3>1, <3>2, <3>3
  <2>14. CASE g.panicked
    BY <2>14
  <2>15. CASE ~g.panicked
    <3>1. PICK G, M : G = g.elts /\ M = L \ {p}
      OBVIOUS
    <3>2. /\ g \in HeapRec /\ ~g.panicked
          /\ g.head = j.head /\ g.tail = j.tail /\ g.len = j.len
          /\ DOMAIN G = DOMAIN J /\ SameLinks(J, G, M)
          /\ Live(g) = M /\ RemovedOK(G, g.removed)
          /\ ListsOK(G, g.free, M) /\ Fewer(F, g.free)
          /\ SameFree(J, G, M)
      <4>1. /\ j \in HeapRec /\ ~j.panicked /\ RemovedOK(j.elts, j.removed)
            /\ ListsOK(j.elts, j.free, Live(j)) /\ p \in Live(j) /\ j.elts[p].free # NoElt
        BY <2>1, <2>10, <2>13
      <4>2. /\ IsRemoved(j, g, p) /\ SameHeadTail(j, g)
            /\ SameLinks(j.elts, g.elts, Live(j) \ {p})
        BY <2>12, <2>15, <4>1, RemoveFreeFacts
      <4>3. QED BY <2>10, <2>13, <3>1, <4>2 DEF IsRemoved, SameHeadTail
    <3>3. IsMergePrev(E, J, L, ei, p)
      BY <1>2, <2>2, <2>7 DEF IsMergePrev
    <3>4. EndsKept(E, h.len, J, h.len, M) /\ LinksOK(J, M, h.len, hd, h.tail)
      <4>1. h.len \in Nat
        BY <1>2, HeapTypes
      <4>2. MergedPrev(E, J, L, h.len, h.head, h.tail, ei, p)
        <5>1. L \in SUBSET Nat /\ LinksOK(E, L, h.len, h.head, h.tail) /\ p # NoElt
          BY <1>2, <1>7
        <5>2. ei \in L /\ p = E[ei].prev
          BY <1>4, <1>5
        <5>3. QED BY <3>3, <4>1, <5>1, <5>2, MergePrev
      <4>3. QED BY <2>8, <3>1, <4>2 DEF MergedPrev
    <3>5. EndsKept(J, h.len, G, h.len, M) /\ LinksOK(G, M, h.len, hd, h.tail)
      BY <3>2, <3>4, LinksFrame
    <3>6. ASSUME NEW i \in M
          PROVE  /\ End(G, h.len, i) = End(E, h.len, i)
                 /\ i # ei => G[i].offset = E[i].offset
                 /\ G[i].next = IF i = x THEN ei ELSE E[i].next
      <4>1. End(G, h.len, i) = End(E, h.len, i)
        BY <3>4, <3>5 DEF EndsKept
      <4>2. G[i].offset = J[i].offset /\ G[i].next = J[i].next /\ i \in DOMAIN E
        BY <1>2, <3>1, <3>2 DEF SameLinks
      <4>3. QED BY <2>7, <4>1, <4>2
    <3>7. SameFree(E, G, M)
      <4>1. \A i \in M : J[i].free = E[i].free
        BY <1>2, <2>7, <3>1
      <4>2. QED BY <3>2, <4>1 DEF SameFree
    <3>8. HeapOK(g, B)
      <4>1. Untouched(h, g, M \ B, B)
        <5>1. ASSUME NEW i \in M \ B
              PROVE  /\ G[i].offset = E[i].offset
                     /\ End(G, h.len, i) = End(E, h.len, i)
                     /\ G[i].next \in {E[i].next, NoElt} \cup B
          BY <1>5, <3>6
        <5>2. QED BY <1>1, <2>10, <3>1, <3>2, <5>1 DEF Untouched
      <4>2. IsRemoved(h, g, p)
        BY <1>1, <2>7, <2>10, <3>1, <3>2, <3>7 DEF IsRemoved
      <4>3. LinksOK(G, M, g.len, g.head, g.tail)
        BY <2>10, <3>2, <3>5
      <4>4. QED BY <1>7, <3>1, <3>2, <4>1, <4>2, <4>3, DropFree
    <3>9. Same(h, g, B \ {ei})
      <4>1. g.len = h.len /\ B \ {ei} \subseteq M
        BY <1>2, <1>7, <2>10, <3>1, <3>2
      <4>2. QED BY <1>1, <3>1, <3>6, <4>1 DEF Same
    <3>10. G[ei].prev = x
      <4>1. ei \in M /\ ei \in DOMAIN E
        BY <1>2, <1>5, <2>1, <3>1
      <4>2. QED BY <2>7, <3>2, <4>1 DEF SameLinks
    <3>11. QED BY <2>3, <3>1, <3>8, <3>9, <3>10
  <2>16. QED BY <2>14, <2>15
<1>8. QED BY <1>6, <1>7

(* Put joins a free successor; the one after it is held, or none is.       *)
LEMMA JoinNextOK ==
  ASSUME NEW h, NEW B, HeapOK(h, B), NEW ei \in B, h.elts[ei].prev \in B \cup {NoElt},
         NEW g, g = JoinNext(h, ei)
  PROVE  \/ g.panicked
         \/ /\ HeapOK(g, B) /\ Same(h, g, B \ {ei})
            /\ g.elts[ei].prev \in B \cup {NoElt}
            /\ g.elts[ei].next \in B \cup {NoElt}
<1>1. PICK E, L, F : E = h.elts /\ L = Live(h) /\ F = h.free
  OBVIOUS
<1>2. /\ h \in HeapRec /\ E \in AllElts /\ E \in [DOMAIN E -> Elt] /\ L \in SUBSET Nat
      /\ L \subseteq DOMAIN E /\ B \subseteq L /\ LinksOK(E, L, h.len, h.head, h.tail)
      /\ NoElt \notin L
      /\ \A i \in L : /\ E[i].offset \in Nat /\ End(E, h.len, i) \in Nat
                      /\ E[i].offset < End(E, h.len, i)
                      /\ E[i].next \in L \cup {NoElt}
                      /\ E[i].next # NoElt => E[E[i].next].prev = i
                      /\ E[i].free = NoElt <=> i \in B
      /\ \A i \in L \ B : E[i].next # NoElt => E[i].next \in B
  BY <1>1, HeapParts
<1>3. RemovedOK(E, h.removed) /\ ~h.panicked /\ ListsOK(E, F, L)
  BY <1>1 DEF HeapOK
<1>4. PICK m : m = E[ei].next
  OBVIOUS
<1>5. ei \in L
  BY <1>2
<1>6. CASE m = NoElt \/ m \in B
  <2>1. g = h
    BY <1>1, <1>2, <1>3, <1>4, <1>6 DEF JoinNext, IsFreeElt
  <2>2. QED BY <1>1, <1>4, <1>6, <2>1 DEF Same
<1>7. CASE m # NoElt /\ m \notin B
  <2>1. m \in L /\ E[m].prev = ei /\ m # ei /\ E[m].free # NoElt /\ m \in Int
    BY <1>2, <1>4, <1>5, <1>7
  <2>2. PICK x : x = E[m].next
    OBVIOUS
  <2>3. x \in L \cup {NoElt} /\ x \in B \cup {NoElt}
    BY <1>2, <1>7, <2>1, <2>2
  <2>4. PICK S : S = SetPrev(E, x, ei)
    OBVIOUS
  <2>5. IsSetPrev(S, E, x, ei)
    <3>1. x \in DOMAIN E \cup {NoElt} /\ ei \in Int
      BY <1>2, <1>5, <2>3
    <3>2. QED BY <1>2, <2>4, <3>1, SetPrevFacts
  <2>6. PICK J : J = [S EXCEPT ![ei].next = x]
    OBVIOUS
  <2>7. /\ J \in AllElts /\ DOMAIN J = DOMAIN E
        /\ \A i \in DOMAIN E : /\ J[i].free = E[i].free
                               /\ J[i].next = (IF i = ei THEN x ELSE E[i].next)
                               /\ J[i].offset = E[i].offset
                               /\ J[i].prev = (IF i = x THEN ei ELSE E[i].prev)
    <3>1. S \in AllElts /\ DOMAIN S = DOMAIN E
      BY <2>5 DEF IsSetPrev
    <3>2. S \in [DOMAIN E -> Elt] /\ ei \in DOMAIN E /\ x \in Int
      BY <1>2, <1>5, <2>1, <2>3, <3>1, EltsFacts DEF NoElt
    <3>3. PICK c : c = [S[ei] EXCEPT !.next = x]
      OBVIOUS
    <3>4. /\ S[ei] \in Elt /\ c \in Elt /\ c.offset = S[ei].offset /\ c.prev = S[ei].prev
          /\ c.free = S[ei].free /\ c.next = x
      BY <3>2, <3>3 DEF Elt
    <3>5. J = [S EXCEPT ![ei] = c]
      BY <2>6, <3>2, <3>3
    <3>6. J \in [DOMAIN E -> Elt] /\ J[ei] = c /\ \A i \in DOMAIN E \ {ei} : J[i] = S[i]
      BY <3>2, <3>4, <3>5
    <3>7. J \in AllElts
      BY <1>2, <3>6, EltsType
    <3>8. ASSUME NEW i \in DOMAIN E
          PROVE  /\ J[i].free = E[i].free
                 /\ J[i].next = (IF i = ei THEN x ELSE E[i].next)
                 /\ J[i].offset = E[i].offset
                 /\ J[i].prev = (IF i = x THEN ei ELSE E[i].prev)
      BY <2>5, <3>4, <3>6 DEF IsSetPrev
    <3>9. QED BY <3>6, <3>7, <3>8
  <2>8. PICK tl : tl = IF m = h.tail THEN ei ELSE h.tail
    OBVIOUS
  <2>9. PICK j : j = [h EXCEPT !.elts = J, !.tail = tl]
    OBVIOUS
  <2>10. /\ j \in HeapRec /\ j.elts = J /\ j.free = F /\ j.removed = h.removed
         /\ j.tail = tl
         /\ j.head = h.head /\ j.len = h.len /\ ~j.panicked
    <3>1. tl \in Int
      BY <1>2, <1>5, <2>8, HeapTypes
    <3>2. QED BY <1>1, <1>2, <1>3, <2>7, <2>9, <3>1 DEF HeapRec
  <2>11. PICK size \in Nat : size = EltSize(h, m)
    <3>1. EltSize(h, m) = End(E, h.len, m) - E[m].offset
      BY <1>1 DEF EltSize, End
    <3>2. QED BY <1>2, <2>1, <3>1
  <2>12. g = RemoveFreeElt(j, m, size)
    <3>1. g = RemoveFreeElt([h EXCEPT
                 !.elts = [SetPrev(E, x, ei) EXCEPT ![ei].next = x],
                 !.tail = IF m = h.tail THEN ei ELSE h.tail], m, size)
      BY <1>1, <1>2, <1>3, <1>4, <1>7, <2>1, <2>2, <2>11 DEF JoinNext, IsFreeElt
    <3>2. QED BY <2>4, <2>6, <2>8, <2>9, <3>1
  <2>13. RemovedOK(J, j.removed) /\ Live(j) = L /\ ListsOK(J, F, L) /\ J[m].free # NoElt
    <3>1. RemovedOK(J, j.removed) /\ Live(j) = L
      BY <1>1, <1>3, <2>7, <2>10 DEF RemovedOK, Live
    <3>2. \A i \in L : J[i].free = E[i].free
      BY <1>2, <2>7
    <3>3. ListsOK(J, F, L)
      BY <1>3, <3>2, ListsFrame
    <3>4. QED BY <2>1, <3>1, <3>2, <3>3
  <2>14. CASE g.panicked
    BY <2>14
  <2>15. CASE ~g.panicked
    <3>1. PICK G, M : G = g.elts /\ M = L \ {m}
      OBVIOUS
    <3>2. /\ g \in HeapRec /\ ~g.panicked
          /\ g.head = j.head /\ g.tail = j.tail /\ g.len = j.len
          /\ DOMAIN G = DOMAIN J /\ SameLinks(J, G, M)
          /\ Live(g) = M /\ RemovedOK(G, g.removed)
          /\ ListsOK(G, g.free, M) /\ Fewer(F, g.free)
          /\ SameFree(J, G, M)
      <4>1. /\ j \in HeapRec /\ ~j.panicked /\ RemovedOK(j.elts, j.removed)
            /\ ListsOK(j.elts, j.free, Live(j)) /\ m \in Live(j) /\ j.elts[m].free # NoElt
        BY <2>1, <2>10, <2>13
      <4>2. /\ IsRemoved(j, g, m) /\ SameHeadTail(j, g)
            /\ SameLinks(j.elts, g.elts, Live(j) \ {m})
        BY <2>12, <2>15, <4>1, RemoveFreeFacts
      <4>3. QED BY <2>10, <2>13, <3>1, <4>2 DEF IsRemoved, SameHeadTail
    <3>3. IsMergeNext(E, J, L, ei, m)
      BY <1>2, <2>2, <2>7 DEF IsMergeNext
    <3>4. EndsKept(E, h.len, J, h.len, M \ {ei}) /\ LinksOK(J, M, h.len, h.head, tl)
      <4>1. h.len \in Nat
        BY <1>2, HeapTypes
      <4>2. EndsKept(E, h.len, J, h.len, (L \ {m}) \ {ei})
            /\ LinksOK(J, L \ {m}, h.len, h.head, tl)
        <5>1. L \in SUBSET Nat /\ LinksOK(E, L, h.len, h.head, h.tail) /\ m # NoElt
          BY <1>2, <1>7
        <5>2. EndsKept(E, h.len, J, h.len, (L \ {m}) \ {ei})
          BY <1>4, <1>5, <3>3, <4>1, <5>1, MergeNext
        <5>3. LinksOK(J, L \ {m}, h.len, h.head, tl)
          BY <1>4, <1>5, <2>8, <3>3, <4>1, <5>1, MergeNext
        <5>4. QED BY <5>2, <5>3
      <4>3. QED BY <3>1, <4>2
    <3>5. EndsKept(J, h.len, G, h.len, M) /\ LinksOK(G, M, h.len, h.head, tl)
      BY <3>2, <3>4, LinksFrame
    <3>6. ASSUME NEW i \in M \ {ei}
          PROVE  /\ End(G, h.len, i) = End(E, h.len, i)
                 /\ G[i].offset = E[i].offset
                 /\ G[i].next = E[i].next
      <4>1. End(G, h.len, i) = End(E, h.len, i)
        BY <3>4, <3>5 DEF EndsKept
      <4>2. G[i].offset = J[i].offset /\ G[i].next = J[i].next /\ i \in DOMAIN E
        BY <1>2, <3>1, <3>2 DEF SameLinks
      <4>3. QED BY <2>7, <4>1, <4>2
    <3>7. SameFree(E, G, M)
      <4>1. \A i \in M : J[i].free = E[i].free
        BY <1>2, <2>7, <3>1
      <4>2. QED BY <3>2, <4>1 DEF SameFree
    <3>8. HeapOK(g, B)
      <4>1. Untouched(h, g, M \ B, B)
        <5>1. ASSUME NEW i \in M \ B
              PROVE  /\ G[i].offset = E[i].offset
                     /\ End(G, h.len, i) = End(E, h.len, i)
                     /\ G[i].next \in {E[i].next, NoElt} \cup B
          BY <3>6
        <5>2. QED BY <1>1, <2>10, <3>1, <3>2, <5>1 DEF Untouched
      <4>2. IsRemoved(h, g, m)
        BY <1>1, <2>7, <2>10, <3>1, <3>2, <3>7 DEF IsRemoved
      <4>3. LinksOK(G, M, g.len, g.head, g.tail)
        BY <2>10, <3>2, <3>5
      <4>4. QED BY <1>7, <3>1, <3>2, <4>1, <4>2, <4>3, DropFree
    <3>9. Same(h, g, B \ {ei})
      <4>1. g.len = h.len /\ B \ {ei} \subseteq M \ {ei}
        BY <1>2, <1>7, <2>10, <3>1, <3>2
      <4>2. QED BY <1>1, <3>1, <3>6, <4>1 DEF Same
    <3>10. G[ei].next = x /\ G[ei].prev \in B \cup {NoElt}
      <4>1. ei \in M /\ ei \in DOMAIN E
        BY <1>2, <1>5, <2>1, <3>1
      <4>2. QED BY <1>1, <2>7, <3>2, <4>1 DEF SameLinks
    <3>11. QED BY <2>3, <3>1, <3>8, <3>9, <3>10
  <2>16. QED BY <2>14, <2>15
<1>8. QED BY <1>6, <1>7

(* A heap of which only the blocks matter: Same composes.                  *)
LEMMA SameTwice ==
  ASSUME NEW f, NEW g, NEW h, NEW B, Same(f, g, B), Same(g, h, B)
  PROVE  Same(f, h, B)
BY DEF Same

(* Put: the block is free, joined with its free neighbours, or the free    *)
(* list was found corrupt.                                                 *)
LEMMA PutBlockOK ==
  ASSUME NEW h, NEW B, HeapOK(h, B), NEW ei \in B, NEW g, g = PutBlock(h, ei)
  PROVE  g.panicked \/ (HeapOK(g, B \ {ei}) /\ Same(h, g, B \ {ei}))
<1>1. PICK p, j : p = JoinPrev(h, ei) /\ j = JoinNext(p, ei)
  OBVIOUS
<1>2. g = IF j.panicked THEN j ELSE FreeElt(j, ei, EltSize(j, ei))
  BY <1>1 DEF PutBlock
<1>3. CASE p.panicked
  <2>1. j = p
    BY <1>1, <1>3 DEF JoinNext
  <2>2. QED BY <1>2, <1>3, <2>1
<1>4. CASE ~p.panicked /\ j.panicked
  BY <1>2, <1>4
<1>5. CASE ~p.panicked /\ ~j.panicked
  <2>1. HeapOK(p, B) /\ Same(h, p, B \ {ei}) /\ p.elts[ei].prev \in B \cup {NoElt}
    BY <1>1, <1>5, JoinPrevOK
  <2>2. /\ HeapOK(j, B) /\ Same(p, j, B \ {ei}) /\ j.elts[ei].prev \in B \cup {NoElt}
        /\ j.elts[ei].next \in B \cup {NoElt}
    BY <1>1, <1>5, <2>1, JoinNextOK
  <2>3. EltSize(j, ei) = End(j.elts, j.len, ei) - j.elts[ei].offset
    BY DEF EltSize, End
  <2>4. HeapOK(g, B \ {ei}) /\ Same(j, g, Live(j))
    BY <1>2, <1>5, <2>2, <2>3, FreeEltOK
  <2>5. Same(j, g, B \ {ei})
    <3>1. B \subseteq Live(j)
      BY <2>2 DEF HeapOK, HeldOK
    <3>2. QED BY <2>4, <3>1 DEF Same
  <2>6. Same(h, g, B \ {ei})
    BY <2>1, <2>2, <2>5, SameTwice
  <2>7. QED BY <2>4, <2>6
<1>6. QED BY <1>3, <1>4, <1>5
-----------------------------------------------------------------------------
(* What a successful get gives: a block of the size asked for that nobody  *)
(* held, the others as they were.                                          *)
GotOK(h, B, r, size) ==
  /\ r.id \in Nat /\ r.id \notin B /\ HeapOK(r.heap, B \cup {r.id}) /\ Same(h, r.heap, B)
  /\ r.offset = r.heap.elts[r.id].offset
  /\ End(r.heap.elts, r.heap.len, r.id) = r.offset + size

(* A block at the end of the array.                                        *)
LEMMA GetEndOK ==
  ASSUME NEW h, NEW B, HeapOK(h, B), NEW size \in Nat \ {0}, NEW r, r = GetEnd(h, size)
  PROVE  GotOK(h, B, r, size)
<1>1. PICK E, L : E = h.elts /\ L = Live(h)
  OBVIOUS
<1>2. /\ h \in HeapRec /\ E \in AllElts /\ E \in [DOMAIN E -> Elt] /\ L \in SUBSET Nat
      /\ L \subseteq DOMAIN E /\ B \subseteq L /\ LinksOK(E, L, h.len, h.head, h.tail)
      /\ NoElt \notin L
  BY <1>1, HeapParts
<1>3. /\ RemovedOK(E, h.removed) /\ ~h.panicked /\ h.len \in Nat
      /\ h.len = 0 => DOMAIN E = {}
  BY <1>1, <1>2, HeapTypes DEF HeapOK
<1>4. PICK s : s = IF h.len = 0 THEN [h EXCEPT !.head = 0, !.tail = NoElt] ELSE h
  OBVIOUS
<1>5. /\ s \in HeapRec /\ s.elts = E /\ s.removed = h.removed /\ s.free = h.free
      /\ s.len = h.len /\ ~s.panicked
      /\ h.len = 0 => s.head = 0 /\ s.tail = NoElt
      /\ h.len # 0 => s.head = h.head /\ s.tail = h.tail
  <2>1. CASE h.len = 0
    <3>1. s = [h EXCEPT !.head = 0, !.tail = NoElt]
      BY <1>4, <2>1
    <3>2. h \in HeapRec /\ 0 \in Int /\ NoElt \in Int
      BY <1>2 DEF NoElt
    <3>3. /\ s \in HeapRec /\ s.elts = h.elts /\ s.removed = h.removed /\ s.free = h.free
          /\ s.len = h.len /\ s.panicked = h.panicked /\ s.head = 0 /\ s.tail = NoElt
      BY <3>1, <3>2 DEF HeapRec
    <3>4. QED BY <1>1, <1>3, <2>1, <3>3
  <2>2. CASE h.len # 0
    BY <1>1, <1>2, <1>3, <1>4, <2>2
  <2>3. QED BY <2>1, <2>2
<1>6. Live(s) = L
  BY <1>1, <1>5 DEF Live
<1>7. PICK ei, n, N : ei = NewEltIndex(s) /\ n = NewElt(s) /\ N = n.elts
  OBVIOUS
<1>8. /\ ei \in Nat /\ ei \notin L
      /\ n \in HeapRec /\ Live(n) = L \cup {ei} /\ RemovedOK(N, n.removed)
      /\ ei \in DOMAIN N
      /\ \A i \in L : N[i] = E[i]
      /\ DOMAIN E = {} => ei = 0
      /\ n.free = h.free /\ n.head = s.head /\ n.tail = s.tail /\ n.len = h.len
      /\ ~n.panicked
  <2>1. RemovedOK(s.elts, s.removed)
    BY <1>3, <1>5
  <2>2. /\ ei \in Nat /\ ei \notin Live(s)
        /\ n \in HeapRec /\ Live(n) = Live(s) \cup {ei} /\ RemovedOK(n.elts, n.removed)
        /\ ei \in DOMAIN n.elts
        /\ \A i \in Live(s) : n.elts[i] = s.elts[i]
        /\ DOMAIN s.elts = {} => ei = 0
        /\ n.free = s.free /\ n.head = s.head /\ n.tail = s.tail /\ n.len = s.len
        /\ n.panicked = s.panicked
    BY <1>5, <1>7, <2>1, NewEltFacts
  <2>3. QED BY <1>5, <1>6, <1>7, <2>2
<1>9. N \in AllElts /\ L \cup {ei} \subseteq DOMAIN N
  BY <1>7, <1>8, HeapTypes DEF Live
<1>10. PICK t : t = s.tail
  OBVIOUS
<1>11. /\ t \in L \cup {NoElt} /\ (h.len = 0 => t = NoElt)
          /\ (h.len # 0 => t = h.tail /\ t \in L)
       /\ LinksOK(E, L, h.len, s.head, t)
  <2>1. CASE h.len = 0
    <3>1. L = {}
      BY <1>2, <1>3, <2>1
    <3>2. LinksOK(E, L, h.len, s.head, t)
      BY <2>1, <3>1 DEF LinksOK
    <3>3. QED BY <1>5, <1>10, <2>1, <3>2
  <2>2. CASE h.len # 0
    <3>1. t = h.tail /\ s.head = h.head
      BY <1>5, <1>10, <2>2
    <3>2. t \in L
      BY <1>2, <2>2, <3>1 DEF LinksOK
    <3>3. LinksOK(E, L, h.len, s.head, t)
      BY <1>2, <3>1
    <3>4. QED BY <2>2, <3>1, <3>2, <3>3
  <2>3. QED BY <2>1, <2>2
<1>12. PICK S : S = SetNext(N, t, ei)
  OBVIOUS
<1>13. IsSetNext(S, N, t, ei)
  <2>1. t \in DOMAIN N \cup {NoElt} /\ ei \in Int
    BY <1>8, <1>9, <1>11
  <2>2. QED BY <1>9, <1>12, <2>1, SetNextFacts
<1>14. PICK c : c = [offset |-> h.len, free |-> NoElt, next |-> NoElt, prev |-> t]
  OBVIOUS
<1>15. PICK G : G = [S EXCEPT ![ei] = c]
  OBVIOUS
<1>16. /\ G \in AllElts /\ DOMAIN G = DOMAIN N /\ G[ei] = c
       /\ \A j \in DOMAIN N \ {ei} : G[j] = S[j]
  <2>1. S \in AllElts /\ DOMAIN S = DOMAIN N
    BY <1>13 DEF IsSetNext
  <2>2. S \in [DOMAIN N -> Elt]
    BY <2>1, EltsFacts
  <2>3. c \in Elt
    BY <1>2, <1>3, <1>11, <1>14 DEF Elt, NoElt
  <2>4. G \in [DOMAIN N -> Elt] /\ G[ei] = c /\ \A j \in DOMAIN N \ {ei} : G[j] = S[j]
    BY <1>8, <1>15, <2>2, <2>3
  <2>5. QED BY <1>9, <2>4, EltsType
<1>17. PICK g : g = [n EXCEPT !.elts = G, !.len = h.len + size, !.tail = ei]
  OBVIOUS
<1>18. r = Got(g, ei)
  <2>1. r = Got([n EXCEPT !.elts = [SetNext(N, t, ei) EXCEPT ![ei] = c],
                          !.len = n.len + size, !.tail = ei], ei)
    BY <1>4, <1>5, <1>7, <1>10, <1>14 DEF GetEnd
  <2>2. QED BY <1>8, <1>12, <1>15, <1>17, <2>1
<1>19. /\ g \in HeapRec /\ g.elts = G /\ g.free = h.free /\ g.removed = n.removed
       /\ g.head = s.head /\ g.tail = ei /\ g.len = h.len + size /\ ~g.panicked
       /\ g.len # 0
  <2>1. h.len + size \in Nat /\ h.len + size # 0 /\ ei \in Int
    BY <1>3, <1>8
  <2>2. /\ g \in HeapRec /\ g.elts = G /\ g.free = n.free /\ g.removed = n.removed
        /\ g.head = n.head /\ g.tail = ei /\ g.len = h.len + size
        /\ g.panicked = n.panicked
    BY <1>8, <1>16, <1>17, <2>1 DEF HeapRec
  <2>3. QED BY <1>8, <2>1, <2>2
<1>20. /\ \A i \in L : G[i].offset = E[i].offset
       /\ \A i \in L : G[i].prev = E[i].prev
       /\ \A i \in L : G[i].next = IF i = t THEN ei ELSE E[i].next
       /\ \A i \in L : G[i].free = E[i].free
       /\ G[ei].offset = h.len /\ G[ei].next = NoElt /\ G[ei].prev = t
       /\ G[ei].free = NoElt
  BY <1>8, <1>9, <1>13, <1>14, <1>16 DEF IsSetNext
<1>21. IsGrown(E, G, L, h.len, t, ei)
  BY <1>11, <1>20 DEF IsGrown
<1>22. /\ EndsKept(E, h.len, G, h.len + size, L)
       /\ End(G, h.len + size, ei) = h.len + size
       /\ LinksOK(G, L \cup {ei}, h.len + size, s.head, ei)
  <2>1. h.len = 0 => L = {} /\ ei = s.head
    BY <1>2, <1>3, <1>5, <1>8
  <2>2. EndsKept(E, h.len, G, h.len + size, L)
        /\ LinksOK(G, L \cup {ei}, h.len + size, s.head, ei)
    BY <1>2, <1>3, <1>8, <1>11, <1>21, <2>1, GrowEnd
  <2>3. End(G, h.len + size, ei) = h.len + size
    BY <1>20 DEF End
  <2>4. QED BY <2>2, <2>3
<1>23. Live(g) = L \cup {ei} /\ RemovedOK(G, g.removed)
  BY <1>7, <1>8, <1>16, <1>19 DEF Live, RemovedOK
<1>24. HeapOK(g, B \cup {ei})
  <2>1. \A i \in L \ B : /\ G[i].offset = E[i].offset
                         /\ End(G, g.len, i) = End(E, h.len, i)
                         /\ G[i].next \in {E[i].next, ei, NoElt}
    BY <1>19, <1>20, <1>22 DEF EndsKept
  <2>2. LinksOK(G, Live(g), g.len, g.head, g.tail)
    BY <1>19, <1>22, <1>23
  <2>3. /\ g \in HeapRec /\ ~g.panicked /\ g.len # 0 /\ RemovedOK(g.elts, g.removed)
        /\ g.free = h.free /\ ei \notin Live(h) /\ Live(g) = Live(h) \cup {ei}
        /\ g.elts[ei].free = NoElt /\ \A i \in Live(h) : g.elts[i].free = h.elts[i].free
        /\ LinksOK(g.elts, Live(g), g.len, g.head, g.tail)
    BY <1>1, <1>8, <1>19, <1>20, <1>23, <2>2
  <2>4. \A i \in Live(h) \ B : /\ g.elts[i].offset = h.elts[i].offset
                                /\ End(g.elts, g.len, i) = End(h.elts, h.len, i)
                                /\ g.elts[i].next \in {h.elts[i].next, ei, NoElt}
    BY <1>1, <1>19, <2>1
  <2>5. HasAdded(h, g, B, ei)
    BY <2>3, <2>4 DEF HasAdded
  <2>6. QED BY <1>1, <2>5, AddHeld
<1>25. Same(h, g, B)
  BY <1>1, <1>2, <1>19, <1>20, <1>22 DEF Same, EndsKept
<1>26. r.heap = g /\ r.id = ei /\ r.offset = G[ei].offset
  BY <1>18, <1>19 DEF Got
<1>27. QED BY <1>2, <1>8, <1>19, <1>20, <1>22, <1>24, <1>25, <1>26 DEF GotOK

(* Entry fi of list k is taken off its list by its new holder.             *)
TakeAt(h, k, fi, e) == [DropAt(h, k, fi) EXCEPT !.elts[e].free = NoElt]

(* What its new holder has: a heap in which e is held too.                 *)
TakenOK(h, B, t, e) ==
  /\ e \in Live(h) /\ e \notin B /\ HeapOK(t, B \cup {e}) /\ Same(h, t, Live(h))
  /\ SameLinks(h.elts, t.elts, Live(h)) /\ SameRest(h, t)

(* Then the other blocks are as they were.                                 *)
LEMMA TakeAtOK ==
  ASSUME NEW h, NEW B, HeapOK(h, B), NEW k, NEW l, NEW fi, NEW e, NEW z,
         IsEntry(h.free, k, l, fi, e, z)
  PROVE  TakenOK(h, B, TakeAt(h, k, fi, e), e)
<1> DEFINE t == TakeAt(h, k, fi, e)
<1> HIDE DEF t
<1>1. PICK E, L, F : E = h.elts /\ L = Live(h) /\ F = h.free
  OBVIOUS
<1>2. /\ h \in HeapRec /\ E \in AllElts /\ L \in SUBSET Nat /\ L \subseteq DOMAIN E
      /\ \A i \in L : E[i].free = NoElt <=> i \in B
  BY <1>1, HeapParts
<1>3. ListsOK(E, F, L) /\ ~h.panicked
  BY <1>1 DEF HeapOK
<1>4. /\ k \in DOMAIN F /\ l \in Nat /\ l = Len(F[k]) /\ fi \in 0 .. l - 1
      /\ e = F[k][fi + 1] /\ z = F[k][l]
  BY <1>1 DEF IsEntry
<1>5. e \in L /\ E[e].free = fi /\ z \in L
  <2>1. l - 1 \in 0 .. Len(F[k]) - 1 /\ (l - 1) + 1 = l /\ fi \in 0 .. Len(F[k]) - 1
    BY <1>4
  <2>2. F[k][(l - 1) + 1] \in L /\ F[k][fi + 1] \in L /\ E[F[k][fi + 1]].free = fi
    BY <1>3, <1>4, <2>1, Zenon DEF ListsOK
  <2>3. QED BY <1>4, <2>1, <2>2
<1>6. e \notin B
  <2>1. fi # NoElt
    BY <1>4 DEF NoElt
  <2>2. QED BY <1>2, <1>5, <2>1
<1>7. PICK d : d = DropAt(h, k, fi)
  OBVIOUS
<1>8. /\ d \in HeapRec /\ DOMAIN d.elts = DOMAIN h.elts /\ SameRest(h, d)
      /\ SameLinks(h.elts, d.elts, DOMAIN h.elts)
      /\ IsDropped(h.elts, d.elts, h.free, d.free, L, e, k, l, fi)
  <2>1. L \in SUBSET DOMAIN h.elts /\ z \in DOMAIN h.elts
    BY <1>1, <1>2, <1>5
  <2>2. h \in HeapRec
    BY <1>2
  <2>3. DropsAt(h, DropAt(h, k, fi), L, e, k, l, fi)
    BY <2>1, <2>2, DropAtFacts
  <2>4. QED BY <1>7, <2>3 DEF DropsAt
<1>9. PICK D, F2 : D = d.elts /\ F2 = d.free
  OBVIOUS
<1>10. PICK G : G = [D EXCEPT ![e].free = NoElt]
  OBVIOUS
<1>11. IsSetFree(G, D, e, NoElt)
  <2>1. D \in AllElts /\ e \in DOMAIN D /\ NoElt \in Int
    BY <1>1, <1>2, <1>5, <1>8, <1>9, HeapTypes DEF NoElt
  <2>2. QED BY <1>10, <2>1, SetFreeFacts
<1>12. /\ t \in HeapRec /\ t.elts = G /\ t.free = F2 /\ SameRest(h, t)
  <2>1. t = [d EXCEPT !.elts = G]
    BY <1>7, <1>9, <1>10 DEF t, TakeAt
  <2>2. G \in AllElts
    BY <1>11 DEF IsSetFree
  <2>3. QED BY <1>8, <1>9, <2>1, <2>2 DEF HeapRec, SameRest
<1>13. SameLinks(E, G, DOMAIN E) /\ G[e].free = NoElt /\ DOMAIN G = DOMAIN E
       /\ \A i \in DOMAIN E \ {e} : G[i].free = D[i].free
  <2>1. DOMAIN D = DOMAIN E /\ SameLinks(E, D, DOMAIN E) /\ e \in DOMAIN E
    BY <1>1, <1>2, <1>5, <1>8, <1>9
  <2>2. QED BY <1>11, <2>1 DEF IsSetFree, SameLinks
<1>14. IsDropped(E, G, F, F2, L, e, k, l, fi)
  <2>1. IsDropped(E, D, F, F2, L, e, k, l, fi)
    BY <1>1, <1>8, <1>9
  <2>2. \A i \in L \ {e} : G[i].free = D[i].free
    BY <1>2, <1>13
  <2>3. QED BY <2>1, <2>2 DEF IsDropped
<1>15. ListsOK(G, F2, L \ {e}) /\ Fewer(F, F2) /\ SameFree(E, G, L \ {e})
  <2>1. L \in SUBSET Nat /\ k \in DOMAIN F /\ l \in Nat /\ fi \in 0 .. l - 1
    BY <1>2, <1>4
  <2>2. QED BY <1>3, <1>14, <2>1, ListDrop
<1>16. SameLinks(h.elts, t.elts, Live(h))
  BY <1>1, <1>2, <1>12, <1>13 DEF SameLinks
<1>17. /\ t \in HeapRec /\ ~t.panicked /\ t.len = h.len /\ t.head = h.head
       /\ t.tail = h.tail
       /\ t.removed = h.removed /\ DOMAIN t.elts = DOMAIN h.elts
       /\ e \in Live(h) /\ t.elts[e].free = NoElt
       /\ ListsOK(t.elts, t.free, Live(h) \ {e}) /\ Fewer(h.free, t.free)
       /\ SameFree(h.elts, t.elts, Live(h) \ {e})
  BY <1>1, <1>3, <1>5, <1>12, <1>13, <1>15 DEF SameRest
<1>18. HeapOK(t, B \cup {e}) /\ Same(h, t, Live(h))
  BY <1>16, <1>17, TakeFree
<1>19. TakenOK(h, B, t, e)
  BY <1>1, <1>5, <1>6, <1>12, <1>16, <1>18 DEF TakenOK
<1>20. QED BY <1>19 DEF t

(* A block of the very size asked for.                                     *)
LEMMA GetExactOK ==
  ASSUME NEW h, NEW B, HeapOK(h, B), NEW size \in Nat \ {0},
         size < FreeLists(h), h.free[size] # <<>>, NEW r, r = GetExact(h, size)
  PROVE  GotOK(h, B, r, size)
<1>1. PICK E, L, F : E = h.elts /\ L = Live(h) /\ F = h.free
  OBVIOUS
<1>2. h \in HeapRec /\ L \in SUBSET Nat /\ B \subseteq L
  BY <1>1, HeapParts
<1>3. F \in AllLists
  BY <1>1, <1>2, HeapTypes
<1>4. size \in DOMAIN F /\ F[size] \in Seq(Int) /\ Len(F[size]) \in Nat
  BY <1>1, <1>3, ListsFacts DEF FreeLists
<1>5. PICK l \in Nat : l = Len(F[size]) /\ l # 0
  BY <1>1, <1>4
<1>6. PICK e : e = F[size][l]
  OBVIOUS
<1>7. PICK fi : fi = l - 1 /\ IsEntry(h.free, size, l, fi, e, e)
  <2>1. (l - 1) + 1 = l /\ l - 1 \in 0 .. l - 1
    BY <1>5
  <2>2. QED BY <1>1, <1>4, <1>5, <1>6, <2>1 DEF IsEntry
<1>8. PICK t : t = TakeAt(h, size, fi, e)
  OBVIOUS
<1>9. /\ e \in Live(h) /\ e \notin B /\ HeapOK(t, B \cup {e}) /\ Same(h, t, Live(h))
      /\ SameLinks(h.elts, t.elts, Live(h)) /\ SameRest(h, t)
  <2>1. TakenOK(h, B, TakeAt(h, size, fi, e), e)
    BY <1>7, TakeAtOK
  <2>2. QED BY <1>8, <2>1 DEF TakenOK
<1>10. r = Got(t, e)
  <2>1. ~(fi < l - 1)
    BY <1>7
  <2>2. DropAt(h, size, fi) = [h EXCEPT !.free[size] = SubSeq(@, 1, l - 1)]
    BY <1>1, <1>5, <2>1 DEF DropAt
  <2>3. r = Got([h EXCEPT !.free[size] = SubSeq(@, 1, l - 1), !.elts[e].free = NoElt], e)
    BY <1>1, <1>5, <1>6 DEF GetExact
  <2>4. QED BY <1>2, <1>8, <2>2, <2>3 DEF HeapRec, TakeAt
<1>11. r.heap = t /\ r.id = e /\ r.offset = t.elts[e].offset
  BY <1>10 DEF Got
<1>12. End(t.elts, t.len, e) = t.elts[e].offset + size
  <2>1. End(E, h.len, e) = E[e].offset + size
    <3>1. SizesOK(E, F, h.len)
      BY <1>1 DEF HeapOK
    <3>2. size > 0 /\ l - 1 \in 0 .. Len(F[size]) - 1 /\ (l - 1) + 1 = l
      BY <1>5
    <3>3. End(E, h.len, F[size][(l - 1) + 1]) = E[F[size][(l - 1) + 1]].offset + size
      BY <1>4, <3>1, <3>2, Zenon DEF SizesOK
    <3>4. QED BY <1>6, <3>2, <3>3
  <2>2. QED BY <1>1, <1>9, <2>1 DEF Same
<1>13. Same(h, t, B)
  BY <1>1, <1>2, <1>9 DEF Same
<1>14. QED BY <1>1, <1>2, <1>9, <1>11, <1>12, <1>13 DEF GotOK

(* freeAfter cuts a held block and frees the second part.                  *)
LEMMA FreeAfterIs ==
  ASSUME NEW h, NEW B, HeapOK(h, B), NEW ei \in B, NEW es \in Nat,
         NEW size \in Nat, size < es
  PROVE  FreeAfter(h, ei, es, es - size) =
           FreeElt(InsertAfter(h, ei, h.elts[ei].offset + size), NewEltIndex(h), es - size)
<1>1. PICK e : e = h.elts[ei]
  OBVIOUS
<1>2. e.offset \in Nat /\ (e.next = NoElt <=> ei = h.tail)
  <2>1. PICK E, L : E = h.elts /\ L = Live(h)
    OBVIOUS
  <2>2. B \subseteq L /\ \A i \in L : E[i].offset \in Nat
        /\ (E[i].next = NoElt <=> i = h.tail)
    BY <2>1, HeapParts
  <2>3. QED BY <1>1, <2>1, <2>2
<1>3. e.offset + es - (es - size) = e.offset + size
  BY <1>2
<1>4. h \in HeapRec /\ RemovedOK(h.elts, h.removed)
  BY DEF HeapOK
<1>5. NewElt(h).tail = h.tail
  BY <1>4, NewEltFacts
<1>6. (IF ei = NewElt(h).tail THEN NewEltIndex(h) ELSE NewElt(h).tail)
        = (IF e.next = NoElt THEN NewEltIndex(h) ELSE NewElt(h).tail)
  BY <1>2, <1>5
<1>7. PICK f, t : /\ f = [offset |-> e.offset + size, free |-> NoElt, next |-> e.next, prev |-> ei]
                  /\ t = IF e.next = NoElt THEN NewEltIndex(h) ELSE NewElt(h).tail
  OBVIOUS
<1>8. PICK g : g = [NewElt(h) EXCEPT
                      !.elts = [SetPrev(@, e.next, NewEltIndex(h)) EXCEPT
                                  ![NewEltIndex(h)] = f, ![ei].next = NewEltIndex(h)],
                      !.tail = t]
  OBVIOUS
<1>9. InsertAfter(h, ei, e.offset + size) = g
  BY <1>1, <1>7, <1>8 DEF InsertAfter
<1>10. FreeAfter(h, ei, es, es - size) = FreeElt(g, NewEltIndex(h), es - size)
  BY <1>1, <1>3, <1>6, <1>7, <1>8 DEF FreeAfter
<1>11. QED BY <1>1, <1>9, <1>10

(* A block from list 0 that is large enough, cut to the size asked for.    *)
LEMMA GetLargeOK ==
  ASSUME NEW h, NEW B, HeapOK(h, B), NEW size \in Nat \ {0},
         NEW fi \in LargeEnough(h, size), NEW r, r = GetLarge(h, fi, size)
  PROVE  GotOK(h, B, r, size)
<1>1. PICK E, L, F : E = h.elts /\ L = Live(h) /\ F = h.free
  OBVIOUS
<1>2. /\ h \in HeapRec /\ L \in SUBSET Nat /\ B \subseteq L
      /\ \A i \in L : /\ E[i].offset \in Nat /\ End(E, h.len, i) \in Nat
                      /\ E[i].offset < End(E, h.len, i)
      /\ \A i \in L \ B : E[i].next # NoElt => E[i].next \in B
  BY <1>1, HeapParts
<1>3. F \in AllLists
  BY <1>1, <1>2, HeapTypes
<1>4. FreeLists(h) # 0 /\ fi \in 0 .. Len(F[0]) - 1 /\ EltSize(h, F[0][fi + 1]) >= size
  BY <1>1 DEF LargeEnough
<1>5. 0 \in DOMAIN F /\ Len(F[0]) \in Nat
  BY <1>1, <1>3, <1>4, ListsFacts DEF FreeLists
<1>6. PICK l, e : l = Len(F[0]) /\ e = F[0][fi + 1]
  OBVIOUS
<1>7. IsEntry(h.free, 0, l, fi, e, F[0][l])
  BY <1>1, <1>4, <1>5, <1>6 DEF IsEntry
<1>8. PICK t : t = TakeAt(h, 0, fi, e)
  OBVIOUS
<1>9. TakenOK(h, B, t, e)
  <2>1. TakenOK(h, B, TakeAt(h, 0, fi, e), e)
    BY <1>7, TakeAtOK
  <2>2. QED BY <1>8, <2>1
<1>10. /\ e \in L /\ e \notin B /\ HeapOK(t, B \cup {e}) /\ Same(h, t, L)
       /\ SameLinks(E, t.elts, L) /\ t.len = h.len
  BY <1>1, <1>9 DEF TakenOK, SameRest
<1>11. PICK es \in Nat : /\ es = EltSize(h, e) /\ es >= size
                         /\ es = End(t.elts, t.len, e) - t.elts[e].offset
  <2>1. EltSize(h, e) = End(E, h.len, e) - E[e].offset
    BY <1>1 DEF EltSize, End
  <2>2. End(t.elts, t.len, e) = End(E, h.len, e) /\ t.elts[e].offset = E[e].offset
    BY <1>1, <1>10 DEF Same
  <2>3. QED BY <1>2, <1>4, <1>6, <1>10, <2>1, <2>2
<1>12. r = Got(IF es > size THEN FreeAfter(t, e, es, es - size) ELSE t, e)
  BY <1>1, <1>6, <1>8, <1>11 DEF GetLarge, TakeAt
<1>13. Same(h, t, B) /\ e \in Nat
  BY <1>2, <1>10 DEF Same
<1>14. t.elts[e].offset \in Nat /\ End(t.elts, t.len, e) = t.elts[e].offset + es
  <2>1. End(t.elts, t.len, e) = End(E, h.len, e) /\ t.elts[e].offset = E[e].offset
    BY <1>1, <1>10 DEF Same
  <2>2. QED BY <1>2, <1>10, <1>11, <2>1
<1>15. CASE ~(es > size)
  <2>1. r.heap = t /\ r.id = e /\ r.offset = t.elts[e].offset
    BY <1>12, <1>15 DEF Got
  <2>2. End(t.elts, t.len, e) = t.elts[e].offset + size
    BY <1>11, <1>14, <1>15
  <2>3. QED BY <1>10, <1>13, <2>1, <2>2 DEF GotOK
<1>16. CASE es > size
  <2>1. PICK o \in Nat : o = t.elts[e].offset + size
    BY <1>14
  <2>2. PICK n, v, g : /\ n = NewEltIndex(t) /\ v = InsertAfter(t, e, o)
                       /\ g = FreeElt(v, n, es - size)
    OBVIOUS
  <2>3. FreeAfter(t, e, es, es - size) = g
    <3>1. e \in B \cup {e} /\ size \in Nat /\ size < es
      BY <1>16
    <3>2. FreeAfter(t, e, es, es - size) =
            FreeElt(InsertAfter(t, e, t.elts[e].offset + size), NewEltIndex(t), es - size)
      BY <1>10, <3>1, FreeAfterIs
    <3>3. QED BY <2>1, <2>2, <3>2
  <2>4. PICK C : C = B \cup {e}
    OBVIOUS
  <2>5. /\ HeapOK(v, C \cup {n}) /\ n \notin Live(t) /\ Same(t, v, C \ {e})
        /\ v.elts[e].offset = t.elts[e].offset /\ End(v.elts, v.len, e) = o
        /\ v.elts[n].offset = o
        /\ End(v.elts, v.len, n) = End(t.elts, t.len, e)
        /\ v.elts[n].prev = e /\ v.elts[n].next = t.elts[e].next
    <3>1. t.elts[e].offset < o /\ o < End(t.elts, t.len, e) /\ e \in C /\ HeapOK(t, C)
      BY <1>10, <1>14, <1>16, <2>1, <2>4
    <3>2. CutAfterOK(t, v, C, e, o, n)
      BY <2>2, <3>1, InsertAfterOK
    <3>3. QED BY <3>2 DEF CutAfterOK
  <2>6. HeapOK(g, (C \cup {n}) \ {n}) /\ Same(v, g, Live(v))
    <3>1. n \in C \cup {n} /\ v.elts[n].prev \in (C \cup {n}) \cup {NoElt}
      BY <2>4, <2>5
    <3>2. v.elts[n].next \in (C \cup {n}) \cup {NoElt}
      <4>1. t.elts[e].next = E[e].next
        BY <1>10 DEF SameLinks
      <4>2. E[e].next # NoElt => E[e].next \in B
        BY <1>2, <1>10
      <4>3. QED BY <2>4, <2>5, <4>1, <4>2
    <3>3. es - size = End(v.elts, v.len, n) - v.elts[n].offset
      BY <1>14, <2>1, <2>5
    <3>4. QED BY <2>2, <2>5, <3>1, <3>2, <3>3, FreeEltOK
  <2>7. C \subseteq Live(t) /\ C \cup {n} \subseteq Live(v)
    BY <1>10, <2>4, <2>5 DEF HeapOK, HeldOK
  <2>8. HeapOK(g, B \cup {e})
    <3>1. (C \cup {n}) \ {n} = B \cup {e}
      BY <2>4, <2>5, <2>7
    <3>2. QED BY <2>6, <3>1
  <2>9. Same(h, g, B)
    <3>1. Same(t, v, B)
      BY <1>10, <2>4, <2>5 DEF Same
    <3>2. Same(v, g, B)
      BY <2>4, <2>6, <2>7 DEF Same
    <3>3. QED BY <1>13, <3>1, <3>2, SameTwice
  <2>10. r.heap = g /\ r.id = e /\ r.offset = g.elts[e].offset
    BY <1>12, <1>16, <2>3 DEF Got
  <2>11. End(g.elts, g.len, e) = g.elts[e].offset + size
    <3>1. e \in Live(v)
      BY <2>4, <2>7
    <3>2. End(g.elts, g.len, e) = End(v.elts, v.len, e)
          /\ g.elts[e].offset = v.elts[e].offset
      BY <2>6, <3>1 DEF Same
    <3>3. QED BY <2>1, <2>5, <3>2
  <2>12. QED BY <1>10, <1>13, <2>8, <2>9, <2>10, <2>11 DEF GotOK
<1>17. QED BY <1>15, <1>16

(* Heap.get: a block of the size asked for, or panic(ErrHeapOverflow) and  *)
(* nothing changed.                                                        *)
LEMMA GetNotedOK ==
  ASSUME NEW h, NEW B, HeapOK(h, B), NEW size \in Nat \ {0}, NEW r, r = GetNoted(h, size)
  PROVE  (r.id = NoElt /\ r.heap = h) \/ GotOK(h, B, r, size)
<1>1. PICK fits : fits = LargeEnough(h, size)
  OBVIOUS
<1>2. CASE size < FreeLists(h) /\ h.free[size] # <<>>
  <2>1. r = GetExact(h, size)
    BY <1>2 DEF GetNoted
  <2>2. QED BY <1>2, <2>1, GetExactOK
<1>3. CASE ~(size < FreeLists(h) /\ h.free[size] # <<>>) /\ fits # {}
  <2>1. fits \in SUBSET Nat
    BY <1>1 DEF LargeEnough
  <2>2. PICK fi : fi = CHOOSE f \in fits : \A g \in fits : f <= g
    OBVIOUS
  <2>3. fi \in fits
    <3>1. \E f \in fits : \A g \in fits : f <= g
      BY <1>3, <2>1, LeastOfNat
    <3>2. QED BY <2>2, <3>1
  <2>4. r = GetLarge(h, fi, size)
    BY <1>1, <1>3, <2>2 DEF GetNoted
  <2>5. QED BY <1>1, <2>3, <2>4, GetLargeOK
<1>4. CASE ~(size < FreeLists(h) /\ h.free[size] # <<>>) /\ fits = {}
  <2>1. r = IF HeapMaxLen # 0 /\ h.len + size > HeapMaxLen
            THEN [heap |-> h, id |-> NoElt, offset |-> 0] ELSE GetEnd(h, size)
    BY <1>1, <1>4 DEF GetNoted
  <2>2. CASE HeapMaxLen # 0 /\ h.len + size > HeapMaxLen
    BY <2>1, <2>2
  <2>3. CASE ~(HeapMaxLen # 0 /\ h.len + size > HeapMaxLen)
    BY <2>1, <2>3, GetEndOK
  <2>4. QED BY <2>2, <2>3
<1>5. QED BY <1>2, <1>3, <1>4

(* The largest size asked for only decides where blocks go when freed.     *)
LEMMA GetBlockOK ==
  ASSUME NEW h, NEW B, HeapOK(h, B), NEW arg \in Nat, NEW size \in Nat \ {0},
         NEW r, r = GetBlock(h, arg, size)
  PROVE  (r.id = NoElt /\ HeapOK(r.heap, B) /\ Same(h, r.heap, B)) \/ GotOK(h, B, r, size)
<1>1. PICK m : m = IF arg > h.maxSize THEN arg ELSE h.maxSize
  OBVIOUS
<1>2. PICK g : g = [h EXCEPT !.maxSize = m]
  OBVIOUS
<1>3. h \in HeapRec /\ m \in Nat
  <2>1. h \in HeapRec
    BY DEF HeapOK
  <2>2. QED BY <1>1, <2>1, HeapTypes
<1>4. /\ g \in HeapRec /\ g.elts = h.elts /\ g.free = h.free /\ g.removed = h.removed
      /\ g.head = h.head /\ g.tail = h.tail /\ g.len = h.len /\ g.panicked = h.panicked
  BY <1>2, <1>3 DEF HeapRec
<1>5. Live(g) = Live(h)
  BY <1>4 DEF Live
<1>6. HeapOK(g, B) /\ Same(h, g, B)
  <2>1. HeapOK(g, B)
    BY <1>4, <1>5 DEF HeapOK
  <2>2. Same(h, g, B)
    BY <1>4 DEF Same
  <2>3. QED BY <2>1, <2>2
<1>7. r = GetNoted(g, size)
  BY <1>1, <1>2 DEF GetBlock
<1>8. (r.id = NoElt /\ r.heap = g) \/ GotOK(g, B, r, size)
  BY <1>6, <1>7, GetNotedOK
<1>9. CASE r.id = NoElt /\ r.heap = g
  BY <1>6, <1>9
<1>10. CASE GotOK(g, B, r, size)
  <2>1. Same(h, r.heap, B)
    BY <1>6, <1>10, SameTwice DEF GotOK
  <2>2. QED BY <1>10, <2>1 DEF GotOK
<1>11. QED BY <1>8, <1>9, <1>10

(* What trimming leaves: a block of the size asked for at the aligned      *)
(* offset, unless a list was found corrupt.                                *)
TrimDone(h, g, B, ei, ao, size) ==
  \/ g.panicked
  \/ /\ HeapOK(g, B \cup {ei})
     /\ Same(h, g, B)
     /\ g.elts[ei].offset = ao
     /\ End(g.elts, g.len, ei) = ao + size

(* GetAligned's trimming: ei is left with exactly ao .. ao + size.         *)
LEMMA TrimOK ==
  ASSUME NEW h, NEW B, NEW ei, ei \notin B, HeapOK(h, B \cup {ei}),
         NEW ao \in Nat, NEW end \in Nat, NEW size \in Nat \ {0},
         h.elts[ei].offset <= ao, ao + size <= end, End(h.elts, h.len, ei) = end,
         NEW g, g = Trim(h, ei, ao, end, size)
  PROVE  TrimDone(h, g, B, ei, ao, size)
<1> SUFFICES \/ g.panicked
             \/ /\ HeapOK(g, B \cup {ei}) /\ Same(h, g, B) /\ g.elts[ei].offset = ao
                /\ End(g.elts, g.len, ei) = ao + size
  BY DEF TrimDone
<1>1. PICK C : C = B \cup {ei}
  OBVIOUS
<1>2. PICK b : b = IF ao = h.elts[ei].offset THEN h
                   ELSE PutBlock(InsertBefore(h, ei, ao), NewEltIndex(h))
  OBVIOUS
<1>3. h.elts[ei].offset \in Nat
  <2>1. PICK E, L : E = h.elts /\ L = Live(h)
    OBVIOUS
  <2>2. C \subseteq L /\ \A i \in L : E[i].offset \in Nat
    BY <1>1, <2>1, HeapParts
  <2>3. QED BY <1>1, <2>1, <2>2
<1>4. g = IF b.panicked \/ end <= ao + size THEN b
          ELSE PutBlock(InsertAfter(b, ei, ao + size), NewEltIndex(b))
  BY <1>2 DEF Trim
<1>5. \/ b.panicked
      \/ /\ HeapOK(b, C) /\ Same(h, b, B) /\ b.elts[ei].offset = ao
         /\ End(b.elts, b.len, ei) = end
  <2>1. CASE ao = h.elts[ei].offset
    BY <1>1, <1>2, <2>1 DEF Same
  <2>2. CASE ao # h.elts[ei].offset
    <3>1. PICK n, v : n = NewEltIndex(h) /\ v = InsertBefore(h, ei, ao)
      OBVIOUS
    <3>2. HeapOK(h, C) /\ ei \in C /\ h.elts[ei].offset < ao
          /\ ao < End(h.elts, h.len, ei)
      BY <1>1, <1>3, <2>2
    <3>3. CutBeforeOK(h, v, C, ei, ao, n)
      BY <3>1, <3>2, InsertBeforeOK
    <3>4. /\ HeapOK(v, C \cup {n}) /\ n \notin Live(h) /\ Same(h, v, C \ {ei})
          /\ v.elts[ei].offset = ao /\ End(v.elts, v.len, ei) = End(h.elts, h.len, ei)
      BY <3>3 DEF CutBeforeOK
    <3>5. C \subseteq Live(h)
      BY <3>2 DEF HeapOK, HeldOK
    <3>6. (C \cup {n}) \ {n} = C
      BY <3>4, <3>5
    <3>7. b.panicked \/ (HeapOK(b, (C \cup {n}) \ {n}) /\ Same(v, b, (C \cup {n}) \ {n}))
      <4>1. b = PutBlock(v, n) /\ n \in C \cup {n}
        BY <1>2, <2>2, <3>1
      <4>2. QED BY <3>4, <4>1, PutBlockOK
    <3>8. CASE ~b.panicked
      <4>1. HeapOK(b, C) /\ Same(v, b, C)
        BY <3>6, <3>7, <3>8
      <4>2. Same(h, b, B)
        BY <1>1, <3>4, <4>1 DEF Same
      <4>3. b.elts[ei].offset = ao /\ End(b.elts, b.len, ei) = end
        BY <1>1, <3>4, <4>1 DEF Same
      <4>4. QED BY <4>1, <4>2, <4>3
    <3>9. QED BY <3>8
  <2>3. QED BY <2>1, <2>2
<1>6. CASE b.panicked
  BY <1>4, <1>6
<1>7. CASE ~b.panicked /\ end <= ao + size
  <2>1. g = b /\ end = ao + size
    BY <1>4, <1>7
  <2>2. QED BY <1>1, <1>5, <1>7, <2>1
<1>8. CASE ~b.panicked /\ ~(end <= ao + size)
  <2>1. HeapOK(b, C) /\ Same(h, b, B) /\ b.elts[ei].offset = ao
        /\ End(b.elts, b.len, ei) = end
    BY <1>5, <1>8
  <2>2. PICK o \in Nat : o = ao + size
    OBVIOUS
  <2>3. PICK n, v : n = NewEltIndex(b) /\ v = InsertAfter(b, ei, o)
    OBVIOUS
  <2>4. ei \in C /\ b.elts[ei].offset < o /\ o < End(b.elts, b.len, ei)
    BY <1>1, <1>8, <2>1, <2>2
  <2>5. CutAfterOK(b, v, C, ei, o, n)
    BY <2>1, <2>3, <2>4, InsertAfterOK
  <2>6. /\ HeapOK(v, C \cup {n}) /\ n \notin Live(b) /\ Same(b, v, C \ {ei})
        /\ v.elts[ei].offset = ao /\ End(v.elts, v.len, ei) = o
    BY <2>1, <2>5 DEF CutAfterOK
  <2>7. C \subseteq Live(b)
    BY <2>1 DEF HeapOK, HeldOK
  <2>8. (C \cup {n}) \ {n} = C
    BY <2>6, <2>7
  <2>9. g.panicked \/ (HeapOK(g, (C \cup {n}) \ {n}) /\ Same(v, g, (C \cup {n}) \ {n}))
    <3>1. g = PutBlock(v, n) /\ n \in C \cup {n}
      BY <1>4, <1>8, <2>2, <2>3
    <3>2. QED BY <2>6, <3>1, PutBlockOK
  <2>10. CASE ~g.panicked
    <3>1. HeapOK(g, C) /\ Same(v, g, C)
      BY <2>8, <2>9, <2>10
    <3>2. Same(h, g, B)
      BY <1>1, <2>1, <2>6, <3>1 DEF Same
    <3>3. g.elts[ei].offset = ao /\ End(g.elts, g.len, ei) = ao + size
      BY <1>1, <2>2, <2>6, <3>1 DEF Same
    <3>4. QED BY <1>1, <3>1, <3>2, <3>3
  <2>11. QED BY <2>10
<1>9. QED BY <1>6, <1>7, <1>8
-----------------------------------------------------------------------------
(* Rounding up to a multiple of a.                                         *)
LEMMA AlignUp ==
  ASSUME NEW x \in Nat, NEW a \in Nat \ {0}, NEW y, y = ((x + a - 1) \div a) * a
  PROVE  y \in Nat /\ x <= y /\ y <= x + a - 1
<1>1. PICK w, q : w \in Nat /\ w = x + a - 1 /\ q = w \div a
  OBVIOUS
<1>2. PICK m : m = w % a
  OBVIOUS
<1>3. q \in Nat /\ m \in 0 .. a - 1 /\ w = a * q + m
  BY <1>1, <1>2
<1>4. y = a * q
  BY <1>1, <1>3
<1>5. y = w - m
  BY <1>3, <1>4
<1>6. QED BY <1>1, <1>3, <1>5

(* The empty heap.                                                         *)
LEMMA HeapInitInv == HeapInit => HeapInv
<1> SUFFICES ASSUME HeapInit PROVE HeapInv
  OBVIOUS
<1>1. /\ heap.elts = <<>> /\ heap.free = <<>> /\ heap.removed = <<>> /\ heap.head = 0
      /\ heap.tail = 0 /\ heap.len = 0 /\ heap.maxSize = 0 /\ heap.panicked = FALSE
  BY DEF HeapInit
<1>2. DOMAIN blocks = {}
  BY DEF HeapInit
<1>3. 0 .. 0 - 1 = {} /\ DOMAIN <<>> = {}
  OBVIOUS
<1>4. <<>> \in [0 .. 0 - 1 -> Elt] /\ <<>> \in [0 .. 0 - 1 -> Seq(Int)]
  BY <1>3
<1>5. <<>> \in AllElts /\ <<>> \in AllLists
  BY <1>4 DEF AllElts, AllLists
<1>6. heap \in HeapRec
  BY <1>5 DEF HeapInit, HeapRec
<1>7. Gone(heap.removed) = {} /\ Live(heap) = {}
  BY <1>1, <1>3 DEF Gone, Live
<1>8. RemovedOK(heap.elts, heap.removed)
  BY <1>1, <1>7 DEF RemovedOK
<1>9. LinksOK(heap.elts, Live(heap), heap.len, heap.head, heap.tail)
  BY <1>1, <1>7 DEF LinksOK
<1>10. ListsOK(heap.elts, heap.free, Live(heap))
       /\ SizesOK(heap.elts, heap.free, heap.len)
  BY <1>1, <1>3, <1>7 DEF ListsOK, SizesOK
<1>11. HeldOK(heap.elts, Live(heap), DOMAIN blocks)
  BY <1>2, <1>7 DEF HeldOK
<1>12. HeapOK(heap, DOMAIN blocks)
  BY <1>1, <1>3, <1>6, <1>8, <1>9, <1>10, <1>11 DEF HeapOK
<1>13. QED BY <1>2, <1>12 DEF HeapInv

(* GetAligned keeps the invariant.                                         *)
LEMMA HeapGetInv ==
  ASSUME HeapInv, NEW size \in HeapSizes, NEW k \in HeapAligns, HeapGetAligned(size, k)
  PROVE  HeapInv'
<1>1. PICK B : B = DOMAIN blocks
  OBVIOUS
<1>2. PICK a, s, got : a = 2 ^ k /\ s = size + a - 1 /\ got = GetBlock(heap, size, s)
  OBVIOUS
<1>3. PICK ao : ao = ((got.offset + a - 1) \div a) * a
  OBVIOUS
<1>4. PICK t : t = IF k = 0 THEN got.heap ELSE Trim(got.heap, got.id, ao, got.offset + s, size)
  OBVIOUS
<1>5. /\ ~heap.panicked
      /\ got.id = NoElt => heap' = got.heap /\ blocks' = blocks
      /\ got.id # NoElt => /\ heap' = t
                           /\ blocks' = [i \in DOMAIN blocks \cup {got.id} |->
                                           IF i \in DOMAIN blocks THEN blocks[i]
                                           ELSE [offset |-> ao, size |-> size]]
  BY <1>2, <1>3, <1>4 DEF HeapGetAligned
<1>6. size \in Nat \ {0} /\ k \in Nat /\ a \in Nat \ {0} /\ s \in Nat \ {0}
      /\ (k = 0 => a = 1)
  <2>1. size \in Nat \ {0} /\ k \in Nat /\ a \in Nat \ {0}
    BY <1>2, HeapAssumption
  <2>2. k = 0 => a = 1
    BY <1>2
  <2>3. QED BY <1>2, <2>1, <2>2
<1>7. /\ HeapOK(heap, B)
      /\ \A id \in B : /\ blocks[id].size \in Nat
                       /\ heap.elts[id].offset = blocks[id].offset
                       /\ End(heap.elts, heap.len, id) = blocks[id].offset + blocks[id].size
  BY <1>1, <1>5 DEF HeapInv
<1>8. \/ got.id = NoElt /\ HeapOK(got.heap, B) /\ Same(heap, got.heap, B)
      \/ GotOK(heap, B, got, s)
  BY <1>2, <1>6, <1>7, GetBlockOK
<1>9. CASE got.id = NoElt /\ HeapOK(got.heap, B) /\ Same(heap, got.heap, B)
  <2>1. heap' = got.heap /\ blocks' = blocks /\ HeapOK(heap', B) /\ Same(heap, heap', B)
    BY <1>5, <1>9
  <2>2. \A id \in B : /\ blocks[id].size \in Nat
                      /\ heap'.elts[id].offset = blocks[id].offset
                      /\ End(heap'.elts, heap'.len, id) = blocks[id].offset + blocks[id].size
    BY <1>7, <2>1 DEF Same
  <2>3. QED BY <1>1, <2>1, <2>2 DEF HeapInv
<1>10. CASE GotOK(heap, B, got, s)
  <2>1. PICK id, h : id = got.id /\ h = got.heap
    OBVIOUS
  <2>2. /\ id \in Nat /\ id \notin B /\ HeapOK(h, B \cup {id}) /\ Same(heap, h, B)
        /\ got.offset = h.elts[id].offset
        /\ End(h.elts, h.len, id) = got.offset + s
    BY <1>10, <2>1 DEF GotOK
  <2>3. got.offset \in Nat
    <3>1. PICK E, L : E = h.elts /\ L = Live(h)
      OBVIOUS
    <3>2. B \cup {id} \subseteq L /\ \A i \in L : E[i].offset \in Nat
      BY <2>2, <3>1, HeapParts
    <3>3. QED BY <2>2, <3>1, <3>2
  <2>4. ao \in Nat /\ got.offset <= ao /\ ao <= got.offset + a - 1
    BY <1>3, <1>6, <2>3, AlignUp
  <2>5. id # NoElt
    BY <2>2 DEF NoElt
  <2>6. \/ t.panicked
        \/ /\ HeapOK(t, B \cup {id}) /\ Same(h, t, B) /\ t.elts[id].offset = ao
           /\ End(t.elts, t.len, id) = ao + size
    <3>1. CASE k = 0
      <4>1. t = h /\ ao = got.offset /\ s = size
        BY <1>2, <1>4, <1>6, <2>1, <2>3, <2>4, <3>1
      <4>2. QED BY <2>2, <4>1 DEF Same
    <3>2. CASE k # 0
      <4>1. PICK end \in Nat : end = got.offset + s
        BY <1>6, <2>3
      <4>2. t = Trim(h, id, ao, end, size)
        BY <1>4, <2>1, <3>2, <4>1
      <4>3. h.elts[id].offset <= ao /\ ao + size <= end /\ End(h.elts, h.len, id) = end
        BY <1>2, <1>6, <2>2, <2>3, <2>4, <4>1
      <4>4. id \notin B /\ HeapOK(h, B \cup {id}) /\ ao \in Nat /\ size \in Nat \ {0}
        BY <1>6, <2>2, <2>4
      <4>5. TrimDone(h, t, B, id, ao, size)
        BY <4>2, <4>3, <4>4, TrimOK
      <4>6. QED BY <4>5 DEF TrimDone
    <3>3. QED BY <3>1, <3>2
  <2>7. /\ heap' = t /\ DOMAIN blocks' = B \cup {id}
        /\ \A i \in B : blocks'[i] = blocks[i]
        /\ blocks'[id] = [offset |-> ao, size |-> size]
    BY <1>1, <1>5, <2>1, <2>2, <2>5
  <2>8. CASE ~t.panicked
    <3>1. /\ HeapOK(t, B \cup {id}) /\ Same(h, t, B) /\ t.elts[id].offset = ao
          /\ End(t.elts, t.len, id) = ao + size
      BY <2>6, <2>8
    <3>2. Same(heap, t, B)
      BY <2>2, <3>1, SameTwice
    <3>3. ASSUME NEW i \in B \cup {id}
          PROVE  /\ blocks'[i].size \in Nat
                 /\ t.elts[i].offset = blocks'[i].offset
                 /\ End(t.elts, t.len, i) = blocks'[i].offset + blocks'[i].size
      <4>1. CASE i = id
        <5>1. blocks'[i].offset = ao /\ blocks'[i].size = size
          BY <2>7, <4>1
        <5>2. QED BY <1>6, <3>1, <4>1, <5>1
      <4>2. CASE i \in B
        BY <1>7, <2>7, <3>2, <4>2 DEF Same
      <4>3. QED BY <4>1, <4>2
    <3>4. QED BY <2>7, <3>1, <3>3 DEF HeapInv
  <2>9. CASE t.panicked
    BY <2>7, <2>9 DEF HeapInv
  <2>10. QED BY <2>8, <2>9
<1>11. QED BY <1>8, <1>9, <1>10

(* Put keeps the invariant.                                                *)
LEMMA HeapPutInv ==
  ASSUME HeapInv, NEW id \in DOMAIN blocks, HeapPut(id)
  PROVE  HeapInv'
<1>1. PICK B : B = DOMAIN blocks
  OBVIOUS
<1>2. /\ ~heap.panicked /\ heap' = PutBlock(heap, id) /\ DOMAIN blocks' = B \ {id}
      /\ \A i \in B \ {id} : blocks'[i] = blocks[i]
  BY <1>1 DEF HeapPut
<1>3. /\ HeapOK(heap, B) /\ id \in B
      /\ \A i \in B : /\ blocks[i].size \in Nat
                      /\ heap.elts[i].offset = blocks[i].offset
                      /\ End(heap.elts, heap.len, i) = blocks[i].offset + blocks[i].size
  BY <1>1, <1>2 DEF HeapInv
<1>4. heap'.panicked \/ (HeapOK(heap', B \ {id}) /\ Same(heap, heap', B \ {id}))
  BY <1>2, <1>3, PutBlockOK
<1>5. CASE ~heap'.panicked
  <2>1. HeapOK(heap', B \ {id}) /\ Same(heap, heap', B \ {id})
    BY <1>4, <1>5
  <2>2. ASSUME NEW i \in B \ {id}
        PROVE  /\ blocks'[i].size \in Nat
               /\ heap'.elts[i].offset = blocks'[i].offset
               /\ End(heap'.elts, heap'.len, i) = blocks'[i].offset + blocks'[i].size
    BY <1>2, <1>3, <2>1 DEF Same
  <2>3. QED BY <1>2, <2>1, <2>2 DEF HeapInv
<1>6. CASE heap'.panicked
  BY <1>6 DEF HeapInv
<1>7. QED BY <1>5, <1>6
-----------------------------------------------------------------------------
(* The invariant is what the two properties say, in terms of elements'     *)
(* ends instead of their sizes.                                            *)
LEMMA InvMeans ==
  ASSUME HeapInv, ~heap.panicked
  PROVE  /\ LiveElts = Live(heap)
         /\ LinksOK(heap.elts, Live(heap), heap.len, heap.head, heap.tail)
         /\ ListsOK(heap.elts, heap.free, Live(heap))
         /\ SizesOK(heap.elts, heap.free, heap.len)
         /\ HeldOK(heap.elts, Live(heap), DOMAIN blocks)
         /\ heap.len \in Nat
         /\ DOMAIN heap.free \subseteq Nat
<1>1. HeapOK(heap, DOMAIN blocks)
  BY DEF HeapInv
<1>2. LiveElts = Live(heap)
  BY DEF LiveElts, Live, Gone
<1>3. heap.len \in Nat /\ heap.free \in AllLists
  BY <1>1 DEF HeapOK, HeapRec
<1>4. DOMAIN heap.free \subseteq Nat
  BY <1>3 DEF AllLists
<1>5. QED BY <1>1, <1>2, <1>3, <1>4 DEF HeapOK

(* An element's size is the distance from its offset to its end.           *)
LEMMA SizeIsEnd ==
  ASSUME NEW i
  PROVE  EltSize(heap, i) = End(heap.elts, heap.len, i) - heap.elts[i].offset
BY DEF EltSize, End

(* The linked elements tile the array.                                     *)
LEMMA InvTiled ==
  ASSUME HeapInv, ~heap.panicked
  PROVE  Tiled
<1>1. PICK E, L, n : E = heap.elts /\ L = Live(heap) /\ n = heap.len
  OBVIOUS
<1>2. /\ LiveElts = L /\ n \in Nat
      /\ LinksOK(E, L, n, heap.head, heap.tail)
  BY <1>1, InvMeans
<1>3. \A i \in L : /\ E[i].offset \in Nat /\ E[i].offset < End(E, n, i)
                   /\ End(E, n, i) <= n
  BY <1>2 DEF LinksOK
<1>4. \A i \in L : End(E, n, i) \in Int
  <2>1. \A i \in L : E[i].next # NoElt => E[i].next \in L
    BY <1>2 DEF LinksOK
  <2>2. QED BY <1>2, <1>3, <2>1 DEF End
<1>5. \A i \in L : EltSize(heap, i) > 0
  <2> SUFFICES ASSUME NEW i \in L PROVE EltSize(heap, i) > 0
    OBVIOUS
  <2>1. PICK x, y : x = E[i].offset /\ y = End(E, n, i)
    OBVIOUS
  <2>2. x \in Nat /\ y \in Int /\ x < y
    BY <1>3, <1>4, <2>1
  <2>3. EltSize(heap, i) = y - x
    BY <1>1, <2>1, SizeIsEnd
  <2>4. QED BY <2>2, <2>3
<1>6. \A i \in L : /\ IF E[i].prev = NoElt THEN i = heap.head /\ E[i].offset = 0
                                           ELSE E[E[i].prev].next = i
                   /\ IF E[i].next = NoElt THEN i = heap.tail
                                           ELSE E[E[i].next].prev = i
  BY <1>2 DEF LinksOK
<1>7. ASSUME NEW i \in L, NEW j \in L, i # j PROVE E[i].offset # E[j].offset
  <2>1. End(E, n, i) <= E[j].offset \/ End(E, n, j) <= E[i].offset
    BY <1>2, <1>7 DEF LinksOK
  <2>2. QED BY <1>3, <1>4, <2>1
<1>8. QED BY <1>1, <1>2, <1>5, <1>6, <1>7 DEF Tiled

(* The invariant implies that blocks are kept.                             *)
LEMMA InvKept == HeapInv => BlocksKept
<1> SUFFICES ASSUME HeapInv, ~heap.panicked PROVE BlocksKept
  BY DEF BlocksKept
<1>1. PICK E, L, n, B : E = heap.elts /\ L = Live(heap) /\ n = heap.len
           /\ B = DOMAIN blocks
  OBVIOUS
<1>2. Tiled
  BY InvTiled
<1>3. LiveElts = L /\ n \in Nat /\ LinksOK(E, L, n, heap.head, heap.tail)
      /\ HeldOK(E, L, B)
  BY <1>1, InvMeans
<1>4. ASSUME NEW id \in B
      PROVE  /\ id \in L /\ ~IsFreeElt(heap, id)
             /\ E[id].offset = blocks[id].offset
             /\ EltSize(heap, id) = blocks[id].size
  <2>1. id \in L /\ E[id].free = NoElt
    BY <1>3 DEF HeldOK
  <2>2. PICK x, y, o, z : x = E[id].offset /\ y = End(E, n, id)
                          /\ o = blocks[id].offset /\ z = blocks[id].size
    OBVIOUS
  <2>3. x = o /\ y = o + z
    BY <1>1, <2>2 DEF HeapInv
  <2>4. x \in Nat /\ EltSize(heap, id) = y - x
    BY <1>1, <1>3, <2>1, <2>2, SizeIsEnd DEF LinksOK
  <2>5. z \in Nat
    BY <1>1, <2>2 DEF HeapInv
  <2>6. EltSize(heap, id) = z
    BY <2>3, <2>4, <2>5
  <2>7. QED BY <1>1, <2>1, <2>2, <2>3, <2>6 DEF IsFreeElt
<1>5. QED BY <1>1, <1>2, <1>3, <1>4 DEF BlocksKept

(* The invariant implies that nothing leaks.                               *)
LEMMA InvNoLeak == HeapInv => NothingLeaks
<1> SUFFICES ASSUME HeapInv, ~heap.panicked PROVE NothingLeaks
  BY DEF NothingLeaks
<1>1. PICK E, L, n, B, F : /\ E = heap.elts /\ L = Live(heap) /\ n = heap.len
                           /\ B = DOMAIN blocks /\ F = heap.free
  OBVIOUS
<1>2. /\ LiveElts = L /\ n \in Nat /\ LinksOK(E, L, n, heap.head, heap.tail)
      /\ HeldOK(E, L, B) /\ ListsOK(E, F, L) /\ SizesOK(E, F, n) /\ DOMAIN F \subseteq Nat
  BY <1>1, InvMeans
<1>3. ASSUME NEW i \in L, E[i].free # NoElt
      PROVE  \E k \in DOMAIN F : E[i].free < Len(F[k]) /\ F[k][E[i].free + 1] = i
  <2>1. PICK k \in DOMAIN F : At(F, k, E[i].free, i)
    BY <1>2, <1>3 DEF ListsOK
  <2>2. QED BY <2>1 DEF At
<1>4. ASSUME NEW k \in DOMAIN F, NEW fi \in 1 .. Len(F[k])
      PROVE  /\ F[k][fi] \in L /\ E[F[k][fi]].free = fi - 1
             /\ k > 0 => EltSize(heap, F[k][fi]) = k
  <2>1. PICK f : f = fi - 1
    OBVIOUS
  <2>2. PICK i : i = F[k][fi]
    OBVIOUS
  <2>3. f \in 0 .. Len(F[k]) - 1 /\ F[k][f + 1] = i
    BY <2>1, <2>2
  <2>4. i \in L /\ E[i].free = f
    BY <1>2, <2>3 DEF ListsOK
  <2>5. k > 0 => End(E, n, i) = E[i].offset + k
    BY <1>2, <2>3 DEF SizesOK
  <2>6. E[i].offset \in Nat /\ k \in Nat
    BY <1>2, <2>4 DEF LinksOK
  <2>7. EltSize(heap, i) = End(E, n, i) - E[i].offset
    BY <1>1, SizeIsEnd
  <2>8. k > 0 => EltSize(heap, i) = k
    BY <2>5, <2>6, <2>7
  <2>9. QED BY <2>1, <2>2, <2>4, <2>8
<1>5. FreeListsMatch
  BY <1>1, <1>2, <1>3, <1>4 DEF FreeListsMatch, IsFreeElt
<1>6. \A i \in L \ B : /\ IsFreeElt(heap, i)
                       /\ E[i].next # NoElt => E[i].next \in B
  BY <1>1, <1>2 DEF HeldOK, IsFreeElt
<1>7. QED BY <1>1, <1>2, <1>5, <1>6 DEF NothingLeaks

(* Every step keeps the invariant.                                         *)
LEMMA HeapInvStep == HeapInv /\ [HeapNext]_heapVars => HeapInv'
<1> SUFFICES ASSUME HeapInv, [HeapNext]_heapVars PROVE HeapInv'
  OBVIOUS
<1>1. ASSUME NEW s \in HeapSizes, NEW a \in HeapAligns, HeapGetAligned(s, a)
      PROVE  HeapInv'
  BY <1>1, HeapGetInv
<1>2. ASSUME NEW id \in DOMAIN blocks, HeapPut(id)
      PROVE  HeapInv'
  BY <1>2, HeapPutInv
<1>3. CASE UNCHANGED heapVars
  BY <1>3 DEF HeapInv, heapVars
<1>4. QED BY <1>1, <1>2, <1>3 DEF HeapNext

(* Whatever is allocated, trimmed, freed and joined, a block stays where   *)
(* its holder was told it is, with the size asked for, and the elements    *)
(* tile the array (elib/heap.go).                                          *)
THEOREM HeapBlocksKept == HeapSpec => []BlocksKept
<1>1. HeapSpec => []HeapInv
  BY HeapInitInv, HeapInvStep, PTL DEF HeapSpec
<1>2. QED BY <1>1, InvKept, PTL

(* Every element that no caller holds is free, on the list of its size at  *)
(* the place it remembers, and joined with its free neighbours, as long as *)
(* no list was found corrupt (elib/heap.go).                               *)
THEOREM HeapNothingLeaks == HeapSpec => []NothingLeaks
<1>1. HeapSpec => []HeapInv
  BY HeapInitInv, HeapInvStep, PTL DEF HeapSpec
<1>2. QED BY <1>1, InvNoLeak, PTL
=============================================================================
