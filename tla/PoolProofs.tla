----------------------------- MODULE PoolProofs -----------------------------
(***************************************************************************)
(* Proofs about Pool for every MaxLen and every vector length.             *)
(***************************************************************************)
EXTENDS Pool, FiniteSetTheorems, TLAPS

(* The number of held indices is a natural number: they lie inside the     *)
(* data vector.                                                            *)
LEMMA HeldFinite ==
  ASSUME NEW n \in Nat, NEW S, S \subseteq 0 .. n - 1
  PROVE  IsFiniteSet(S) /\ Cardinality(S) \in Nat
<1>1. IsFiniteSet(0 .. n - 1)
  BY FS_Interval
<1>2. QED BY <1>1, FS_Subset, FS_CardinalityType

(* The index GetIndex takes is not held, and is inside the vector exactly  *)
(* when it comes from the free list.                                       *)
LEMMA NextIndexFacts ==
  ASSUME PoolInv
  PROVE  /\ FreeLen \in Nat
         /\ NextIndex \in Nat
         /\ NextIndex \notin held
         /\ FreeLen # 0 => NextIndex \in freeBitmap /\ NextIndex < vecLen
         /\ FreeLen = 0 => NextIndex = vecLen /\ freeBitmap = {}
<1> USE DEF PoolInv, TypeOK, FreeListMatchesBitmap, FreeLen, NextIndex
<1>1. FreeLen \in Nat
  OBVIOUS
<1>2. CASE FreeLen # 0
  <2>1. FreeLen \in 1 .. Len(freeIndices)
    BY <1>1, <1>2
  <2>2. freeIndices[FreeLen] \in freeBitmap
    BY <2>1
  <2>3. QED BY <1>1, <1>2, <2>2
<1>3. CASE FreeLen = 0
  <2>1. 1 .. Len(freeIndices) = {}
    BY <1>3
  <2>2. freeBitmap = {}
    BY <2>1
  <2>3. QED BY <1>1, <1>3, <2>2
<1>4. QED BY <1>1, <1>2, <1>3

(* Popping the stack keeps stack and bitmap equal and removes exactly the  *)
(* popped index.                                                           *)
LEMMA PopFreeKeepsMatch ==
  ASSUME PoolInv, PopFree
  PROVE  /\ freeIndices' \in Seq(Nat)
         /\ freeBitmap' = freeBitmap \ {NextIndex}
         /\ FreeListMatchesBitmap'
<1> USE DEF PoolInv, TypeOK
<1>1. CASE FreeLen = 0
  BY <1>1, NextIndexFacts DEF PopFree, FreeListMatchesBitmap
<1>2. CASE FreeLen # 0
  <2> DEFINE last == FreeLen
  <2>1. last \in Nat \ {0} /\ last = Len(freeIndices)
    BY <1>2, NextIndexFacts DEF FreeLen
  <2>2. /\ freeIndices' = SubSeq(freeIndices, 1, last - 1)
        /\ freeBitmap' = freeBitmap \ {NextIndex}
        /\ NextIndex = freeIndices[last]
    BY <1>2 DEF PopFree, NextIndex
  <2>3. /\ freeIndices' \in Seq(Nat)
        /\ Len(freeIndices') = last - 1
        /\ \A k \in 1 .. last - 1 : freeIndices'[k] = freeIndices[k]
    BY <2>1, <2>2
  <2>4. \A k \in 1 .. last - 1 :
           k \in 1 .. Len(freeIndices) /\ freeIndices[k] # freeIndices[last]
    BY <2>1 DEF FreeListMatchesBitmap
  <2>5. \A i \in freeBitmap' :
           \E k \in 1 .. Len(freeIndices') : freeIndices'[k] = i
    <3> TAKE i \in freeBitmap'
    <3>1. PICK k \in 1 .. Len(freeIndices) : freeIndices[k] = i
      BY <2>2 DEF FreeListMatchesBitmap
    <3>2. k \in 1 .. last - 1
      BY <2>1, <2>2, <3>1
    <3>3. QED BY <2>3, <3>1, <3>2
  <2>6. \A k \in 1 .. Len(freeIndices') : freeIndices'[k] \in freeBitmap'
    BY <2>2, <2>3, <2>4 DEF FreeListMatchesBitmap
  <2>7. \A j, k \in 1 .. Len(freeIndices') :
           freeIndices'[j] = freeIndices'[k] => j = k
    BY <2>3, <2>4 DEF FreeListMatchesBitmap
  <2>8. QED BY <2>2, <2>3, <2>5, <2>6, <2>7 DEF FreeListMatchesBitmap
<1>3. QED BY <1>1, <1>2

(* GetIndex preserves the invariant, also when it panics.                  *)
LEMMA GetIndexStep == ASSUME PoolInv, GetIndex PROVE PoolInv'
<1> USE DEF PoolInv, TypeOK
<1>1. /\ freeIndices' \in Seq(Nat)
      /\ freeBitmap' = freeBitmap \ {NextIndex}
      /\ FreeListMatchesBitmap'
  BY PopFreeKeepsMatch DEF GetIndex
<1>2. CASE TooLarge(NextIndex)
  BY <1>1, <1>2 DEF GetIndex
<1>3. CASE ~TooLarge(NextIndex)
  <2>1. /\ vecLen' = IF NextIndex >= vecLen THEN NextIndex + 1 ELSE vecLen
        /\ held' = held \cup {NextIndex}
        /\ peak' = IF Cardinality(held') > peak
                   THEN Cardinality(held') ELSE peak
        /\ panicked' = panicked /\ ~panicked
    BY <1>3 DEF GetIndex
  <2>2. CASE FreeLen # 0
    <3>1. vecLen' = vecLen /\ held' \subseteq 0 .. vecLen - 1
      BY <2>1, <2>2, NextIndexFacts
    <3>2. Cardinality(held') \in Nat
      BY <3>1, HeldFinite
    <3>3. peak' \in Nat /\ peak' >= peak
      BY <2>1, <3>2
    <3>4. held' \cup freeBitmap' = 0 .. vecLen' - 1
      BY <1>1, <2>1, <2>2, <3>1, NextIndexFacts
    <3>5. QED BY <1>1, <2>1, <3>1, <3>3, <3>4, NextIndexFacts, SMTT(40)
  <2>3. CASE FreeLen = 0
    <3>1. /\ vecLen' = vecLen + 1
          /\ NextIndex = vecLen
          /\ freeBitmap = {} /\ freeBitmap' = {}
      BY <1>1, <2>1, <2>3, NextIndexFacts
    <3>2. held' = 0 .. vecLen
      BY <2>1, <3>1
    <3>3. Cardinality(held') = vecLen + 1
      BY <3>2, FS_Interval
    <3>4. peak' \in Nat /\ vecLen' <= peak'
      BY <2>1, <3>1, <3>3
    <3>5. QED BY <1>1, <2>1, <3>1, <3>2, <3>4
  <2>4. QED BY <2>2, <2>3
<1>4. QED BY <1>2, <1>3

(* PutIndex preserves the invariant for every index of the vector, held or *)
(* already free.                                                           *)
LEMMA PutIndexStep ==
  ASSUME PoolInv, NEW i \in 0 .. vecLen - 1, PutIndex(i) PROVE PoolInv'
<1> USE DEF PoolInv, TypeOK
<1>1. CASE i \in freeBitmap
  BY <1>1, SMTT(40) DEF PutIndex, FreeListMatchesBitmap
<1>2. CASE i \notin freeBitmap
  <2>1. /\ freeIndices' = Append(freeIndices, i)
        /\ freeBitmap' = freeBitmap \cup {i}
        /\ held' = held \ {i}
        /\ UNCHANGED <<vecLen, panicked, peak>>
    BY <1>2 DEF PutIndex
  <2>2. /\ freeIndices' \in Seq(Nat)
        /\ Len(freeIndices') = Len(freeIndices) + 1
        /\ freeIndices'[Len(freeIndices) + 1] = i
        /\ \A k \in 1 .. Len(freeIndices) : freeIndices'[k] = freeIndices[k]
    BY <2>1
  <2>3. FreeListMatchesBitmap'
    <3>1. \A k \in 1 .. Len(freeIndices') : freeIndices'[k] \in freeBitmap'
      BY <2>1, <2>2 DEF FreeListMatchesBitmap
    <3>2. ASSUME NEW x \in freeBitmap'
          PROVE  \E k \in 1 .. Len(freeIndices') : freeIndices'[k] = x
      <4>1. Len(freeIndices) \in Nat
        OBVIOUS
      <4>2. CASE x = i
        <5>1. Len(freeIndices) + 1 \in 1 .. Len(freeIndices')
          BY <2>2, <4>1
        <5>2. QED BY <2>2, <4>2, <5>1
      <4>3. CASE x \in freeBitmap
        <5>1. PICK k \in 1 .. Len(freeIndices) : freeIndices[k] = x
          BY <4>3 DEF FreeListMatchesBitmap
        <5>2. k \in 1 .. Len(freeIndices')
          BY <2>2, <4>1
        <5>3. QED BY <2>2, <5>1, <5>2
      <4>4. QED BY <2>1, <4>2, <4>3
    <3>3. \A j, k \in 1 .. Len(freeIndices') :
             freeIndices'[j] = freeIndices'[k] => j = k
      <4> DEFINE n == Len(freeIndices)
      <4>1. n \in Nat /\ \A k \in 1 .. n + 1 : k \in 1 .. n \/ k = n + 1
        OBVIOUS
      <4>2. \A k \in 1 .. n : freeIndices'[k] # i
        BY <1>2, <2>2 DEF FreeListMatchesBitmap
      <4>3. \A j, k \in 1 .. n : freeIndices'[j] = freeIndices'[k] => j = k
        BY <2>2 DEF FreeListMatchesBitmap
      <4>4. Len(freeIndices') = n + 1 /\ freeIndices'[n + 1] = i
        BY <2>2
      <4> HIDE DEF n
      <4>5. QED BY <4>1, <4>2, <4>3, <4>4
    <3>4. QED BY <3>1, <3>2, <3>3 DEF FreeListMatchesBitmap
  <2>4. QED BY <2>1, <2>2, <2>3
<1>3. QED BY <1>1, <1>2

(* Every get, put and reset keeps the invariant.                           *)
LEMMA PoolInvStep == PoolInv /\ [Next]_vars => PoolInv'
<1> SUFFICES ASSUME PoolInv, [Next]_vars PROVE PoolInv'
  OBVIOUS
<1>1. CASE GetIndex
  BY <1>1, GetIndexStep
<1>2. ASSUME NEW i \in 0 .. vecLen - 1, PutIndex(i) PROVE PoolInv'
  BY <1>2, PutIndexStep
<1>3. CASE Reset
  BY <1>3 DEF Reset, PoolInv, TypeOK, FreeListMatchesBitmap
<1>4. CASE UNCHANGED vars
  BY <1>4 DEF vars, PoolInv, TypeOK, FreeListMatchesBitmap
<1>5. QED BY <1>1, <1>2, <1>3, <1>4 DEF Next

(* elib/pool.go never hands out an index twice, keeps stack and bitmap     *)
(* equal and never grows the vector past the peak of live entries, for     *)
(* every sequence of GetIndex, PutIndex and Reset.                         *)
THEOREM PoolCorrect ==
  Spec => [](TypeOK /\ FreeListMatchesBitmap
                    /\ NeverHandedOutTwice /\ NoLongerThanPeak)
<1>1. ASSUME Init PROVE PoolInv
  <2>0. <<>> \in Seq(Nat) /\ {} \in SUBSET Nat /\ 0 \in Nat
    OBVIOUS
  <2>1. TypeOK
    BY <1>1, <2>0, Zenon DEF Init, TypeOK
  <2>2. Len(freeIndices) = 0
    BY <1>1 DEF Init
  <2>3. FreeListMatchesBitmap
    BY <1>1, <2>2 DEF Init, FreeListMatchesBitmap
  <2>4. 0 .. vecLen - 1 = {}
    BY <1>1 DEF Init
  <2>5. QED BY <1>1, <2>1, <2>3, <2>4 DEF Init, PoolInv
<1>2. PoolInv => TypeOK /\ FreeListMatchesBitmap
                        /\ NeverHandedOutTwice /\ NoLongerThanPeak
  BY NextIndexFacts
     DEF PoolInv, TypeOK, NeverHandedOutTwice, NoLongerThanPeak, IsFree
<1>3. QED BY <1>1, <1>2, PoolInvStep, PTL DEF Spec

(* The free stack and the free bitmap of a pool agree and no index is on   *)
(* the stack twice, for every limit and every sequence of GetIndex,        *)
(* PutIndex, repeated PutIndex and Reset.                                  *)
THEOREM FreeListCorrect == Spec => []FreeListMatchesBitmap
BY PoolCorrect, PTL
=============================================================================
