-------------------------------- MODULE Pool --------------------------------
(***************************************************************************)
(* The index pool of elib/pool.go with the data vector that elib/pool.tmpl *)
(* wraps around it (active pollers, timed events, interfaces and           *)
(* adjacencies are all kept in such pools).                                *)
(*                                                                         *)
(* The free list is a stack of indices mirrored by a bitmap; the typed     *)
(* pool extends its data vector when the stack is empty.  The bitmap is    *)
(* the set of its one bits.                                                *)
(***************************************************************************)
EXTENDS Integers, Sequences, FiniteSets

CONSTANTS
  MaxLen,   \* Pool.maxLen: 0 for no limit
  MaxVec    \* bound of the model on the length of the data vector

ASSUME PoolAssumption ==
  /\ MaxLen \in Nat
  /\ MaxVec \in Nat

VARIABLES
  freeIndices,  \* Pool.freeIndices
  freeBitmap,   \* Pool.freeBitmap
  vecLen,       \* len of the typed pool's data vector
  panicked,     \* panic(ErrPoolTooLarge) was raised
  held,         \* history: indices handed out and not yet put back
  peak          \* history: largest size of held since the last Reset

vars == <<freeIndices, freeBitmap, vecLen, panicked, held, peak>>

IsFree(i) == i >= vecLen \/ i \in freeBitmap

FreeLen == Len(freeIndices)

Elts == vecLen - FreeLen

(* The index the next GetIndex takes: top of the stack, or one past the    *)
(* end of the data vector.                                                 *)
NextIndex == IF FreeLen # 0 THEN freeIndices[FreeLen] ELSE vecLen

TooLarge(i) == MaxLen # 0 /\ i >= MaxLen

Init ==
  /\ freeIndices = <<>>
  /\ freeBitmap = {}
  /\ vecLen = 0
  /\ panicked = FALSE
  /\ held = {}
  /\ peak = 0

(* Bug form: the bitmap is cleared but the stack keeps the index.          *)
PopFreeKeepsStack ==
  /\ freeBitmap' = freeBitmap \ {NextIndex}
  /\ UNCHANGED freeIndices

(* The free index is popped before the limit is tested.                    *)
PopFree ==
  IF FreeLen # 0
  THEN /\ freeIndices' = SubSeq(freeIndices, 1, FreeLen - 1)
       /\ freeBitmap' = freeBitmap \ {NextIndex}
  ELSE UNCHANGED <<freeIndices, freeBitmap>>

GetIndex ==
  /\ ~panicked
  /\ NextIndex < MaxVec
  /\ PopFree
  /\ IF TooLarge(NextIndex)
     THEN /\ panicked' = TRUE
          /\ UNCHANGED <<vecLen, held, peak>>
     ELSE /\ vecLen' = IF NextIndex >= vecLen THEN NextIndex + 1 ELSE vecLen
          /\ held' = held \cup {NextIndex}
          /\ peak' = IF Cardinality(held') > peak
                     THEN Cardinality(held') ELSE peak
          /\ UNCHANGED panicked

(* Bug form: PutIndex without the test of the bitmap.                      *)
PutIndexUnchecked(i) ==
  /\ ~panicked
  /\ freeIndices' = Append(freeIndices, i)
  /\ freeBitmap' = freeBitmap \cup {i}
  /\ held' = held \ {i}
  /\ Len(freeIndices) < MaxVec
  /\ UNCHANGED <<vecLen, panicked, peak>>

(* Putting an index that is already free changes nothing (ok = false).     *)
PutIndex(i) ==
  /\ ~panicked
  /\ IF i \in freeBitmap
     THEN UNCHANGED <<freeIndices, freeBitmap>>
     ELSE /\ freeIndices' = Append(freeIndices, i)
          /\ freeBitmap' = freeBitmap \cup {i}
  /\ held' = held \ {i}
  /\ UNCHANGED <<vecLen, panicked, peak>>

Reset ==
  /\ ~panicked
  /\ freeIndices' = <<>>
  /\ freeBitmap' = {}
  /\ vecLen' = 0
  /\ held' = {}
  /\ peak' = 0
  /\ UNCHANGED panicked

Next ==
  \/ GetIndex
  \/ \E i \in 0 .. vecLen - 1 : PutIndex(i)
  \/ Reset

Spec == Init /\ [][Next]_vars
-----------------------------------------------------------------------------
TypeOK ==
  /\ freeIndices \in Seq(Nat)
  /\ freeBitmap \in SUBSET Nat
  /\ vecLen \in Nat
  /\ panicked \in BOOLEAN
  /\ held \in SUBSET Nat
  /\ peak \in Nat

(* The stack and the bitmap describe the same free set, and no index is    *)
(* stacked twice, whatever sequence of gets, puts and repeated puts led    *)
(* here.                                                                   *)
FreeListMatchesBitmap ==
  /\ \A k \in 1 .. Len(freeIndices) : freeIndices[k] \in freeBitmap
  /\ \A i \in freeBitmap : \E k \in 1 .. Len(freeIndices) : freeIndices[k] = i
  /\ \A j, k \in 1 .. Len(freeIndices) :
        freeIndices[j] = freeIndices[k] => j = k

(* Every index of the data vector is either held by exactly the client it  *)
(* was given to or free; GetIndex never hands out an index that a client   *)
(* still holds.                                                            *)
NeverHandedOutTwice ==
  /\ NextIndex \notin held
  /\ ~panicked => held = {i \in 0 .. vecLen - 1 : ~IsFree(i)}

(* Freed indices are reused before the vector grows: the vector is never   *)
(* longer than the largest number of entries that were live together.      *)
NoLongerThanPeak == vecLen <= peak

(* The inductive strengthening: held and free indices partition the        *)
(* vector, which is what makes the three properties preserved.             *)
PoolInv ==
  /\ TypeOK
  /\ FreeListMatchesBitmap
  /\ held \cap freeBitmap = {}
  /\ held \subseteq 0 .. vecLen - 1
  /\ freeBitmap \subseteq 0 .. vecLen - 1
  /\ ~panicked => held \cup freeBitmap = 0 .. vecLen - 1
  /\ vecLen <= peak
=============================================================================
